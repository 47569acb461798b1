------------------------ MODULE MetricInstancesProofs ------------------------
(***************************************************************************)
(* Theorems about MetricInstances: its types, the counters num_curr_hists  *)
(* and num_global_hists with the sampling rate they steer, and the data    *)
(* that is to be kept.  The invariant BaseInv relates the record of each   *)
(* instance, the values and the requests that wait for them, and the       *)
(* counters; it does not speak of what the clients use, which is           *)
(* MetricInstancesClientProofs.                                            *)
(*                                                                         *)
(* The replies of a decision and of a phase start are built with           *)
(* FlattenSeq; FlattenSeqGathers says what it returns.  It is an induction *)
(* over data, by NatSetInduction: the induction is over a set of numbers,  *)
(* which takes no operator as a parameter.                                 *)
(***************************************************************************)
EXTENDS MetricInstances, FiniteSetTheorems, SequenceTheorems, WellFoundedInduction, TLAPS

(* A set of numbers that is not empty has a least element.                 *)
LEMMA LeastNumber ==
    ASSUME NEW T \in SUBSET Nat, T # {}
    PROVE  \E n \in T : \A k \in T : n <= k
  <1> DEFINE R == {ss \in Nat \X Nat : ss[1] < ss[2]}
  <1>1. IsWellFoundedOn(R, Nat)
    BY NatLessThanWellFounded DEF OpToRel
  <1>2. \A x, y \in Nat : <<x, y>> \in R <=> x < y
    OBVIOUS
  <1> HIDE DEF R
  <1>3. \E x \in T : \A y \in T : ~(<<y, x>> \in R)
    BY <1>1, WFMin
  <1>4. \A x, y \in Nat : ~(y < x) => x <= y
    OBVIOUS
  <1> QED
    BY <1>2, <1>3, <1>4

(* Induction over a set: a set that has 0, and the successor of each       *)
(* number it has, has all numbers.                                         *)
LEMMA NatSetInduction ==
    ASSUME NEW P, 0 \in P, \A n \in P \intersect Nat : n + 1 \in P
    PROVE  Nat \subseteq P
  <1> DEFINE T == Nat \ P
  <1>1. CASE T # {}
    <2>1. PICK n \in T : \A k \in T : n <= k
      BY <1>1, LeastNumber
    <2>2. n - 1 \in Nat /\ n - 1 \in P
      BY <2>1
    <2>3. n - 1 + 1 \in P
      BY <2>2
    <2> QED
      BY <2>1, <2>2, <2>3
  <1> QED
    BY <1>1

\* the elements of q are those of the first n sequences of ss, each once
Gathers(q, ss, n) == \E part, at \in [1 .. Len(q) -> Nat] :
    /\ \A j \in 1 .. Len(q) :
          /\ part[j] \in 1 .. n /\ at[j] \in 1 .. Len(ss[part[j]])
          /\ q[j] = ss[part[j]][at[j]]
    /\ \A i \in 1 .. n : \A k \in 1 .. Len(ss[i]) :
          \E j \in 1 .. Len(q) : part[j] = i /\ at[j] = k
    /\ \A j, l \in 1 .. Len(q) : part[j] = part[l] /\ at[j] = at[l] => j = l

(* Appending the next sequence of ss gathers one more.                     *)
LEMMA GatherOne ==
    ASSUME NEW S, NEW ss \in Seq(Seq(S)), NEW n \in Nat, n + 1 <= Len(ss),
           NEW q \in Seq(S), Gathers(q, ss, n)
    PROVE  /\ q \o ss[n + 1] \in Seq(S)
           /\ Gathers(q \o ss[n + 1], ss, n + 1)
  <1> DEFINE t == ss[n + 1]
             r == q \o t
  <1>1. t \in Seq(S) /\ Len(q) \in Nat /\ Len(t) \in Nat
    <2>1. n + 1 \in 1 .. Len(ss)
      BY LenProperties
    <2> QED
      BY <2>1, ElementOfSeq, LenProperties
  <1>2. /\ r \in Seq(S) /\ Len(r) = Len(q) + Len(t)
        /\ \A i \in 1 .. Len(q) + Len(t) :
              r[i] = IF i <= Len(q) THEN q[i] ELSE t[i - Len(q)]
    BY <1>1, ConcatProperties
  <1>3. PICK part, at \in [1 .. Len(q) -> Nat] :
           /\ \A j \in 1 .. Len(q) :
                 /\ part[j] \in 1 .. n /\ at[j] \in 1 .. Len(ss[part[j]])
                 /\ q[j] = ss[part[j]][at[j]]
           /\ \A i \in 1 .. n : \A k \in 1 .. Len(ss[i]) :
                 \E j \in 1 .. Len(q) : part[j] = i /\ at[j] = k
           /\ \A j, l \in 1 .. Len(q) : part[j] = part[l] /\ at[j] = at[l] => j = l
    BY DEF Gathers
  <1> DEFINE part2 == [j \in 1 .. Len(r) |-> IF j <= Len(q) THEN part[j] ELSE n + 1]
             at2 == [j \in 1 .. Len(r) |-> IF j <= Len(q) THEN at[j] ELSE j - Len(q)]
  <1>4. part2 \in [1 .. Len(r) -> Nat] /\ at2 \in [1 .. Len(r) -> Nat]
    <2> HIDE DEF t, r
    <2> QED
      BY <1>1, <1>2, <1>3
  <1>5. /\ \A j \in 1 .. Len(r) : j <= Len(q) => /\ j \in 1 .. Len(q)
                                                 /\ part2[j] = part[j] /\ at2[j] = at[j]
                                                 /\ r[j] = q[j]
        /\ \A j \in 1 .. Len(r) : ~(j <= Len(q)) =>
              /\ j - Len(q) \in 1 .. Len(t)
              /\ part2[j] = n + 1 /\ at2[j] = j - Len(q) /\ r[j] = t[j - Len(q)]
    <2> HIDE DEF t, r
    <2> QED
      BY <1>1, <1>2
  <1> HIDE DEF part2, at2, r
  <1>6. ASSUME NEW j \in 1 .. Len(r)
        PROVE  /\ part2[j] \in 1 .. n + 1 /\ at2[j] \in 1 .. Len(ss[part2[j]])
               /\ r[j] = ss[part2[j]][at2[j]]
    <2>1. CASE j <= Len(q)
      BY <2>1, <1>3, <1>5
    <2>2. CASE ~(j <= Len(q))
      <3>1. /\ j - Len(q) \in 1 .. Len(t)
            /\ part2[j] = n + 1 /\ at2[j] = j - Len(q) /\ r[j] = t[j - Len(q)]
        BY <2>2, <1>5
      <3>2. part2[j] \in 1 .. n + 1
        BY <3>1
      <3>3. ss[part2[j]] = t
        BY <3>1
      <3> HIDE DEF t
      <3> QED
        BY <3>1, <3>2, <3>3
    <2> QED
      BY <2>1, <2>2
  <1>7. ASSUME NEW i \in 1 .. n + 1, NEW k \in 1 .. Len(ss[i])
        PROVE  \E j \in 1 .. Len(r) : part2[j] = i /\ at2[j] = k
    <2>1. CASE i = n + 1
      <3>1. Len(q) + k \in 1 .. Len(r) /\ ~(Len(q) + k <= Len(q))
            /\ Len(q) + k - Len(q) = k
        <4> HIDE DEF t
        <4>1. k \in 1 .. Len(t)
          BY <2>1 DEF t
        <4> QED
          BY <4>1, <1>1, <1>2
      <3> QED
        BY <3>1, <2>1, <1>5
    <2>2. CASE i # n + 1
      <3>1. i \in 1 .. n
        BY <2>2
      <3>2. PICK j \in 1 .. Len(q) : part[j] = i /\ at[j] = k
        BY <3>1, <1>3
      <3>3. j \in 1 .. Len(r) /\ j <= Len(q)
        BY <1>1, <1>2
      <3> QED
        BY <3>2, <3>3, <1>5
    <2> QED
      BY <2>1, <2>2
  <1>8. ASSUME NEW j \in 1 .. Len(r), NEW l \in 1 .. Len(r),
               part2[j] = part2[l], at2[j] = at2[l]
        PROVE  j = l
    <2>0. j \in Nat /\ l \in Nat
      BY <1>1, <1>2
    <2>1. CASE j <= Len(q) /\ l <= Len(q)
      BY <2>1, <1>3, <1>5, <1>8
    <2>2. CASE ~(j <= Len(q)) /\ ~(l <= Len(q))
      <3>1. at2[j] = j - Len(q) /\ at2[l] = l - Len(q)
        BY <2>2, <1>5
      <3> QED
        BY <3>1, <2>0, <1>1, <1>8
    <2>3. CASE j <= Len(q) /\ ~(l <= Len(q))
      <3>1. part2[j] \in 1 .. n /\ part2[l] = n + 1
        BY <2>3, <1>3, <1>5
      <3> QED
        BY <3>1, <1>8
    <2>4. CASE ~(j <= Len(q)) /\ l <= Len(q)
      <3>1. part2[l] \in 1 .. n /\ part2[j] = n + 1
        BY <2>4, <1>3, <1>5
      <3> QED
        BY <3>1, <1>8
    <2> QED
      BY <2>1, <2>2, <2>3, <2>4
  <1>9. Gathers(r, ss, n + 1)
    <2>1. \A j \in 1 .. Len(r) :
             /\ part2[j] \in 1 .. n + 1 /\ at2[j] \in 1 .. Len(ss[part2[j]])
             /\ r[j] = ss[part2[j]][at2[j]]
      BY <1>6
    <2>2. \A i \in 1 .. n + 1 : \A k \in 1 .. Len(ss[i]) :
             \E j \in 1 .. Len(r) : part2[j] = i /\ at2[j] = k
      BY <1>7
    <2>3. \A j, l \in 1 .. Len(r) : part2[j] = part2[l] /\ at2[j] = at2[l] => j = l
      BY <1>8
    <2>4. \E p, a \in [1 .. Len(r) -> Nat] :
             /\ \A j \in 1 .. Len(r) :
                   /\ p[j] \in 1 .. n + 1 /\ a[j] \in 1 .. Len(ss[p[j]])
                   /\ r[j] = ss[p[j]][a[j]]
             /\ \A i \in 1 .. n + 1 : \A k \in 1 .. Len(ss[i]) :
                   \E j \in 1 .. Len(r) : p[j] = i /\ a[j] = k
             /\ \A j, l \in 1 .. Len(r) : p[j] = p[l] /\ a[j] = a[l] => j = l
      BY <1>4, <2>1, <2>2, <2>3, Zenon
    <2> QED
      BY <2>4 DEF Gathers
  <1> QED
    BY <1>2, <1>9 DEF r

(* FlattenSeq gathers all the sequences of ss.                             *)
LEMMA FlattenSeqGathers ==
    ASSUME NEW S, NEW ss \in Seq(Seq(S))
    PROVE  FlattenSeq(ss) \in Seq(S) /\ Gathers(FlattenSeq(ss), ss, Len(ss))
  <1> DEFINE n == Len(ss)
             Def(f) == [i \in 1 .. n |-> IF i = 1 THEN ss[i] ELSE f[i - 1] \o ss[i]]
             IsPart(g, k) == /\ g \in [1 .. n -> Seq(S)]
                             /\ \A i \in 1 .. k : g[i] = IF i = 1 THEN ss[i]
                                                         ELSE g[i - 1] \o ss[i]
             P == {k \in Nat : k <= n => \E g : IsPart(g, k)}
  <1>0. n \in Nat /\ \A i \in 1 .. n : ss[i] \in Seq(S)
    OBVIOUS
  <1>1. 0 \in P
    <2>1. IsPart([i \in 1 .. n |-> <<>>], 0)
      BY <1>0
    <2> QED
      BY <2>1
  <1>2. \A k \in P \intersect Nat : k + 1 \in P
    <2> SUFFICES ASSUME NEW k \in Nat, k + 1 <= n, \E g : IsPart(g, k)
                 PROVE  \E g : IsPart(g, k + 1)
      <3> HIDE DEF IsPart
      <3> QED
        BY <1>0
    <2>1. PICK g : IsPart(g, k)
      OBVIOUS
    <2> DEFINE h == [g EXCEPT ![k + 1] = IF k + 1 = 1 THEN ss[k + 1]
                                         ELSE g[k] \o ss[k + 1]]
    <2>2. h \in [1 .. n -> Seq(S)]
      <3>0. k + 1 \in 1 .. n /\ (k + 1 # 1 => k \in 1 .. n)
        BY <1>0
      <3>1. k + 1 # 1 => g[k] \o ss[k + 1] \in Seq(S)
        <4>1. ss[k + 1] \in Seq(S) /\ (k + 1 # 1 => g[k] \in Seq(S))
          BY <1>0, <2>1, <3>0
        <4> QED
          BY <4>1
      <3> QED
        BY <1>0, <2>1, <3>1
    <2>3. \A i \in 1 .. k : h[i] = g[i]
      BY <2>1
    <2>4. h[k + 1] = IF k + 1 = 1 THEN ss[k + 1] ELSE g[k] \o ss[k + 1]
      BY <2>1
    <2> HIDE DEF h
    <2>5. \A i \in 1 .. k + 1 : h[i] = IF i = 1 THEN ss[i] ELSE h[i - 1] \o ss[i]
      <3> SUFFICES ASSUME NEW i \in 1 .. k + 1
                   PROVE  h[i] = IF i = 1 THEN ss[i] ELSE h[i - 1] \o ss[i]
        OBVIOUS
      <3>1. CASE i = k + 1
        <4>1. i # 1 => h[k] = g[k]
          BY <2>3, <3>1
        <4> QED
          BY <2>4, <3>1, <4>1
      <3>2. CASE i \in 1 .. k
        <4>1. g[i] = IF i = 1 THEN ss[i] ELSE g[i - 1] \o ss[i]
          BY <2>1, <3>2
        <4>2. i # 1 => h[i - 1] = g[i - 1]
          BY <2>3, <3>2
        <4> QED
          BY <2>3, <3>2, <4>1, <4>2
      <3> QED
        BY <3>1, <3>2
    <2> QED
      BY <2>2, <2>5
  <1>3. n \in P
    <2> HIDE DEF P
    <2> QED
      BY <1>0, <1>1, <1>2, NatSetInduction
  <1>4. PICK g : IsPart(g, n)
    BY <1>3
  <1> DEFINE flatten == CHOOSE f : f = Def(f)
  <1>5. g = Def(g)
    BY <1>4
  <1>6. flatten = Def(flatten)
    <2> HIDE DEF Def
    <2> QED
      BY <1>5
  <1>7. Gathers(<<>>, ss, 0)
    <2> DEFINE none == [j \in 1 .. 0 |-> 0]
               q == <<>>
    <2>1. Len(q) = 0 /\ none \in [1 .. Len(q) -> Nat]
      OBVIOUS
    <2>2. 1 .. 0 = {}
      OBVIOUS
    <2> HIDE DEF none, q
    <2>3. Gathers(q, ss, 0)
      BY <2>1, <2>2 DEF Gathers
    <2> QED
      BY <2>3 DEF q
  <1>8. CASE n = 0
    <2>1. FlattenSeq(ss) = <<>>
      BY <1>8 DEF FlattenSeq
    <2> QED
      BY <2>1, <1>7, <1>8
  <1>9. CASE n # 0
    <2>1. FlattenSeq(ss) = flatten[n]
      BY <1>9 DEF FlattenSeq
    <2> DEFINE Good(k) == flatten[k] \in Seq(S) /\ Gathers(flatten[k], ss, k)
               Q == {k \in Nat : k + 1 <= n => Good(k + 1)}
    <2>2. /\ flatten[1] = ss[1]
          /\ \A i \in 2 .. n : flatten[i] = flatten[i - 1] \o ss[i]
      <3> HIDE DEF flatten
      <3>1. \A i \in 1 .. n : Def(flatten)[i] =
                IF i = 1 THEN ss[i] ELSE flatten[i - 1] \o ss[i]
        OBVIOUS
      <3>2. \A i \in 1 .. n : flatten[i] = Def(flatten)[i]
        <4> HIDE DEF Def
        <4> QED
          BY <1>6
      <3> HIDE DEF Def
      <3>3. 1 \in 1 .. n /\ \A i \in 2 .. n : i \in 1 .. n /\ i # 1
        BY <1>0, <1>9
      <3> QED
        BY <3>1, <3>2, <3>3
    <2> HIDE DEF flatten
    <2>3. 0 \in Q
      <3>1. <<>> \in Seq(S) /\ <<>> \o ss[1] = ss[1]
        <4>1. ss[1] \in Seq(S)
          BY <1>0, <1>9
        <4> QED
          BY <4>1, ConcatEmptySeq
      <3>2. 0 + 1 <= Len(ss) /\ 0 + 1 = 1
        BY <1>0, <1>9
      <3> HIDE DEF n
      <3>3. Gathers(<<>> \o ss[1], ss, 1) /\ <<>> \o ss[1] \in Seq(S)
        BY <1>7, <3>1, <3>2, GatherOne
      <3> QED
        BY <2>2, <3>1, <3>3
    <2>4. \A k \in Q \intersect Nat : k + 1 \in Q
      <3> SUFFICES ASSUME NEW k \in Nat, k + 2 <= n, Good(k + 1)
                   PROVE  Good(k + 2)
        <4> HIDE DEF Good
        <4> QED
          BY <1>0
      <3>1. flatten[k + 2] = flatten[k + 1] \o ss[k + 2]
        <4>1. k + 2 \in 2 .. n /\ (k + 2) - 1 = k + 1
          BY <1>0
        <4> QED
          BY <2>2, <4>1
      <3>2. k + 1 \in Nat /\ (k + 1) + 1 = k + 2 /\ (k + 1) + 1 <= Len(ss)
        OBVIOUS
      <3> HIDE DEF n
      <3>3. flatten[k + 1] \o ss[(k + 1) + 1] \in Seq(S)
            /\ Gathers(flatten[k + 1] \o ss[(k + 1) + 1], ss, (k + 1) + 1)
        BY <3>2, GatherOne
      <3> QED
        BY <3>1, <3>2, <3>3
    <2>5. n - 1 \in Nat /\ n - 1 + 1 = n
      BY <1>0, <1>9
    <2>6. n - 1 \in Q
      <3> HIDE DEF Q
      <3> QED
        BY <2>3, <2>4, <2>5, NatSetInduction
    <2> QED
      BY <1>0, <2>1, <2>5, <2>6
  <1> QED
    BY <1>8, <1>9

Requests == [client : Client, phase : 0 .. NoPhase]

\* what holds of the record of an instance
Sound(i) ==
    /\ ~i.live => ~i.enabled /\ i.data = "none" /\ ~i.pdata
    /\ i.enabled <=> ~Idle(i)
    /\ i.enabled => i.gdata = "active"
    /\ i.data = "active" <=> i.users # {}
    /\ i.data = "inactive" => i.pdata
    /\ i.users \subseteq Curr /\ i.gusers \intersect Curr = {}
    /\ i.phasepd => i.users \intersect PC # {}

(* An instance is enabled exactly while it has users, and then its value    *)
(* is decided for it; it is live while its value is undecided or failed.    *)
InstanceInv == \A id \in Id :
    /\ Sound(inst[id])
    /\ id >= nextId => ~inst[id].live /\ val[id] = "none"
    /\ val[id] = "undecided" <=> parents[id] # <<>>
    /\ ~inst[id].live => val[id] \in {"none", "success"}
    /\ inst[id].enabled => val[id] = "success"
    /\ inst[id].old <= phase

(* No two live instances are of the same pair.                              *)
OnePerPair == \A i, j \in Id :
    inst[i].live /\ inst[j].live /\ inst[i].pair = inst[j].pair => i = j

Active == {id \in Id : inst[id].data = "active"}
Enabled == {id \in Id : inst[id].enabled}

(* The counters fit, and the rate is settled by the counters.               *)
CountInv ==
    /\ numCurr = Cardinality(Active) /\ numGlobal >= Cardinality(Enabled)
    /\ numCurr > 0 => rate = "curr"
    /\ numCurr = 0 /\ numGlobal > 0 => rate = "global"
    /\ ~failed

(* Only the search of the current phase hears of phases; a reply to a       *)
(* search names an instance, also one to a request that failed.             *)
HandleInv == \A c \in Client : \A n \in 1 .. Len(inbox[c]) :
    /\ inbox[c][n].kind = "phase" => c \in PC \intersect Curr
    /\ inbox[c][n].kind = "reply" /\ (c \in PC \/ inbox[c][n].ok) => inbox[c][n].id \in Id

\* a search is never destroyed with its stream
OnlyVisisExit == \A c \in PC : life[c] = "open"

BaseInv == /\ TypeOK /\ InstanceInv /\ OnePerPair /\ CountInv /\ HandleInv
           /\ OnlyVisisExit

-----------------------------------------------------------------------------
(* What the operations on an instance do                                    *)

\* what DataKept says of the step of an instance from i to r
Kept(i, r) ==
    /\ i.pdata /\ r.pdata =>
          /\ i.gdata # "none" => r.gdata # "none"
          /\ r.old >= i.old
          /\ i.data # "none" => r.data # "none" \/ r.old > i.old
    /\ i.phasepd /\ r.phasepd /\ i.data # "none" => r.data # "none"

\* r is what the instance id is after client c has disabled it
Disabled(id, c, r) ==
    /\ inst' = [inst EXCEPT ![id] = r] /\ r \in Instance /\ Sound(r)
    /\ r.pair = inst[id].pair /\ (r.live => inst[id].live)
    /\ inst[id].live /\ ~r.live => inst[id].enabled
    /\ r.users = inst[id].users \ {c} /\ r.gusers = inst[id].gusers \ {c}
    /\ r.enabled => inst[id].enabled
    /\ r.old <= inst[id].old /\ Kept(inst[id], r)
    /\ numCurr' = IF inst[id].data = "active" /\ r.data # "active"
                  THEN Dec(numCurr) ELSE numCurr
    /\ r.data = "active" => inst[id].data = "active"
    /\ numGlobal' = IF inst[id].enabled /\ ~r.enabled THEN Dec(numGlobal) ELSE numGlobal
    /\ rate' = RateOnDisable(numCurr, numCurr', numGlobal')
    /\ failed' \in BOOLEAN
    /\ failed' => \/ failed
                  \/ inst[id].data = "active" /\ numCurr = 0
                  \/ inst[id].enabled /\ numGlobal = 0

\* i is the instance id with some of its flags cleared
Cleared(id, i) ==
    /\ i \in Instance /\ Sound(i)
    /\ i.live = inst[id].live /\ i.pair = inst[id].pair /\ i.enabled = inst[id].enabled
    /\ i.users = inst[id].users /\ i.gusers = inst[id].gusers
    /\ i.data = "active" <=> inst[id].data = "active"
    /\ i.old <= inst[id].old /\ (i.phasepd => inst[id].phasepd)
    /\ i.pdata => /\ inst[id].pdata /\ i.gdata = inst[id].gdata
                  /\ i.data = inst[id].data /\ i.old = inst[id].old
    /\ i.phasepd => i.data = inst[id].data

(* A deleted instance has no users and no data.                            *)
LEMMA DeletedIsEmpty ==
    ASSUME NEW i, i.pair \in Pair
    PROVE  /\ Deleted(i) \in Instance /\ ~Deleted(i).live /\ Deleted(i).pair = i.pair
           /\ ~Deleted(i).enabled /\ Deleted(i).users = {} /\ Deleted(i).gusers = {}
           /\ Deleted(i).data = "none" /\ ~Deleted(i).pdata /\ ~Deleted(i).phasepd
           /\ Deleted(i).old = 0
  <1>1. /\ NoInst \in Instance /\ ~NoInst.live /\ ~NoInst.enabled
        /\ NoInst.users = {} /\ NoInst.gusers = {} /\ NoInst.data = "none"
        /\ ~NoInst.pdata /\ ~NoInst.phasepd /\ NoInst.old = 0
    <2>1. (CHOOSE p \in Pair : TRUE) \in Pair /\ 0 \in 0 .. MaxPhase
      BY InstancesAssumption
    <2> QED
      BY <2>1 DEF NoInst, Instance, Histogram
  <1> QED
    BY <1>1 DEF Deleted, Instance

(* Disabling an instance for a client takes away that user and no other.   *)
LEMMA DisableDoes ==
    ASSUME NEW id \in Id, inst[id] \in Instance,
           NEW i, NEW c \in Client, Disable(id, i, c), Cleared(id, i),
           c \in PC \intersect Curr => ~i.phasepd,
           numCurr \in Nat, numGlobal \in Nat, failed \in BOOLEAN
    PROVE  \E r : Disabled(id, c, r)
  <1> DEFINE j == IF c \in Curr THEN [i EXCEPT !.users = @ \ {c}]
                                ELSE [i EXCEPT !.gusers = @ \ {c}]
             keep == i.pdata \/ i.phasepd
             noCurr == j.users = {}
             idle == Idle(j)
             Inactive(h) == IF h = "none" THEN h ELSE "inactive"
             k == IF noCurr
                  THEN [j EXCEPT !.data = IF keep THEN Inactive(@) ELSE "none"] ELSE j
  <1>1. CASE ~i.live \/ ~i.enabled
    <2>1. /\ inst' = [inst EXCEPT ![id] = i]
          /\ UNCHANGED <<numCurr, numGlobal, rate, failed>>
      BY <1>1 DEF Disable
    <2>2. i.users = {} /\ i.gusers = {} /\ ~i.enabled
      BY <1>1 DEF Cleared, Sound, Idle
    <2>3. Kept(inst[id], i) /\ i.old <= inst[id].old
      BY DEF Kept, Cleared, Instance
    <2>4. rate' = RateOnDisable(numCurr, numCurr', numGlobal')
      BY <2>1 DEF RateOnDisable
    <2>5. Disabled(id, c, i)
      BY <2>1, <2>2, <2>3, <2>4 DEF Disabled, Cleared
    <2> QED
      BY <2>5
  <1>2. CASE i.live /\ i.enabled
    <2> DEFINE r == IF idle /\ ~keep THEN Deleted(i)
                    ELSE IF idle
                    THEN [k EXCEPT !.enabled = FALSE, !.gdata = Inactive(@)]
                    ELSE k
               dropCurr == noCurr /\ i.data # "none" /\ (~keep \/ i.users # {})
               dropGlobal == idle /\ (~keep \/ i.gdata # "none")
    <2>1. /\ inst' = [inst EXCEPT ![id] = r]
          /\ numCurr' = IF dropCurr THEN Dec(numCurr) ELSE numCurr
          /\ numGlobal' = IF dropGlobal THEN Dec(numGlobal) ELSE numGlobal
          /\ rate' = IF noCurr THEN RateOnDisable(numCurr, numCurr', numGlobal')
                     ELSE rate
          /\ failed' = (failed \/ (dropCurr /\ numCurr = 0)
                               \/ (dropGlobal /\ numGlobal = 0))
      BY <1>2 DEF Disable
    <2>2. /\ i \in Instance /\ i.gdata = "active" /\ i.users \subseteq Curr
          /\ i.gusers \intersect Curr = {} /\ (i.data = "active" <=> i.users # {})
          /\ (i.data = "inactive" => i.pdata) /\ (i.phasepd => i.users \intersect PC # {})
          /\ i.data \in {"none", "active", "inactive"}
      BY <1>2 DEF Cleared, Sound, Instance, Histogram
    <2>3. /\ j \in Instance /\ j.users = i.users \ {c} /\ j.gusers = i.gusers \ {c}
          /\ j.data = i.data /\ j.gdata = i.gdata /\ j.live = i.live /\ j.pair = i.pair
          /\ j.pdata = i.pdata /\ j.phasepd = i.phasepd /\ j.old = i.old
          /\ j.enabled = i.enabled
      BY <2>2 DEF Instance
    <2>4. i.phasepd => j.users \intersect PC # {}
      BY <2>2, <2>3, InstancesAssumption DEF Client
    <2> HIDE DEF j
    <2>5. /\ k \in Instance /\ k.users = j.users /\ k.gusers = j.gusers
          /\ k.data = (IF noCurr THEN IF keep THEN Inactive(i.data) ELSE "none" ELSE i.data)
          /\ k.gdata = i.gdata /\ k.live = i.live /\ k.pair = i.pair
          /\ k.pdata = i.pdata /\ k.phasepd = i.phasepd /\ k.old = i.old
          /\ k.enabled = i.enabled
      BY <2>3 DEF Instance, Histogram
    <2> HIDE DEF k
    <2>6. /\ Deleted(i) \in Instance /\ ~Deleted(i).live /\ Deleted(i).pair = i.pair
          /\ ~Deleted(i).enabled /\ Deleted(i).users = {} /\ Deleted(i).gusers = {}
          /\ Deleted(i).data = "none" /\ ~Deleted(i).pdata /\ ~Deleted(i).phasepd
          /\ Deleted(i).old = 0
      <3>1. i.pair \in Pair
        BY <2>2 DEF Instance
      <3> QED
        BY <3>1, DeletedIsEmpty
    <2>7. /\ r \in Instance /\ r.pair = i.pair /\ (r.live <=> ~(idle /\ ~keep))
          /\ r.enabled = ~idle /\ r.users = j.users /\ r.gusers = j.gusers
          /\ r.old = (IF r.live THEN i.old ELSE 0)
          /\ r.data = IF noCurr THEN IF keep THEN Inactive(i.data) ELSE "none" ELSE i.data
          /\ r.live => /\ r.gdata = IF idle THEN "inactive" ELSE "active"
                       /\ r.pdata = i.pdata /\ r.phasepd = i.phasepd
          /\ ~r.live => ~r.pdata /\ ~r.phasepd
      <3>1. CASE idle /\ ~keep
        BY <3>1, <2>3, <2>6 DEF Idle
      <3>2. CASE idle /\ keep
        BY <3>2, <1>2, <2>2, <2>5 DEF Instance, Histogram
      <3>3. CASE ~idle
        BY <3>3, <1>2, <2>2, <2>5
      <3> QED
        BY <3>1, <3>2, <3>3
    <2> HIDE DEF r
    <2>8. Sound(r)
      BY <2>2, <2>3, <2>4, <2>7 DEF Sound, Idle
    <2>9. /\ dropCurr <=> i.data = "active" /\ r.data # "active"
          /\ dropGlobal <=> idle
      BY <2>2, <2>3, <2>4, <2>7
    <2>10. numCurr' \in Nat /\ (~noCurr => numCurr' = numCurr)
      BY <2>1, <2>9 DEF Dec
    <2>11. Disabled(id, c, r)
      <3>1. Kept(inst[id], r)
        BY <2>2, <2>7 DEF Kept, Cleared, Instance
      <3>2. rate' = RateOnDisable(numCurr, numCurr', numGlobal')
        BY <2>1, <2>10 DEF RateOnDisable
      <3>3. r.old <= inst[id].old
        BY <2>7 DEF Cleared, Instance
      <3>4. /\ failed' \in BOOLEAN
            /\ failed' => \/ failed
                          \/ inst[id].data = "active" /\ numCurr = 0
                          \/ inst[id].enabled /\ numGlobal = 0
        BY <1>2, <2>1, <2>9 DEF Cleared
      <3>5. /\ numCurr' = IF inst[id].data = "active" /\ r.data # "active"
                          THEN Dec(numCurr) ELSE numCurr
            /\ numGlobal' = IF inst[id].enabled /\ ~r.enabled THEN Dec(numGlobal)
                            ELSE numGlobal
        BY <1>2, <2>1, <2>7, <2>9 DEF Cleared
      <3>6. /\ r.pair = inst[id].pair /\ (r.live => inst[id].live)
            /\ inst[id].live /\ ~r.live => inst[id].enabled
            /\ r.users = inst[id].users \ {c} /\ r.gusers = inst[id].gusers \ {c}
            /\ r.enabled => inst[id].enabled
            /\ r.data = "active" => inst[id].data = "active"
        BY <1>2, <2>3, <2>7 DEF Cleared
      <3> HIDE DEF idle, noCurr, dropCurr, dropGlobal
      <3> QED
        BY <2>1, <2>7, <2>8, <3>1, <3>2, <3>3, <3>4, <3>5, <3>6 DEF Disabled
    <2> QED
      BY <2>11
  <1> QED
    BY <1>1, <1>2 DEF Cleared, Instance

(* A visi disables an instance as it is.                                    *)
LEMMA VisiDisables ==
    ASSUME BaseInv, NEW id \in Id, NEW c \in Visi, Disable(id, inst[id], c)
    PROVE  \E r : Disabled(id, c, r)
  <1>1. inst[id] \in Instance /\ Sound(inst[id])
    BY DEF BaseInv, TypeOK, InstanceInv
  <1>2. Cleared(id, inst[id])
    BY <1>1 DEF Cleared, Instance
  <1>3. /\ numCurr \in Nat /\ numGlobal \in Nat /\ failed \in BOOLEAN
        /\ c \in Client /\ c \notin PC
    BY InstancesAssumption DEF BaseInv, TypeOK, Client
  <1> QED
    BY <1>1, <1>2, <1>3, DisableDoes

(* A search clears the flags that keep the data of nobody, then disables.  *)
LEMMA SearchDisables ==
    ASSUME BaseInv, NEW id \in Id, NEW c \in PC, DisableAndClear(id, c)
    PROVE  \E r : Disabled(id, c, r)
  <1> DEFINE k == inst[id]
             i == IF ~k.live THEN k
                  ELSE IF c \in Curr THEN [k EXCEPT !.phasepd = FALSE]
                  ELSE ClearPersistentData(k)
  <1>1. k \in Instance /\ Sound(k)
    BY DEF BaseInv, TypeOK, InstanceInv
  <1>2. Disable(id, i, c)
    BY DEF DisableAndClear
  <1>3. /\ numCurr \in Nat /\ numGlobal \in Nat /\ failed \in BOOLEAN /\ c \in Client
    BY InstancesAssumption DEF BaseInv, TypeOK, Client
  <1> HIDE DEF k
  <1>4. CASE ~k.live
    <2>1. i = k /\ ~k.phasepd
      BY <1>1, <1>4 DEF Sound, Idle
    <2>2. Cleared(id, i)
      BY <1>1, <2>1 DEF Cleared, Instance, k
    <2> HIDE DEF i
    <2> QED
      BY <1>1, <1>2, <1>3, <2>1, <2>2, DisableDoes DEF k
  <1>5. CASE k.live /\ c \in Curr
    <2>1. /\ i \in Instance /\ i.live = k.live /\ i.pair = k.pair /\ i.enabled = k.enabled
          /\ i.users = k.users /\ i.gusers = k.gusers /\ i.data = k.data
          /\ i.gdata = k.gdata /\ i.old = k.old /\ i.pdata = k.pdata /\ ~i.phasepd
      BY <1>1, <1>5 DEF Instance
    <2> HIDE DEF i
    <2>2. Sound(i)
      BY <1>1, <2>1 DEF Sound, Idle
    <2>3. Cleared(id, i)
      BY <2>1, <2>2 DEF Cleared, Instance, k
    <2> QED
      BY <1>1, <1>2, <1>3, <2>1, <2>3, DisableDoes DEF k
  <1>6. CASE k.live /\ c \notin Curr
    <2>0. i = ClearPersistentData(k)
      BY <1>6
    <2>1. /\ i \in Instance /\ i.live = k.live /\ i.pair = k.pair /\ i.enabled = k.enabled
          /\ i.users = k.users /\ i.gusers = k.gusers
          /\ i.data = IF k.pdata /\ k.users = {} THEN "none" ELSE k.data
          /\ i.gdata = IF k.pdata /\ ~k.enabled /\ k.gusers = {} THEN "none" ELSE k.gdata
          /\ i.old = IF k.pdata /\ k.users = {} THEN 0 ELSE k.old
          /\ ~i.pdata /\ ~i.phasepd
      <3> DEFINE curr == k.pdata /\ k.users = {}
                 global == k.pdata /\ ~k.enabled /\ k.gusers = {}
      <3>1. i = [k EXCEPT !.phasepd = FALSE, !.pdata = FALSE,
                          !.data = IF curr THEN "none" ELSE k.data,
                          !.old = IF curr THEN 0 ELSE k.old,
                          !.gdata = IF global THEN "none" ELSE k.gdata]
        BY <2>0 DEF ClearPersistentData
      <3>2. 0 \in 0 .. MaxPhase
        BY InstancesAssumption
      <3> HIDE DEF i, curr, global
      <3>3. /\ i \in Instance /\ i.live = k.live /\ i.pair = k.pair
            /\ i.enabled = k.enabled /\ i.users = k.users /\ i.gusers = k.gusers
            /\ i.data = (IF curr THEN "none" ELSE k.data)
            /\ i.gdata = (IF global THEN "none" ELSE k.gdata)
            /\ i.old = (IF curr THEN 0 ELSE k.old) /\ ~i.pdata /\ ~i.phasepd
        BY <1>1, <3>1, <3>2 DEF Instance, Histogram
      <3> QED
        BY <3>3 DEF curr, global
    <2> HIDE DEF i
    <2>2. Sound(i)
      BY <1>1, <2>1 DEF Sound, Idle, Instance, Histogram
    <2>3. Cleared(id, i)
      BY <1>1, <2>1, <2>2 DEF Cleared, Instance, Sound, k
    <2> QED
      BY <1>1, <1>2, <1>3, <2>1, <2>3, DisableDoes DEF k
  <1> QED
    BY <1>4, <1>5, <1>6

\* r is what the instance id is when it was made ready for n requests of who
Readied(id, who, n, r) ==
    /\ inst' = [inst EXCEPT ![id] = r] /\ r \in Instance /\ Sound(r)
    /\ r.live /\ r.enabled /\ r.pair = inst[id].pair /\ r.old = inst[id].old
    /\ r.users = inst[id].users \union (who \intersect Curr)
    /\ r.gusers = inst[id].gusers \union (who \ Curr)
    /\ Kept(inst[id], r)
    /\ inst[id].data = "active" => r.data = "active"
    /\ numCurr' = IF inst[id].data # "active" /\ r.data = "active" THEN numCurr + 1
                  ELSE numCurr
    /\ numGlobal' = numGlobal + n
    /\ rate' = IF numCurr > 0 THEN rate
               ELSE IF numCurr' > 0 THEN "curr"
               ELSE IF numGlobal = 0 THEN "global" ELSE rate
    /\ UNCHANGED failed

(* Making an instance ready adds users, and counts it if it was not active. *)
LEMMA ReadyDoes ==
    ASSUME BaseInv, NEW id \in Id, inst[id].live, NEW reqs \in Seq(Requests),
           reqs # <<>>, Ready(id, reqs)
    PROVE  \E r : Readied(id, {q.client : q \in ToSet(reqs)}, Len(reqs), r)
  <1> DEFINE k == inst[id]
             who == {q.client : q \in ToSet(reqs)}
             curr == who \intersect Curr
             r == WithUsers(k, who)
  <1>1. k \in Instance /\ Sound(k) /\ k.live
    BY DEF BaseInv, TypeOK, InstanceInv
  <1>2. numCurr \in Nat /\ numGlobal \in Nat
    BY DEF BaseInv, TypeOK
  <1>3. who # {} /\ who \subseteq Client
    <2>1. /\ Len(reqs) \in Nat /\ Len(reqs) # 0 /\ DOMAIN reqs = 1 .. Len(reqs)
          /\ \A n \in 1 .. Len(reqs) : reqs[n] \in Requests
      BY LenProperties, ElementOfSeq, EmptySeq
    <2>2. 1 \in 1 .. Len(reqs)
      BY <2>1
    <2>3. /\ \A q \in ToSet(reqs) : q.client \in Client
          /\ reqs[1] \in ToSet(reqs)
      BY <2>1, <2>2 DEF ToSet, Requests
    <2> QED
      BY <2>3
  <1>4. /\ inst' = [inst EXCEPT ![id] = r]
        /\ numCurr' = IF FirstCurrent(k, curr) THEN numCurr + 1 ELSE numCurr
        /\ numGlobal' = numGlobal + Len(reqs)
        /\ rate' = (IF numCurr > 0 THEN rate
                    ELSE IF curr # {} THEN "curr"
                    ELSE IF numGlobal = 0 THEN "global" ELSE rate)
        /\ UNCHANGED failed
    BY DEF Ready
  <1> HIDE DEF who, k
  <1>5. /\ r \in Instance /\ r.live /\ r.enabled /\ r.pair = k.pair /\ r.old = k.old
        /\ r.users = k.users \union curr /\ r.gusers = k.gusers \union (who \ Curr)
        /\ r.data = (IF curr # {} THEN "active" ELSE k.data) /\ r.gdata = "active"
        /\ (r.pdata <=> k.pdata \/ persistentData \/ who \intersect (PC \ Curr) # {})
        /\ (r.phasepd <=> k.phasepd \/ who \intersect PC \intersect Curr # {})
    BY <1>1, <1>3 DEF Instance, Histogram, WithUsers
  <1> HIDE DEF r
  <1>6. Sound(r)
    BY <1>1, <1>3, <1>5 DEF Sound, Idle
  <1>7. Kept(k, r)
    BY <1>1, <1>5 DEF Kept, Instance
  <1>8. FirstCurrent(k, curr) <=> k.data # "active" /\ r.data = "active"
    BY <1>1, <1>5 DEF FirstCurrent, Sound
  <1>9. rate' = IF numCurr > 0 THEN rate
                ELSE IF numCurr' > 0 THEN "curr"
                ELSE IF numGlobal = 0 THEN "global" ELSE rate
    <2>1. numCurr = 0 => (curr # {} <=> numCurr' > 0)
      <3>1. numCurr = 0 => k.data # "active"
        <4>1. IsFiniteSet(Active) /\ numCurr = Cardinality(Active)
          <5>1. IsFiniteSet(Id) /\ Active \subseteq Id
            BY InstancesAssumption, FS_Interval DEF Id, Active
          <5> QED
            BY <5>1, FS_Subset DEF BaseInv, CountInv
        <4>2. Cardinality(Active) = 0 => Active = {}
          BY <4>1, FS_EmptySet
        <4> QED
          BY <4>1, <4>2 DEF Active, k
      <3> QED
        BY <1>2, <1>4, <1>5, <1>8, <3>1
    <2> QED
      BY <1>2, <1>4, <2>1
  <1>10. Readied(id, who, Len(reqs), r)
    BY <1>4, <1>5, <1>6, <1>7, <1>8, <1>9 DEF Readied, k
  <1> QED
    BY <1>10 DEF who

\* the part of the types that is about instances
DmTypes ==
    /\ inst \in [Id -> Instance] /\ failed \in BOOLEAN
    /\ numCurr \in 0 .. Cardinality(Pair) /\ numGlobal \in Nat
    /\ rate \in {"unset", "curr", "global"}

DmInv == DmTypes /\ InstanceInv /\ OnePerPair /\ CountInv

(* Sets of handles are finite.                                              *)
LEMMA HandlesFinite ==
    ASSUME NEW S \in SUBSET Id
    PROVE  IsFiniteSet(S) /\ Cardinality(S) \in Nat
  <1>1. IsFiniteSet(Id)
    BY InstancesAssumption, FS_Interval DEF Id
  <1>2. IsFiniteSet(S)
    BY <1>1, FS_Subset
  <1> QED
    BY <1>2, FS_CardinalityType

(* There are not more active histograms than pairs.                         *)
LEMMA FewActive ==
    ASSUME NEW f \in [Id -> Instance], \A id \in Id : Sound(f[id]),
           \A i, j \in Id : f[i].live /\ f[j].live /\ f[i].pair = f[j].pair => i = j
    PROVE  Cardinality({id \in Id : f[id].data = "active"}) \in 0 .. Cardinality(Pair)
  <1> DEFINE S == {id \in Id : f[id].data = "active"}
             g == [id \in S |-> f[id].pair]
  <1>1. IsFiniteSet(S) /\ Cardinality(S) \in Nat
    BY HandlesFinite
  <1>2. IsFiniteSet(Pair) /\ Cardinality(Pair) \in Nat
    BY InstancesAssumption, FS_CardinalityType
  <1>3. \A id \in S : f[id].live
    <2> TAKE id \in S
    <2>1. id \in Id /\ f[id].data # "none" /\ f[id] \in Instance
      OBVIOUS
    <2> QED
      BY <2>1 DEF Sound
  <1>4. \A id \in S : f[id].pair \in Pair
    BY DEF Instance
  <1>5. g \in Injection(S, Pair)
    BY <1>3, <1>4 DEF Injection, IsInjective
  <1>6. Cardinality(S) <= Cardinality(Pair)
    <2> HIDE DEF S, g
    <2> QED
      BY <1>2, <1>5, FS_Injection
  <1> QED
    BY <1>1, <1>2, <1>6

(* How the sets of active and of enabled instances change with one of them. *)
LEMMA OneChanges ==
    ASSUME inst \in [Id -> Instance], NEW id \in Id, NEW r \in Instance,
           inst' = [inst EXCEPT ![id] = r]
    PROVE  /\ Cardinality(Active) \in Nat /\ Cardinality(Enabled) \in Nat
           /\ Cardinality(Active') = Cardinality(Active)
                 + (IF r.data = "active" /\ inst[id].data # "active" THEN 1
                    ELSE IF r.data # "active" /\ inst[id].data = "active" THEN -1 ELSE 0)
           /\ Cardinality(Enabled') = Cardinality(Enabled)
                 + (IF r.enabled /\ ~inst[id].enabled THEN 1
                    ELSE IF ~r.enabled /\ inst[id].enabled THEN -1 ELSE 0)
           /\ inst[id].data = "active" => Cardinality(Active) > 0
           /\ inst[id].enabled => Cardinality(Enabled) > 0
  <1>1. /\ IsFiniteSet(Active) /\ Cardinality(Active) \in Nat
        /\ IsFiniteSet(Enabled) /\ Cardinality(Enabled) \in Nat
    <2>1. Active \in SUBSET Id /\ Enabled \in SUBSET Id
      BY DEF Active, Enabled
    <2> QED
      BY <2>1, HandlesFinite
  <1>2. /\ Active' = (IF r.data = "active" THEN Active \union {id} ELSE Active \ {id})
        /\ Enabled' = (IF r.enabled THEN Enabled \union {id} ELSE Enabled \ {id})
        /\ id \in Active <=> inst[id].data = "active"
        /\ id \in Enabled <=> inst[id].enabled
    BY DEF Active, Enabled
  <1>3. /\ Cardinality(Active \union {id}) = IF id \in Active THEN Cardinality(Active)
                                             ELSE Cardinality(Active) + 1
        /\ Cardinality(Active \ {id}) = IF id \in Active THEN Cardinality(Active) - 1
                                        ELSE Cardinality(Active)
        /\ Cardinality(Active \ {id}) \in Nat
    <2>1. Active \ {id} \in SUBSET Id
      BY DEF Active
    <2> QED
      BY <1>1, <2>1, HandlesFinite, FS_AddElement, FS_RemoveElement
  <1>4. /\ Cardinality(Enabled \union {id}) = IF id \in Enabled THEN Cardinality(Enabled)
                                              ELSE Cardinality(Enabled) + 1
        /\ Cardinality(Enabled \ {id}) = IF id \in Enabled THEN Cardinality(Enabled) - 1
                                         ELSE Cardinality(Enabled)
        /\ Cardinality(Enabled \ {id}) \in Nat
    <2>1. Enabled \ {id} \in SUBSET Id
      BY DEF Enabled
    <2> QED
      BY <1>1, <2>1, HandlesFinite, FS_AddElement, FS_RemoveElement
  <1> QED
    BY <1>1, <1>2, <1>3, <1>4

(* A step of an instance that keeps its record sound and its pair keeps     *)
(* the invariant of all instances, if the counters follow.                  *)
LEMMA DmOne ==
    ASSUME BaseInv, NEW id \in Id, NEW r \in Instance, Sound(r),
           inst' = [inst EXCEPT ![id] = r],
           CountInv',
           rate' \in {"unset", "curr", "global"}, numGlobal' \in Nat, failed' \in BOOLEAN,
           r.pair = inst[id].pair, r.live => inst[id].live, r.old <= inst[id].old,
           UNCHANGED <<nextId, phase>>,
           \A k \in Id \ {id} : val'[k] = val[k] /\ parents'[k] = parents[k],
           val'[id] = "undecided" <=> parents'[id] # <<>>,
           ~r.live => val'[id] \in {"none", "success"},
           r.enabled => val'[id] = "success",
           id >= nextId => val'[id] = "none"
    PROVE  DmInv'
  <1>1. /\ inst \in [Id -> Instance] /\ InstanceInv /\ OnePerPair /\ phase \in Nat
        /\ nextId \in Nat
    BY DEF BaseInv, TypeOK
  <1>2. /\ inst' \in [Id -> Instance] /\ inst'[id] = r
        /\ \A k \in Id \ {id} : inst'[k] = inst[k]
    BY <1>1
  <1>3. ASSUME NEW k \in Id
        PROVE  /\ Sound(inst'[k])
               /\ k >= nextId => ~inst'[k].live /\ val'[k] = "none"
               /\ val'[k] = "undecided" <=> parents'[k] # <<>>
               /\ ~inst'[k].live => val'[k] \in {"none", "success"}
               /\ inst'[k].enabled => val'[k] = "success"
               /\ inst'[k].old <= phase
    <2>1. CASE k = id
      <3>1. r.old <= phase
        <4>1. inst[id].old \in Nat /\ r.old \in Nat /\ inst[id].old <= phase
          BY <1>1 DEF Instance, InstanceInv
        <4> QED
          BY <1>1, <4>1
      <3> QED
        BY <1>1, <1>2, <2>1, <3>1 DEF InstanceInv
    <2>2. CASE k # id
      BY <1>1, <1>2, <2>2 DEF InstanceInv
    <2> QED
      BY <2>1, <2>2
  <1>4. InstanceInv'
    BY <1>3 DEF InstanceInv
  <1>5. \A i, j \in Id : inst'[i].live /\ inst'[j].live /\ inst'[i].pair = inst'[j].pair
                         => i = j
    BY <1>1, <1>2 DEF OnePerPair
  <1>6. numCurr' \in 0 .. Cardinality(Pair)
    <2>1. Cardinality({k \in Id : inst'[k].data = "active"}) \in 0 .. Cardinality(Pair)
      BY <1>2, <1>3, <1>5, FewActive
    <2> QED
      BY <2>1 DEF CountInv, Active
  <1> QED
    BY <1>2, <1>4, <1>5, <1>6 DEF DmInv, DmTypes, OnePerPair

(* Disabling keeps the invariant: what is counted is taken away.            *)
LEMMA DmDisabled ==
    ASSUME BaseInv, NEW id \in Id, NEW c, NEW r, Disabled(id, c, r),
           UNCHANGED <<val, parents, nextId, phase>>
    PROVE  DmInv'
  <1>1. /\ inst \in [Id -> Instance] /\ InstanceInv /\ OnePerPair /\ CountInv
        /\ numCurr \in Nat /\ numGlobal \in Nat /\ rate \in {"unset", "curr", "global"}
    BY DEF BaseInv, TypeOK
  <1>2. /\ r \in Instance /\ inst' = [inst EXCEPT ![id] = r] /\ Sound(r)
        /\ r.pair = inst[id].pair /\ (r.live => inst[id].live) /\ r.old <= inst[id].old
        /\ inst[id].live /\ ~r.live => inst[id].enabled
        /\ r.enabled => inst[id].enabled
        /\ r.data = "active" => inst[id].data = "active"
        /\ numCurr' = (IF inst[id].data = "active" /\ r.data # "active"
                       THEN Dec(numCurr) ELSE numCurr)
        /\ numGlobal' = (IF inst[id].enabled /\ ~r.enabled THEN Dec(numGlobal) ELSE numGlobal)
        /\ rate' = RateOnDisable(numCurr, numCurr', numGlobal')
        /\ failed' \in BOOLEAN
        /\ failed' => \/ failed
                      \/ inst[id].data = "active" /\ numCurr = 0
                      \/ inst[id].enabled /\ numGlobal = 0
    BY DEF Disabled
  <1>3. /\ Cardinality(Active) \in Nat /\ Cardinality(Enabled) \in Nat
        /\ Cardinality(Active') = Cardinality(Active)
              + (IF r.data = "active" /\ inst[id].data # "active" THEN 1
                 ELSE IF r.data # "active" /\ inst[id].data = "active" THEN -1 ELSE 0)
        /\ Cardinality(Enabled') = Cardinality(Enabled)
              + (IF r.enabled /\ ~inst[id].enabled THEN 1
                 ELSE IF ~r.enabled /\ inst[id].enabled THEN -1 ELSE 0)
        /\ inst[id].data = "active" => Cardinality(Active) > 0
        /\ inst[id].enabled => Cardinality(Enabled) > 0
    BY <1>1, <1>2, OneChanges
  <1>4. /\ numCurr = Cardinality(Active) /\ numGlobal >= Cardinality(Enabled) /\ ~failed
        /\ numCurr > 0 => rate = "curr"
        /\ numCurr = 0 /\ numGlobal > 0 => rate = "global"
    BY <1>1 DEF CountInv
  <1>5. numCurr' = Cardinality(Active') /\ numGlobal' \in Nat
        /\ numGlobal' >= Cardinality(Enabled') /\ ~failed'
        /\ numGlobal' <= numGlobal /\ numCurr' <= numCurr /\ numCurr' \in Nat
    BY <1>1, <1>2, <1>3, <1>4 DEF Dec
  <1>6. /\ rate' \in {"unset", "curr", "global"}
        /\ numCurr' > 0 => rate' = "curr"
        /\ numCurr' = 0 /\ numGlobal' > 0 => rate' = "global"
    BY <1>1, <1>2, <1>4, <1>5 DEF RateOnDisable
  <1>7. CountInv'
    BY <1>5, <1>6 DEF CountInv
  <1>8. /\ \A k \in Id \ {id} : val'[k] = val[k] /\ parents'[k] = parents[k]
        /\ val'[id] = "undecided" <=> parents'[id] # <<>>
        /\ ~r.live => val'[id] \in {"none", "success"}
        /\ r.enabled => val'[id] = "success"
        /\ id >= nextId => val'[id] = "none"
        /\ UNCHANGED <<nextId, phase>>
    BY <1>1, <1>2 DEF InstanceInv
  <1> QED
    BY <1>2, <1>5, <1>6, <1>7, <1>8, DmOne

(* So does making an instance ready: what is counted is added.              *)
LEMMA DmReadied ==
    ASSUME BaseInv, NEW id \in Id, inst[id].live, NEW who, NEW n \in Nat \ {0},
           NEW r, Readied(id, who, n, r),
           UNCHANGED <<nextId, phase>>, val'[id] = "success", parents'[id] = <<>>,
           \A k \in Id \ {id} : val'[k] = val[k] /\ parents'[k] = parents[k]
    PROVE  DmInv'
  <1>1. /\ inst \in [Id -> Instance] /\ InstanceInv /\ OnePerPair /\ CountInv
        /\ numCurr \in Nat /\ numGlobal \in Nat /\ rate \in {"unset", "curr", "global"}
        /\ failed \in BOOLEAN
    BY DEF BaseInv, TypeOK
  <1>2. /\ r \in Instance /\ inst' = [inst EXCEPT ![id] = r] /\ Sound(r)
        /\ r.pair = inst[id].pair /\ r.live /\ r.old = inst[id].old /\ r.enabled
        /\ inst[id].data = "active" => r.data = "active"
        /\ numCurr' = (IF inst[id].data # "active" /\ r.data = "active" THEN numCurr + 1
                       ELSE numCurr)
        /\ numGlobal' = numGlobal + n
        /\ rate' = (IF numCurr > 0 THEN rate
                    ELSE IF numCurr' > 0 THEN "curr"
                    ELSE IF numGlobal = 0 THEN "global" ELSE rate)
        /\ failed' = failed
    BY DEF Readied
  <1>3. /\ Cardinality(Active) \in Nat /\ Cardinality(Enabled) \in Nat
        /\ Cardinality(Active') = Cardinality(Active)
              + (IF r.data = "active" /\ inst[id].data # "active" THEN 1
                 ELSE IF r.data # "active" /\ inst[id].data = "active" THEN -1 ELSE 0)
        /\ Cardinality(Enabled') = Cardinality(Enabled)
              + (IF r.enabled /\ ~inst[id].enabled THEN 1
                 ELSE IF ~r.enabled /\ inst[id].enabled THEN -1 ELSE 0)
    BY <1>1, <1>2, OneChanges
  <1>4. /\ numCurr = Cardinality(Active) /\ numGlobal >= Cardinality(Enabled) /\ ~failed
        /\ numCurr > 0 => rate = "curr"
        /\ numCurr = 0 /\ numGlobal > 0 => rate = "global"
    BY <1>1 DEF CountInv
  <1>5. numCurr' = Cardinality(Active') /\ numGlobal' \in Nat
        /\ numGlobal' >= Cardinality(Enabled')
    BY <1>1, <1>2, <1>3, <1>4
  <1>6. /\ rate' \in {"unset", "curr", "global"}
        /\ numCurr' > 0 => rate' = "curr"
        /\ numCurr' = 0 /\ numGlobal' > 0 => rate' = "global"
    BY <1>1, <1>2, <1>4
  <1>7. CountInv'
    BY <1>2, <1>4, <1>5, <1>6 DEF CountInv
  <1>8. ~(id >= nextId) /\ inst[id].old \in Nat
    BY <1>1 DEF InstanceInv, Instance
  <1>9. /\ r.old <= inst[id].old /\ (r.live => inst[id].live)
        /\ failed' \in BOOLEAN
        /\ val'[id] = "undecided" <=> parents'[id] # <<>>
        /\ ~r.live => val'[id] \in {"none", "success"}
        /\ r.enabled => val'[id] = "success"
        /\ id >= nextId => val'[id] = "none"
    BY <1>1, <1>2, <1>8
  <1> QED
    BY <1>2, <1>5, <1>6, <1>7, <1>9, DmOne

RequestOf(c) == [client |-> c, phase |-> IF c \in Curr THEN cphase[c] ELSE NoPhase]
Stale(c) == c \in Curr /\ cphase[c] # phase

\* the outcomes of a request of c for p: it is for a phase that is over, or
\* the value of id is undecided, a success or a failure
TooLate(c, p) ==
    /\ Stale(c)
    /\ IF c \in Visi THEN Send(c, Reply(0, p, FALSE, RequestOf(c).phase))
                     ELSE UNCHANGED inbox
    /\ UNCHANGED <<dm, nextId, val, parents>>
Asked(c, p, id) ==
    /\ ~Stale(c)
    /\ \/ inst[id].live /\ inst[id].pair = p /\ nextId' = nextId
       \/ id = nextId /\ Find(p) = {} /\ nextId' = nextId + 1
    /\ val[id] \in {"none", "undecided"}
    /\ val' = [val EXCEPT ![id] = "undecided"]
    /\ parents' = [parents EXCEPT ![id] = Append(@, RequestOf(c))]
    /\ inst' = [inst EXCEPT ![id].live = TRUE, ![id].pair = p]
    /\ UNCHANGED <<numCurr, numGlobal, rate, failed, inbox>>
Granted(c, p, id) ==
    /\ ~Stale(c) /\ inst[id].live /\ inst[id].pair = p /\ val[id] = "success"
    /\ Ready(id, <<RequestOf(c)>>)
    /\ Send(c, Reply(id, p, TRUE, RequestOf(c).phase))
    /\ UNCHANGED <<nextId, val, parents>>
Refused(c, p, id) ==
    /\ ~Stale(c) /\ inst[id].live /\ inst[id].pair = p /\ val[id] = "failure"
    /\ Send(c, Reply(id, p, FALSE, RequestOf(c).phase))
    /\ UNCHANGED <<dm, nextId, val, parents>>

(* A request has one of four outcomes.                                      *)
LEMMA RequestDoes ==
    ASSUME BaseInv, NEW c \in Client, NEW p \in Pair, Request(c, p)
    PROVE  /\ nreq' = nreq + 1 /\ pend' = [pend EXCEPT ![c] = @ \union {p}]
           /\ \/ TooLate(c, p)
              \/ \E id \in Id : Asked(c, p, id) \/ Granted(c, p, id) \/ Refused(c, p, id)
  <1> DEFINE id == IF Find(p) = {} THEN nextId ELSE CHOOSE i \in Find(p) : TRUE
             new == Find(p) = {}
  <1>1. /\ nreq' = nreq + 1 /\ pend' = [pend EXCEPT ![c] = @ \union {p}]
        /\ \/ TooLate(c, p)
           \/ /\ ~Stale(c) /\ id \in Id
              /\ nextId' = IF new THEN nextId + 1 ELSE nextId
              /\ \/ /\ val[id] \in {"none", "undecided"}
                    /\ val' = [val EXCEPT ![id] = "undecided"]
                    /\ parents' = [parents EXCEPT ![id] = Append(@, RequestOf(c))]
                    /\ inst' = [inst EXCEPT ![id].live = TRUE, ![id].pair = p]
                    /\ UNCHANGED <<numCurr, numGlobal, rate, failed, inbox>>
                 \/ /\ val[id] = "success"
                    /\ Ready(id, <<RequestOf(c)>>)
                    /\ Send(c, Reply(id, p, TRUE, RequestOf(c).phase))
                    /\ UNCHANGED <<val, parents>>
                 \/ /\ val[id] = "failure"
                    /\ Send(c, Reply(id, p, FALSE, RequestOf(c).phase))
                    /\ UNCHANGED <<dm, val, parents>>
    BY DEF Request, TooLate, Stale, RequestOf
  <1>2. CASE TooLate(c, p)
    BY <1>1, <1>2
  <1>3. CASE ~TooLate(c, p)
    <2>1. ~new => id \in Find(p)
      OBVIOUS
    <2>2. ~new => inst[id].live /\ inst[id].pair = p /\ nextId' = nextId
      BY <1>1, <1>3, <2>1 DEF Find
    <2>3. new => id = nextId /\ nextId' = nextId + 1
      BY <1>1, <1>3
    <2> HIDE DEF id
    <2>4. new => val[id] = "none"
      <3>1. new => id >= nextId
        BY <2>3 DEF BaseInv, TypeOK
      <3> QED
        BY <1>1, <1>3, <3>1 DEF BaseInv, InstanceInv
    <2>5. Asked(c, p, id) \/ Granted(c, p, id) \/ Refused(c, p, id)
      BY <1>1, <1>3, <2>2, <2>3, <2>4 DEF Asked, Granted, Refused
    <2> QED
      BY <1>1, <1>3, <2>5
  <1> QED
    BY <1>2, <1>3

(* A request that has to wait makes the instance live, for one pair only.   *)
LEMMA DmAsked ==
    ASSUME BaseInv, NEW c \in Client, NEW p \in Pair, NEW id \in Id,
           Asked(c, p, id), UNCHANGED phase
    PROVE  DmInv'
  <1>1. /\ inst \in [Id -> Instance] /\ InstanceInv /\ OnePerPair /\ phase \in Nat
        /\ nextId \in Nat /\ CountInv /\ inst[id] \in Instance /\ DmTypes
        /\ val \in [Id -> {"none", "undecided", "success", "failure"}]
        /\ parents \in [Id -> Seq(Requests)]
    <2>1. TypeOK /\ InstanceInv /\ OnePerPair /\ CountInv
      BY DEF BaseInv
    <2>2. parents \in [Id -> Seq(Requests)]
      BY <2>1 DEF TypeOK, Requests
    <2>3. DmTypes /\ inst[id] \in Instance
      BY <2>1 DEF TypeOK, DmTypes
    <2> QED
      BY <2>1, <2>2, <2>3 DEF TypeOK
  <1>2. /\ inst' \in [Id -> Instance] /\ inst'[id].live /\ inst'[id].pair = p
        /\ inst'[id].enabled = inst[id].enabled /\ inst'[id].users = inst[id].users
        /\ inst'[id].gusers = inst[id].gusers /\ inst'[id].data = inst[id].data
        /\ inst'[id].gdata = inst[id].gdata /\ inst'[id].old = inst[id].old
        /\ inst'[id].pdata = inst[id].pdata /\ inst'[id].phasepd = inst[id].phasepd
        /\ \A k \in Id \ {id} : inst'[k] = inst[k]
    BY <1>1 DEF Asked, Instance
  <1>3. /\ val'[id] = "undecided" /\ parents'[id] # <<>>
        /\ \A k \in Id \ {id} : val'[k] = val[k] /\ parents'[k] = parents[k]
    <2>1. RequestOf(c) \in Requests
      BY InstancesAssumption DEF RequestOf, Requests, BaseInv, TypeOK, NoPhase
    <2>2. Append(parents[id], RequestOf(c)) # <<>>
      BY <1>1, <2>1, AppendProperties
    <2> QED
      BY <1>1, <2>2 DEF Asked
  <1>4. ~inst[id].enabled
    BY <1>1 DEF Asked, InstanceInv
  <1>5. Sound(inst'[id])
    BY <1>1, <1>2 DEF InstanceInv, Sound, Idle
  <1>6. ASSUME NEW k \in Id
        PROVE  /\ Sound(inst'[k])
               /\ k >= nextId' => ~inst'[k].live /\ val'[k] = "none"
               /\ val'[k] = "undecided" <=> parents'[k] # <<>>
               /\ ~inst'[k].live => val'[k] \in {"none", "success"}
               /\ inst'[k].enabled => val'[k] = "success"
               /\ inst'[k].old <= phase'
    <2>1. CASE k = id
      <3>1. ~(id >= nextId')
        BY <1>1, InstancesAssumption DEF Asked, InstanceInv, Id
      <3> QED
        BY <1>1, <1>2, <1>3, <1>4, <1>5, <2>1, <3>1 DEF InstanceInv
    <2>2. CASE k # id
      <3>1. k >= nextId' => k >= nextId
        BY <1>1, InstancesAssumption DEF Asked, Id
      <3> QED
        BY <1>1, <1>2, <1>3, <2>2, <3>1 DEF InstanceInv
    <2> QED
      BY <2>1, <2>2
  <1>7. InstanceInv'
    BY <1>6 DEF InstanceInv
  <1>8. OnePerPair'
    <2>1. \A k \in Id \ {id} : inst[k].live => inst[k].pair # p
      BY <1>1 DEF Asked, OnePerPair, Find
    <2>2. \A i, j \in Id : inst'[i].live /\ inst'[j].live /\ inst'[i].pair = inst'[j].pair
                           => i = j
      <3> TAKE i, j \in Id
      <3>1. CASE i = id \/ j = id
        BY <1>2, <2>1, <3>1
      <3>2. CASE i # id /\ j # id
        BY <1>1, <1>2, <3>2 DEF OnePerPair
      <3> QED
        BY <3>1, <3>2
    <2> QED
      BY <2>2 DEF OnePerPair
  <1>9. Active' = Active /\ Enabled' = Enabled
    BY <1>2 DEF Active, Enabled
  <1>10. CountInv' /\ DmTypes'
    BY <1>1, <1>2, <1>9 DEF Asked, CountInv, DmTypes
  <1> QED
    BY <1>7, <1>8, <1>10 DEF DmInv

(* A step that leaves the instances and their values alone.                 *)
LEMMA DmSame ==
    ASSUME BaseInv, UNCHANGED <<dm, nextId, val, parents, phase>>
    PROVE  DmInv'
BY DEF BaseInv, TypeOK, DmInv, DmTypes, InstanceInv, OnePerPair, CountInv, Active, Enabled, dm,
       Find, Sound

(* A value that fails changes no instance.                                  *)
LEMMA DmFailed ==
    ASSUME BaseInv, NEW id \in Id, val[id] = "undecided", UNCHANGED <<dm, nextId, phase>>,
           val' = [val EXCEPT ![id] = "failure"], parents' = [parents EXCEPT ![id] = <<>>]
    PROVE  DmInv'
  <1>1. /\ InstanceInv /\ OnePerPair /\ CountInv /\ DmTypes
        /\ val \in [Id -> {"none", "undecided", "success", "failure"}]
        /\ parents \in [Id -> Seq(Requests)]
    BY DEF BaseInv, TypeOK, DmTypes, Requests
  <1>2. /\ val'[id] = "failure" /\ parents'[id] = <<>>
        /\ \A k \in Id \ {id} : val'[k] = val[k] /\ parents'[k] = parents[k]
    BY <1>1
  <1>3. inst' = inst /\ UNCHANGED <<numCurr, numGlobal, rate, failed>>
    BY DEF dm
  <1>4. DmTypes' /\ OnePerPair' /\ CountInv'
    BY <1>1, <1>3 DEF DmTypes, OnePerPair, CountInv, Active, Enabled
  <1>5. ASSUME NEW k \in Id
        PROVE  /\ Sound(inst'[k])
               /\ k >= nextId' => ~inst'[k].live /\ val'[k] = "none"
               /\ val'[k] = "undecided" <=> parents'[k] # <<>>
               /\ ~inst'[k].live => val'[k] \in {"none", "success"}
               /\ inst'[k].enabled => val'[k] = "success"
               /\ inst'[k].old <= phase'
    <2>1. CASE k = id
      BY <1>1, <1>2, <1>3, <2>1 DEF InstanceInv
    <2>2. CASE k # id
      BY <1>1, <1>2, <1>3, <2>2 DEF InstanceInv
    <2> QED
      BY <2>1, <2>2
  <1>6. InstanceInv'
    BY <1>5 DEF InstanceInv
  <1> QED
    BY <1>4, <1>6 DEF DmInv

(* At a phase start an instance loses the users of the current phase; it is *)
(* deleted if it has no others and its data is not kept.                    *)
LEMMA StoppedDoes ==
    ASSUME NEW i \in Instance, Sound(i), NEW ph \in Nat, ph < MaxPhase, i.old <= ph
    PROVE  LET r == Stopped(i) IN
           /\ r \in Instance /\ Sound(r) /\ r.pair = i.pair
           /\ (r.live => i.live) /\ (i.live /\ ~r.live => i.enabled)
           /\ r.users = {} /\ r.gusers = i.gusers /\ r.data = "none"
           /\ r.enabled <=> i.enabled /\ i.gusers # {}
           /\ r.old <= ph + 1 /\ Kept(i, r)
           /\ Ended(i) <=> i.data = "active"
  <1> DEFINE r == Stopped(i)
             disabled == i.enabled /\ i.gusers = {}
  <1>0. /\ i.old \in Nat /\ MaxPhase \in Nat
        /\ i.data \in {"none", "active", "inactive"}
    BY InstancesAssumption DEF Instance, Histogram
  <1>1. Ended(i) <=> i.data = "active"
    BY <1>0 DEF Ended, Sound
  <1>2. CASE disabled /\ ~i.pdata
    <2>1. r = Deleted(i) /\ i.pair \in Pair
      BY <1>2 DEF Stopped, Instance
    <2>2. /\ r \in Instance /\ ~r.live /\ r.pair = i.pair /\ ~r.enabled /\ r.users = {}
          /\ r.gusers = {} /\ r.data = "none" /\ ~r.pdata /\ ~r.phasepd /\ r.old = 0
      BY <2>1, DeletedIsEmpty
    <2> HIDE DEF r
    <2>3. Sound(r)
      BY <2>2 DEF Sound, Idle
    <2>4. Kept(i, r)
      BY <2>2 DEF Kept
    <2> QED
      BY <1>0, <1>1, <1>2, <2>2, <2>3, <2>4 DEF r
  <1>3. CASE ~(disabled /\ ~i.pdata)
    <2>1. Archived(i) \in 0 .. MaxPhase /\ Archived(i) <= ph + 1 /\ Archived(i) >= i.old
          /\ (i.pdata /\ i.data # "none" => Archived(i) > i.old)
      BY <1>0 DEF Archived
    <2>2. r = [i EXCEPT !.users = {}, !.phasepd = FALSE, !.data = "none",
                        !.old = Archived(i), !.enabled = @ /\ i.gusers # {}]
      BY <1>3 DEF Stopped
    <2> HIDE DEF r
    <2>3. /\ r \in Instance /\ r.pair = i.pair /\ r.live = i.live /\ r.users = {}
          /\ r.gusers = i.gusers /\ r.data = "none" /\ (r.enabled <=> i.enabled /\ i.gusers # {})
          /\ r.old = Archived(i) /\ ~r.phasepd /\ r.pdata = i.pdata /\ r.gdata = i.gdata
      BY <2>1, <2>2 DEF Instance, Histogram
    <2>4. Sound(r)
      BY <2>3 DEF Sound, Idle
    <2>5. Kept(i, r)
      BY <2>1, <2>3 DEF Kept
    <2> QED
      BY <1>1, <2>1, <2>3, <2>4, <2>5 DEF r
  <1> QED
    BY <1>2, <1>3

(* A phase start keeps the invariant: what is stopped is not counted.       *)
LEMMA DmStart ==
    ASSUME BaseInv, StartPhase
    PROVE  DmInv' /\ phase' \in 0 .. MaxPhase
  <1> DEFINE stopped == {id \in Id : inst[id].enabled /\ inst[id].gusers = {}}
             dropped == {id \in Id : Ended(inst[id])}
             Less(n, S) == IF n > Cardinality(S) THEN n - Cardinality(S) ELSE 0
             undecided == {id \in Id : val[id] = "undecided"}
             globally == {id \in undecided : \E r \in ToSet(parents[id]) : r.client \notin Curr}
  <1>1. /\ inst \in [Id -> Instance] /\ InstanceInv /\ OnePerPair /\ CountInv
        /\ phase \in Nat /\ numCurr \in Nat /\ numGlobal \in Nat /\ failed \in BOOLEAN
        /\ val \in [Id -> {"none", "undecided", "success", "failure"}]
    BY DEF BaseInv, TypeOK
  <1>2. /\ phase < MaxPhase /\ phase' = phase + 1
        /\ inst' = [id \in Id |-> Stopped(inst[id])]
        /\ numCurr' = Less(numCurr, dropped)
        /\ numGlobal' = Less(numGlobal, stopped)
        /\ rate' = (IF numCurr' > 0 THEN "curr" ELSE "global")
        /\ val' = [id \in Id |-> IF id \in undecided \ globally THEN "none" ELSE val[id]]
        /\ parents' = [id \in Id |-> IF id \in undecided \ globally THEN <<>> ELSE parents[id]]
        /\ UNCHANGED <<failed, nextId>>
    BY DEF StartPhase
  <1> HIDE DEF globally
  <1>3. ASSUME NEW id \in Id
        PROVE  /\ inst'[id] \in Instance /\ Sound(inst'[id]) /\ inst'[id].pair = inst[id].pair
               /\ inst'[id].live => inst[id].live
               /\ inst[id].live /\ ~inst'[id].live => inst[id].enabled
               /\ inst'[id].data = "none"
               /\ inst'[id].enabled <=> inst[id].enabled /\ inst[id].gusers # {}
               /\ inst'[id].old <= phase'
               /\ Ended(inst[id]) <=> inst[id].data = "active"
    <2>1. /\ inst[id] \in Instance /\ Sound(inst[id]) /\ inst[id].old <= phase
      BY <1>1 DEF InstanceInv
    <2>2. inst'[id] = Stopped(inst[id])
      BY <1>2
    <2> QED
      BY <1>1, <1>2, <2>1, <2>2, StoppedDoes
  <1>4. /\ Active = dropped /\ Active' = {} /\ Enabled' = Enabled \ stopped
        /\ stopped \subseteq Enabled
    BY <1>3 DEF Active, Enabled
  <1>5. /\ numCurr = Cardinality(Active) /\ numGlobal >= Cardinality(Enabled) /\ ~failed
    BY <1>1 DEF CountInv
  <1>6. numCurr' = 0
    BY <1>1, <1>2, <1>4, <1>5
  <1>7. numGlobal' \in Nat /\ numGlobal' >= Cardinality(Enabled')
    <2>1. /\ IsFiniteSet(Enabled) /\ Cardinality(Enabled) \in Nat
          /\ Cardinality(stopped) \in Nat /\ Cardinality(Enabled \ stopped) \in Nat
      <3>1. Enabled \in SUBSET Id /\ stopped \in SUBSET Id /\ Enabled \ stopped \in SUBSET Id
        BY DEF Enabled
      <3> HIDE DEF stopped
      <3> QED
        BY <3>1, HandlesFinite
    <2>2. Enabled \intersect stopped = stopped
      BY <1>4
    <2>3. Cardinality(Enabled \ stopped) = Cardinality(Enabled) - Cardinality(stopped)
      <3> HIDE DEF stopped
      <3> QED
        BY <2>1, <2>2, FS_Difference
    <2> HIDE DEF stopped
    <2> QED
      BY <1>1, <1>2, <1>4, <1>5, <2>1, <2>3
  <1>8. CountInv'
    <2>1. Cardinality(Active') = 0
      BY <1>4, FS_EmptySet
    <2> QED
      BY <1>2, <1>5, <1>6, <1>7, <2>1 DEF CountInv
  <1>9. DmTypes'
    <2>1. inst' \in [Id -> Instance]
      BY <1>2, <1>3
    <2>2. Cardinality(Pair) \in Nat
      BY InstancesAssumption, FS_CardinalityType
    <2> QED
      BY <1>1, <1>2, <1>6, <1>7, <2>1, <2>2 DEF DmTypes
  <1>10. OnePerPair'
    BY <1>1, <1>3 DEF OnePerPair
  <1>11. ASSUME NEW id \in Id
         PROVE  /\ id >= nextId => ~inst'[id].live /\ val'[id] = "none"
                /\ val'[id] = "undecided" <=> parents'[id] # <<>>
                /\ ~inst'[id].live => val'[id] \in {"none", "success"}
                /\ inst'[id].enabled => val'[id] = "success"
    <2>1. /\ val'[id] = (IF id \in undecided \ globally THEN "none" ELSE val[id])
          /\ parents'[id] = (IF id \in undecided \ globally THEN <<>> ELSE parents[id])
      BY <1>2
    <2>2. /\ id >= nextId => ~inst[id].live /\ val[id] = "none"
          /\ val[id] = "undecided" <=> parents[id] # <<>>
          /\ ~inst[id].live => val[id] \in {"none", "success"}
          /\ inst[id].enabled => val[id] = "success"
      BY <1>1 DEF InstanceInv
    <2> QED
      BY <1>3, <2>1, <2>2
  <1>12. InstanceInv'
    BY <1>2, <1>3, <1>11 DEF InstanceInv
  <1>13. phase' \in 0 .. MaxPhase
    BY <1>1, <1>2, InstancesAssumption
  <1> QED
    BY <1>8, <1>9, <1>10, <1>12, <1>13 DEF DmInv

-----------------------------------------------------------------------------
(* What the data manager sends                                              *)

\* q has one reply to each request of c for the value of id
ToRequests(q, c, id, ok) ==
    \E at \in [1 .. Len(q) -> 1 .. Len(parents[id])] :
        /\ \A j \in 1 .. Len(q) :
              /\ parents[id][at[j]].client = c
              /\ q[j] = Reply(id, inst[id].pair, ok, parents[id][at[j]].phase)
        /\ \A n \in 1 .. Len(parents[id]) :
              parents[id][n].client = c => \E j \in 1 .. Len(q) : at[j] = n
        /\ \A j, l \in 1 .. Len(q) : at[j] = at[l] => j = l

(* Each request of c for the value of id gets one reply.                    *)
LEMMA RepliesFacts ==
    ASSUME TypeOK, NEW c \in Client, NEW id \in Id, NEW ok \in BOOLEAN
    PROVE  /\ Replies(c, id, ok) \in Seq(Answers)
           /\ ToRequests(Replies(c, id, ok), c, id, ok)
  <1> DEFINE reqs == parents[id]
             Msg(n) == Reply(id, inst[id].pair, ok, reqs[n].phase)
             ss == [n \in DOMAIN reqs |-> IF reqs[n].client # c THEN <<>> ELSE <<Msg(n)>>]
             q == FlattenSeq(ss)
  <1>1. /\ Len(reqs) \in Nat /\ DOMAIN reqs = 1 .. Len(reqs)
        /\ \A n \in 1 .. Len(reqs) : reqs[n] \in Requests
    <2>1. reqs \in Seq(Requests)
      BY DEF TypeOK, Requests
    <2> QED
      BY <2>1, LenProperties, ElementOfSeq
  <1>2. \A n \in 1 .. Len(reqs) : Msg(n) \in Answers
    <2>1. inst[id].pair \in Pair /\ id \in 0 .. MaxId
      BY InstancesAssumption DEF TypeOK, Instance, Id
    <2> QED
      BY <1>1, <2>1 DEF Requests, Answers, Reply
  <1> HIDE DEF Msg, reqs
  <1>3. ss \in Seq(Seq(Answers)) /\ Len(ss) = Len(reqs)
        /\ \A n \in 1 .. Len(reqs) : ss[n] = IF reqs[n].client # c THEN <<>> ELSE <<Msg(n)>>
    <2>1. \A n \in 1 .. Len(reqs) : ss[n] \in Seq(Answers)
      BY <1>1, <1>2
    <2>2. ss \in [1 .. Len(reqs) -> Seq(Answers)]
      BY <1>1, <2>1
    <2> QED
      BY <1>1, <2>2
  <1>4. q = Replies(c, id, ok)
    BY DEF Replies, Msg, reqs
  <1> HIDE DEF ss
  <1>5. q \in Seq(Answers) /\ Gathers(q, ss, Len(ss))
    BY <1>3, FlattenSeqGathers
  <1> HIDE DEF q
  <1>6. PICK part, at \in [1 .. Len(q) -> Nat] :
           /\ \A j \in 1 .. Len(q) :
                 /\ part[j] \in 1 .. Len(ss) /\ at[j] \in 1 .. Len(ss[part[j]])
                 /\ q[j] = ss[part[j]][at[j]]
           /\ \A i \in 1 .. Len(ss) : \A k \in 1 .. Len(ss[i]) :
                 \E j \in 1 .. Len(q) : part[j] = i /\ at[j] = k
           /\ \A j, l \in 1 .. Len(q) : part[j] = part[l] /\ at[j] = at[l] => j = l
    BY <1>5 DEF Gathers
  <1>7. \A n \in 1 .. Len(reqs) :
           /\ reqs[n].client # c => Len(ss[n]) = 0
           /\ reqs[n].client = c => Len(ss[n]) = 1 /\ ss[n][1] = Msg(n)
    <2> TAKE n \in 1 .. Len(reqs)
    <2>1. CASE reqs[n].client # c
      <3>1. ss[n] = <<>>
        BY <1>3, <2>1
      <3> QED
        BY <2>1, <3>1
    <2>2. CASE reqs[n].client = c
      <3>1. ss[n] = <<Msg(n)>>
        BY <1>3, <2>2
      <3> QED
        BY <2>2, <3>1
    <2> QED
      BY <2>1, <2>2
  <1>8. \A j \in 1 .. Len(q) : /\ part[j] \in 1 .. Len(reqs) /\ at[j] = 1
                               /\ reqs[part[j]].client = c /\ q[j] = Msg(part[j])
    <2> TAKE j \in 1 .. Len(q)
    <2>1. /\ part[j] \in 1 .. Len(reqs) /\ at[j] \in 1 .. Len(ss[part[j]])
          /\ q[j] = ss[part[j]][at[j]]
      BY <1>3, <1>6
    <2>2. reqs[part[j]].client = c
      BY <1>7, <2>1
    <2>3. Len(ss[part[j]]) = 1 /\ ss[part[j]][1] = Msg(part[j])
      BY <1>7, <2>1, <2>2
    <2>4. at[j] = 1
      BY <2>1, <2>3
    <2> QED
      BY <2>1, <2>2, <2>3, <2>4
  <1>9. part \in [1 .. Len(q) -> 1 .. Len(reqs)]
    BY <1>8
  <1>10. \A n \in 1 .. Len(reqs) : reqs[n].client = c => \E j \in 1 .. Len(q) : part[j] = n
    <2> SUFFICES ASSUME NEW n \in 1 .. Len(reqs), reqs[n].client = c
                 PROVE  \E j \in 1 .. Len(q) : part[j] = n
      OBVIOUS
    <2>1. n \in 1 .. Len(ss) /\ 1 \in 1 .. Len(ss[n])
      BY <1>3, <1>7
    <2> QED
      BY <1>6, <2>1
  <1>11. \A j, l \in 1 .. Len(q) : part[j] = part[l] => j = l
    BY <1>6, <1>8
  <1>12. /\ q \in Seq(Answers)
         /\ \E f \in [1 .. Len(q) -> 1 .. Len(reqs)] :
               /\ \A j \in 1 .. Len(q) : reqs[f[j]].client = c /\ q[j] = Msg(f[j])
               /\ \A n \in 1 .. Len(reqs) :
                     reqs[n].client = c => \E j \in 1 .. Len(q) : f[j] = n
               /\ \A j, l \in 1 .. Len(q) : f[j] = f[l] => j = l
    BY <1>5, <1>8, <1>9, <1>10, <1>11
  <1>13. \A f \in [1 .. Len(q) -> 1 .. Len(reqs)] : \A j \in 1 .. Len(q) :
            Msg(f[j]) = Reply(id, inst[id].pair, ok, reqs[f[j]].phase)
    BY DEF Msg
  <1>14. /\ q \in Seq(Answers)
         /\ \E f \in [1 .. Len(q) -> 1 .. Len(reqs)] :
               /\ \A j \in 1 .. Len(q) :
                     /\ reqs[f[j]].client = c
                     /\ q[j] = Reply(id, inst[id].pair, ok, reqs[f[j]].phase)
               /\ \A n \in 1 .. Len(reqs) :
                     reqs[n].client = c => \E j \in 1 .. Len(q) : f[j] = n
               /\ \A j, l \in 1 .. Len(q) : f[j] = f[l] => j = l
    BY <1>12, <1>13
  <1> HIDE DEF Msg
  <1> QED
    <2>1. ToRequests(q, c, id, ok)
      BY <1>14 DEF ToRequests, reqs
    <2> QED
      BY <1>4, <1>14, <2>1

(* What a phase start sends to c of the current phase: failures of requests *)
(* of c for values that were undecided.                                     *)
Failures(c) == FlattenSeq([id \in Id |-> IF val[id] = "undecided" THEN Replies(c, id, FALSE)
                                        ELSE <<>>])

(* A phase start fails each request whose value is undecided.               *)
LEMMA FailuresFacts ==
    ASSUME TypeOK, NEW c \in Client
    PROVE  /\ Failures(c) \in Seq(Answers)
           /\ \A j \in 1 .. Len(Failures(c)) :
                 \E id \in Id : \E n \in 1 .. Len(parents[id]) :
                    /\ val[id] = "undecided" /\ parents[id][n].client = c
                    /\ Failures(c)[j] = Reply(id, inst[id].pair, FALSE, parents[id][n].phase)
  <1> DEFINE ss == [id \in Id |-> IF val[id] = "undecided" THEN Replies(c, id, FALSE)
                                  ELSE <<>>]
             q == Failures(c)
  <1>1. \A id \in Id : /\ Replies(c, id, FALSE) \in Seq(Answers)
                       /\ ToRequests(Replies(c, id, FALSE), c, id, FALSE)
    BY RepliesFacts
  <1>2. /\ ss \in Seq(Seq(Answers)) /\ Len(ss) = MaxId
        /\ \A id \in Id : ss[id] = IF val[id] = "undecided" THEN Replies(c, id, FALSE)
                                   ELSE <<>>
    <2>1. \A id \in Id : ss[id] = IF val[id] = "undecided" THEN Replies(c, id, FALSE)
                                 ELSE <<>>
      OBVIOUS
    <2>2. DOMAIN ss = 1 .. MaxId /\ ss = [n \in 1 .. MaxId |-> ss[n]] /\ MaxId \in Nat
      BY InstancesAssumption DEF Id
    <2> HIDE DEF ss
    <2>3. ASSUME NEW id \in Id PROVE ss[id] \in Seq(Answers)
      <3>1. Replies(c, id, FALSE) \in Seq(Answers)
        BY <1>1
      <3>2. <<>> \in Seq(Answers)
        OBVIOUS
      <3> QED
        BY <2>1, <3>1, <3>2
    <2>4. ss \in [1 .. MaxId -> Seq(Answers)]
      BY <2>2, <2>3 DEF Id
    <2>5. ss \in Seq(Seq(Answers)) /\ Len(ss) = MaxId
      BY <2>2, <2>4
    <2> QED
      BY <2>1, <2>5
  <1>3. q = FlattenSeq(ss)
    BY DEF Failures
  <1> HIDE DEF ss, q
  <1>4. q \in Seq(Answers) /\ Gathers(q, ss, Len(ss))
    BY <1>2, <1>3, FlattenSeqGathers
  <1>5. ASSUME NEW j \in 1 .. Len(q)
        PROVE  \E id \in Id : \E n \in 1 .. Len(parents[id]) :
                  /\ val[id] = "undecided" /\ parents[id][n].client = c
                  /\ q[j] = Reply(id, inst[id].pair, FALSE, parents[id][n].phase)
    <2>1. PICK id \in Id : \E k \in 1 .. Len(ss[id]) : q[j] = ss[id][k]
      <3>1. PICK part, at \in [1 .. Len(q) -> Nat] :
               /\ \A l \in 1 .. Len(q) :
                     /\ part[l] \in 1 .. Len(ss) /\ at[l] \in 1 .. Len(ss[part[l]])
                     /\ q[l] = ss[part[l]][at[l]]
               /\ \A i \in 1 .. Len(ss) : \A k \in 1 .. Len(ss[i]) :
                     \E l \in 1 .. Len(q) : part[l] = i /\ at[l] = k
               /\ \A l, m \in 1 .. Len(q) : part[l] = part[m] /\ at[l] = at[m] => l = m
        BY <1>4 DEF Gathers
      <3>2. part[j] \in Id /\ at[j] \in 1 .. Len(ss[part[j]]) /\ q[j] = ss[part[j]][at[j]]
        BY <1>2, <3>1 DEF Id
      <3> QED
        BY <3>2
    <2>2. PICK k \in 1 .. Len(ss[id]) : q[j] = ss[id][k]
      BY <2>1
    <2>3. val[id] = "undecided" /\ ss[id] = Replies(c, id, FALSE)
      <3>1. CASE val[id] # "undecided"
        <4>1. ss[id] = <<>>
          BY <1>2, <3>1
        <4> QED
          BY <2>2, <4>1
      <3> QED
        BY <1>2, <3>1
    <2>4. k \in 1 .. Len(Replies(c, id, FALSE)) /\ q[j] = Replies(c, id, FALSE)[k]
      BY <2>2, <2>3
    <2>5. \E n \in 1 .. Len(parents[id]) :
             /\ parents[id][n].client = c
             /\ q[j] = Reply(id, inst[id].pair, FALSE, parents[id][n].phase)
      <3>1. ToRequests(Replies(c, id, FALSE), c, id, FALSE)
        BY <1>1
      <3>2. PICK at \in [1 .. Len(Replies(c, id, FALSE)) -> 1 .. Len(parents[id])] :
               \A l \in 1 .. Len(Replies(c, id, FALSE)) :
                  /\ parents[id][at[l]].client = c
                  /\ Replies(c, id, FALSE)[l]
                       = Reply(id, inst[id].pair, FALSE, parents[id][at[l]].phase)
        BY <3>1 DEF ToRequests
      <3>3. at[k] \in 1 .. Len(parents[id])
        BY <2>4
      <3> QED
        BY <2>4, <3>2, <3>3
    <2> QED
      BY <2>3, <2>5
  <1> QED
    BY <1>4, <1>5 DEF q

-----------------------------------------------------------------------------
(* The invariant, in the parts that an action can disturb                   *)

RequestTypes ==
    /\ persistentData \in BOOLEAN
    /\ nextId \in 1 .. MaxId + 1 /\ nreq \in 0 .. MaxReq
    /\ val \in [Id -> {"none", "undecided", "success", "failure"}]
    /\ parents \in [Id -> Seq([client : Client, phase : 0 .. NoPhase])]
    /\ phase \in 0 .. MaxPhase

ClientTypes ==
    /\ cphase \in [Client -> 0 .. NoPhase] /\ ended \subseteq PC \intersect Curr
    /\ pend \in [Client -> SUBSET Pair]
    /\ hold \in [Client -> SUBSET Id] /\ again \in [Client -> SUBSET Id]
    /\ life \in [Client -> {"open", "closing", "gone"}] /\ OnlyVisisExit
    /\ crossed \subseteq Client \X Pair

\* what the data manager may send to c
Mail(c) == {m \in Answers \union Notices :
               /\ m.kind = "phase" => c \in PC \intersect Curr
               /\ m.kind = "reply" /\ (c \in PC \/ m.ok) => m.id \in Id}
MailInv == /\ inbox \in [Client -> Seq(Answers \union Notices)]
           /\ \A c \in Client : inbox[c] \in Seq(Mail(c))

(* The invariant is the conjunction of its parts.                           *)
LEMMA BaseParts ==
    ASSUME BaseInv
    PROVE  DmInv /\ DmTypes /\ RequestTypes /\ ClientTypes /\ MailInv
  <1>1. DmInv /\ DmTypes /\ RequestTypes /\ ClientTypes
    BY DEF BaseInv, DmInv, DmTypes, TypeOK, RequestTypes, ClientTypes
  <1>2. MailInv
    <2> SUFFICES ASSUME NEW c \in Client PROVE inbox[c] \in Seq(Mail(c))
      BY DEF BaseInv, TypeOK, MailInv
    <2>1. inbox[c] \in Seq(Answers \union Notices)
      BY DEF BaseInv, TypeOK
    <2>2. \A n \in 1 .. Len(inbox[c]) : inbox[c][n] \in Mail(c)
      BY <2>1, ElementOfSeq DEF BaseInv, HandleInv, Mail
    <2> QED
      BY <2>1, <2>2
  <1> QED
    BY <1>1, <1>2

(* The parts of BaseInv, by what an action changes, make it up again.       *)
LEMMA PartsBase ==
    ASSUME DmInv', RequestTypes', ClientTypes', MailInv'
    PROVE  BaseInv'
  <1>1. TypeOK' /\ OnlyVisisExit'
    BY DEF DmInv, DmTypes, RequestTypes, ClientTypes, MailInv, TypeOK
  <1>2. HandleInv'
    <2> SUFFICES ASSUME NEW c \in Client, NEW n \in 1 .. Len(inbox'[c])
                 PROVE  /\ inbox'[c][n].kind = "phase" => c \in PC \intersect Curr
                        /\ inbox'[c][n].kind = "reply" /\ (c \in PC \/ inbox'[c][n].ok)
                             => inbox'[c][n].id \in Id
      BY DEF HandleInv
    <2>1. inbox'[c] \in Seq(Mail(c))
      BY DEF MailInv
    <2>2. inbox'[c][n] \in Mail(c)
      BY <2>1, ElementOfSeq
    <2> QED
      BY <2>2 DEF Mail
  <1> QED
    BY <1>1, <1>2 DEF DmInv, BaseInv

(* What is sent, and what is taken out.                                     *)
LEMMA MailSent ==
    ASSUME MailInv, NEW c \in Client, NEW m \in Mail(c), Send(c, m)
    PROVE  MailInv'
  <1>1. Append(inbox[c], m) \in Seq(Mail(c)) /\ Mail(c) \subseteq Answers \union Notices
    BY AppendProperties DEF MailInv, Mail
  <1>2. Append(inbox[c], m) \in Seq(Answers \union Notices)
    BY <1>1, AppendProperties DEF MailInv
  <1> QED
    BY <1>1, <1>2 DEF Send, MailInv

(* Mail that is taken out is mail of its client.                            *)
LEMMA MailPopped ==
    ASSUME MailInv, NEW c \in Client, inbox[c] # <<>>, Pop(c)
    PROVE  MailInv' /\ Head(inbox[c]) \in Mail(c)
  <1>1. Tail(inbox[c]) \in Seq(Mail(c)) /\ Head(inbox[c]) \in Mail(c)
    BY HeadTailProperties DEF MailInv
  <1>2. Tail(inbox[c]) \in Seq(Answers \union Notices)
    BY HeadTailProperties DEF MailInv
  <1> QED
    BY <1>1, <1>2 DEF Pop, MailInv

(* Mail stays mail if what each client has is mail of that client.          *)
LEMMA MailGrows ==
    ASSUME MailInv, inbox' = [c \in Client |-> inbox'[c]],
           \A c \in Client : inbox'[c] \in Seq(Mail(c))
    PROVE  MailInv'
  <1>1. ASSUME NEW c \in Client
        PROVE  inbox'[c] \in Seq(Answers \union Notices)
    <2>1. inbox'[c] \in Seq(Mail(c)) /\ Mail(c) \subseteq Answers \union Notices
      BY DEF Mail
    <2> HIDE DEF Mail
    <2> QED
      BY <2>1
  <1> QED
    BY <1>1 DEF MailInv

(* A reply to a search names its instance.                                  *)
LEMMA ReplyIsMail ==
    ASSUME NEW c \in Client, NEW id \in 0 .. MaxId, NEW ok \in BOOLEAN,
           c \in PC \/ ok => id \in Id, NEW p \in Pair, NEW ph \in 0 .. NoPhase
    PROVE  Reply(id, p, ok, ph) \in Mail(c)
BY DEF Reply, Mail, Answers

(* A request names its client and a phase, or none.                         *)
LEMMA RequestIsTyped ==
    ASSUME ClientTypes, NEW c \in Client
    PROVE  RequestOf(c) \in Requests /\ RequestOf(c).phase \in 0 .. NoPhase
           /\ RequestOf(c).client = c
  <1>1. NoPhase \in 0 .. NoPhase /\ cphase[c] \in 0 .. NoPhase
    BY InstancesAssumption DEF NoPhase, ClientTypes
  <1> QED
    BY <1>1 DEF RequestOf, Requests

KeptAll == \A id \in Id : Kept(inst[id], inst'[id])

(* No data is lost where no instance changes.                               *)
LEMMA KeptSame ==
    ASSUME BaseInv, inst' = inst
    PROVE  KeptAll
BY DEF BaseInv, TypeOK, Instance, KeptAll, Kept

(* No data is lost where the only instance that changes keeps its own.      *)
LEMMA KeptOne ==
    ASSUME BaseInv, NEW id \in Id, NEW r, inst' = [inst EXCEPT ![id] = r], Kept(inst[id], r)
    PROVE  KeptAll
BY DEF BaseInv, TypeOK, Instance, KeptAll, Kept

(* A request keeps the invariant, whatever becomes of it.                   *)
LEMMA EnableBase ==
    ASSUME BaseInv, NEW c \in Client, NEW p \in Pair, Enable(c, p)
    PROVE  BaseInv' /\ KeptAll
  <1>1. DmInv /\ DmTypes /\ RequestTypes /\ ClientTypes /\ MailInv
    BY BaseParts
  <1>2. /\ Request(c, p) /\ nreq < MaxReq
        /\ crossed' = IF Outstanding(c, p) THEN crossed \union {<<c, p>>} ELSE crossed
        /\ UNCHANGED <<persistentData, phase, cphase, ended, hold, again, life>>
    BY DEF Enable
  <1>3. /\ nreq' = nreq + 1 /\ pend' = [pend EXCEPT ![c] = @ \union {p}]
        /\ \/ TooLate(c, p)
           \/ \E id \in Id : Asked(c, p, id) \/ Granted(c, p, id) \/ Refused(c, p, id)
    BY <1>2, RequestDoes
  <1>4. RequestOf(c) \in Requests /\ RequestOf(c).phase \in 0 .. NoPhase
    BY <1>1, RequestIsTyped
  <1>5. ClientTypes'
    BY <1>1, <1>2, <1>3 DEF ClientTypes, OnlyVisisExit
  <1>6. nreq' \in 0 .. MaxReq /\ persistentData' \in BOOLEAN /\ phase' \in 0 .. MaxPhase
    BY <1>1, <1>2, <1>3, InstancesAssumption DEF RequestTypes
  <1>7. CASE TooLate(c, p)
    <2>1. UNCHANGED <<dm, nextId, val, parents, phase>>
      BY <1>2, <1>7 DEF TooLate
    <2>2. RequestTypes'
      BY <1>1, <1>6, <2>1 DEF RequestTypes
    <2>3. MailInv'
      <3>1. CASE c \in Visi
        <4>1. c \notin PC /\ 0 \in 0 .. MaxId
          BY <3>1, InstancesAssumption
        <4>2. Reply(0, p, FALSE, RequestOf(c).phase) \in Mail(c)
          BY <1>4, <4>1, ReplyIsMail
        <4> QED
          BY <1>1, <1>7, <3>1, <4>2, MailSent DEF TooLate
      <3>2. CASE c \notin Visi
        BY <1>1, <1>7, <3>2 DEF TooLate, MailInv
      <3> QED
        BY <3>1, <3>2
    <2>4. inst' = inst
      BY <2>1 DEF dm
    <2> QED
      BY <1>5, <2>1, <2>2, <2>3, <2>4, DmSame, PartsBase, KeptSame
  <1>8. ASSUME NEW id \in Id, Asked(c, p, id)
        PROVE  BaseInv' /\ KeptAll
    <2>1. /\ val' = [val EXCEPT ![id] = "undecided"]
          /\ parents' = [parents EXCEPT ![id] = Append(@, RequestOf(c))]
          /\ inst' = [inst EXCEPT ![id].live = TRUE, ![id].pair = p]
          /\ (nextId' = nextId \/ (id = nextId /\ nextId' = nextId + 1))
          /\ inbox' = inbox
      BY <1>8 DEF Asked
    <2>2. nextId' \in 1 .. MaxId + 1
      BY <1>1, <2>1, InstancesAssumption DEF RequestTypes, Id
    <2>3. RequestTypes'
      <3>1. parents[id] \in Seq(Requests)
        BY <1>1 DEF RequestTypes, Requests
      <3>2. Append(parents[id], RequestOf(c)) \in Seq(Requests)
        BY <1>4, <3>1, AppendProperties
      <3> QED
        BY <1>1, <1>6, <2>1, <2>2, <3>2 DEF RequestTypes, Requests
    <2>4. MailInv'
      BY <1>1, <2>1 DEF MailInv
    <2>5. DmInv'
      BY <1>2, <1>8, DmAsked
    <2>6. KeptAll
      <3>1. inst \in [Id -> Instance]
        BY DEF BaseInv, TypeOK
      <3>2. ASSUME NEW k \in Id
            PROVE  /\ inst'[k].pdata = inst[k].pdata /\ inst'[k].phasepd = inst[k].phasepd
                   /\ inst'[k].data = inst[k].data /\ inst'[k].gdata = inst[k].gdata
                   /\ inst'[k].old = inst[k].old /\ inst[k].old \in Nat
        BY <2>1, <3>1 DEF Instance
      <3> QED
        BY <3>2 DEF KeptAll, Kept
    <2> QED
      BY <1>5, <2>3, <2>4, <2>5, <2>6, PartsBase
  <1>9. ASSUME NEW id \in Id, Granted(c, p, id)
        PROVE  BaseInv' /\ KeptAll
    <2> DEFINE reqs == <<RequestOf(c)>>
               who == {q.client : q \in ToSet(reqs)}
    <2>1. /\ inst[id].live /\ val[id] = "success" /\ Ready(id, reqs)
          /\ Send(c, Reply(id, p, TRUE, RequestOf(c).phase))
          /\ UNCHANGED <<nextId, val, parents, phase>>
      BY <1>2, <1>9 DEF Granted
    <2>2. reqs \in Seq(Requests) /\ reqs # <<>> /\ Len(reqs) \in Nat \ {0}
      BY <1>4
    <2> HIDE DEF reqs
    <2>3. PICK r : Readied(id, who, Len(reqs), r)
      BY <2>1, <2>2, ReadyDoes
    <2>4. parents[id] = <<>>
      BY <1>1, <2>1 DEF DmInv, InstanceInv
    <2>5. DmInv'
      <3> HIDE DEF who
      <3>1. /\ val'[id] = "success" /\ parents'[id] = <<>>
            /\ \A k \in Id \ {id} : val'[k] = val[k] /\ parents'[k] = parents[k]
            /\ UNCHANGED <<nextId, phase>>
        BY <2>1, <2>4
      <3> QED
        BY <2>1, <2>2, <2>3, <3>1, DmReadied
    <2>6. RequestTypes'
      BY <1>1, <1>6, <2>1 DEF RequestTypes
    <2>7. MailInv'
      <3>1. Reply(id, p, TRUE, RequestOf(c).phase) \in Mail(c)
        <4>1. id \in 0 .. MaxId /\ TRUE \in BOOLEAN
          BY InstancesAssumption DEF Id
        <4> QED
          BY <1>4, <4>1, ReplyIsMail
      <3> QED
        BY <1>1, <2>1, <3>1, MailSent
    <2>8. KeptAll
      <3>1. inst' = [inst EXCEPT ![id] = r] /\ Kept(inst[id], r)
        BY <2>3 DEF Readied
      <3> QED
        BY <3>1, KeptOne
    <2> QED
      BY <1>5, <2>5, <2>6, <2>7, <2>8, PartsBase
  <1>10. ASSUME NEW id \in Id, Refused(c, p, id)
         PROVE  BaseInv' /\ KeptAll
    <2>1. /\ UNCHANGED <<dm, nextId, val, parents, phase>>
          /\ Send(c, Reply(id, p, FALSE, RequestOf(c).phase))
      BY <1>2, <1>10 DEF Refused
    <2>2. RequestTypes'
      BY <1>1, <1>6, <2>1 DEF RequestTypes
    <2>3. MailInv'
      <3>1. Reply(id, p, FALSE, RequestOf(c).phase) \in Mail(c)
        <4>1. id \in 0 .. MaxId /\ FALSE \in BOOLEAN
          BY InstancesAssumption DEF Id
        <4> QED
          BY <1>4, <4>1, ReplyIsMail
      <3> QED
        BY <1>1, <2>1, <3>1, MailSent
    <2>4. inst' = inst
      BY <2>1 DEF dm
    <2> QED
      BY <1>5, <2>1, <2>2, <2>3, <2>4, DmSame, PartsBase, KeptSame
  <1> QED
    BY <1>3, <1>7, <1>8, <1>9, <1>10

(* A decision readies the instance for every request that waits for it.     *)
LEMMA AnswerBase ==
    ASSUME BaseInv, NEW id \in Id, NEW ok \in BOOLEAN, Answer(id, ok)
    PROVE  BaseInv' /\ KeptAll
  <1>1. DmInv /\ DmTypes /\ RequestTypes /\ ClientTypes /\ MailInv /\ TypeOK
    BY BaseParts DEF BaseInv
  <1>2. /\ val[id] = "undecided"
        /\ val' = [val EXCEPT ![id] = IF ok THEN "success" ELSE "failure"]
        /\ parents' = [parents EXCEPT ![id] = <<>>]
        /\ Tell(id, ok)
        /\ UNCHANGED <<persistentData, phase, nextId, nreq, clients>>
    BY DEF Answer
  <1>3. RequestTypes'
    <2>1. <<>> \in Seq([client : Client, phase : 0 .. NoPhase])
      OBVIOUS
    <2> QED
      BY <1>1, <1>2, <2>1 DEF RequestTypes
  <1>4. MailInv'
    <2>1. ASSUME NEW c \in Client PROVE Replies(c, id, ok) \in Seq(Mail(c))
      <3>1. /\ Replies(c, id, ok) \in Seq(Answers)
            /\ ToRequests(Replies(c, id, ok), c, id, ok)
        BY <1>1, RepliesFacts
      <3>2. Len(Replies(c, id, ok)) \in Nat
        BY <3>1, LenProperties
      <3>3. ASSUME NEW j \in 1 .. Len(Replies(c, id, ok))
            PROVE  /\ Replies(c, id, ok)[j].id = id
                   /\ Replies(c, id, ok)[j] \in Answers
        <4>1. \E n \in 1 .. Len(parents[id]) :
                 Replies(c, id, ok)[j] = Reply(id, inst[id].pair, ok, parents[id][n].phase)
          BY <3>1 DEF ToRequests
        <4>2. Replies(c, id, ok)[j] \in Answers
          BY <3>1, ElementOfSeq
        <4> QED
          BY <4>1, <4>2 DEF Reply
      <3>4. \A j \in 1 .. Len(Replies(c, id, ok)) : Replies(c, id, ok)[j] \in Mail(c)
        BY <3>3 DEF Mail, Answers
      <3> HIDE DEF Replies
      <3> QED
        BY <3>1, <3>4
    <2>2. /\ inbox' = [c \in Client |-> inbox'[c]]
          /\ \A c \in Client : \/ inbox'[c] = inbox[c]
                               \/ inbox'[c] = inbox[c] \o Replies(c, id, ok)
      BY <1>2 DEF Tell
    <2>3. ASSUME NEW c \in Client PROVE inbox'[c] \in Seq(Mail(c))
      <3>1. inbox[c] \in Seq(Mail(c)) /\ Replies(c, id, ok) \in Seq(Mail(c))
        BY <1>1, <2>1 DEF MailInv
      <3>2. inbox[c] \o Replies(c, id, ok) \in Seq(Mail(c))
        BY <3>1, ConcatProperties
      <3> QED
        BY <2>2, <3>1, <3>2
    <2> QED
      BY <1>1, <2>2, <2>3, MailGrows
  <1>5. inst[id].live /\ inst[id].pair \in Pair
    BY <1>1, <1>2 DEF DmInv, DmTypes, InstanceInv, Instance
  <1>6. parents[id] \in Seq(Requests) /\ parents[id] # <<>>
    BY <1>1, <1>2 DEF DmInv, InstanceInv, RequestTypes, Requests
  <1>7. CASE ok
    <2> DEFINE who == {q.client : q \in ToSet(parents[id])}
    <2>1. Ready(id, parents[id])
      BY <1>7 DEF Answer
    <2>2. PICK r : Readied(id, who, Len(parents[id]), r)
      BY <1>5, <1>6, <2>1, ReadyDoes
    <2> HIDE DEF who
    <2>3. DmInv'
      <3>1. Len(parents[id]) \in Nat \ {0}
        BY <1>6, EmptySeq, LenProperties
      <3>2. /\ val'[id] = "success" /\ parents'[id] = <<>>
            /\ \A k \in Id \ {id} : val'[k] = val[k] /\ parents'[k] = parents[k]
            /\ UNCHANGED <<nextId, phase>>
        BY <1>1, <1>2, <1>7 DEF RequestTypes
      <3> QED
        BY <1>5, <2>2, <3>1, <3>2, DmReadied
    <2>4. KeptAll
      <3>1. inst' = [inst EXCEPT ![id] = r] /\ Kept(inst[id], r)
        BY <2>2 DEF Readied
      <3> QED
        BY <3>1, KeptOne
    <2>5. ClientTypes'
      <3>1. crossed' = crossed \union
                 {<<r_1.client, inst[id].pair>> : r_1 \in {q \in ToSet(parents[id]) :
                                    q.client \in Curr /\ q.phase # phase}}
        BY <1>7 DEF Answer
      <3>2. \A q \in ToSet(parents[id]) : q \in Requests
        BY <1>6, ElementOfSeq DEF ToSet
      <3>3. crossed' \subseteq Client \X Pair
        BY <1>1, <1>5, <3>1, <3>2 DEF ClientTypes, Requests
      <3> QED
        BY <1>1, <1>2, <3>3 DEF ClientTypes, OnlyVisisExit, clients
    <2> QED
      BY <1>3, <1>4, <2>3, <2>4, <2>5, PartsBase
  <1>8. CASE ~ok
    <2>1. UNCHANGED <<dm, crossed>> /\ val' = [val EXCEPT ![id] = "failure"]
      BY <1>2, <1>8 DEF Answer
    <2>2. DmInv'
      BY <1>2, <2>1, DmFailed
    <2>3. ClientTypes'
      BY <1>1, <1>2, <2>1 DEF ClientTypes, OnlyVisisExit, clients
    <2>4. inst' = inst
      BY <2>1 DEF dm
    <2> QED
      BY <1>3, <1>4, <2>2, <2>3, <2>4, KeptSame, PartsBase
  <1> QED
    BY <1>7, <1>8

(* A phase start.                                                           *)
LEMMA StartPhaseBase ==
    ASSUME BaseInv, StartPhase
    PROVE  BaseInv' /\ KeptAll
  <1>1. DmInv /\ DmTypes /\ RequestTypes /\ ClientTypes /\ MailInv /\ TypeOK
    BY BaseParts DEF BaseInv
  <1> DEFINE undecided == {id \in Id : val[id] = "undecided"}
             globally == {id \in undecided : \E r \in ToSet(parents[id]) : r.client \notin Curr}
  <1>2. /\ phase < MaxPhase /\ phase' = phase + 1
        /\ inst' = [id \in Id |-> Stopped(inst[id])]
        /\ val' = [id \in Id |-> IF id \in undecided \ globally THEN "none" ELSE val[id]]
        /\ parents' = [id \in Id |-> IF id \in undecided \ globally THEN <<>> ELSE parents[id]]
        /\ inbox' = [c \in Client |->
               IF c \notin Curr \/ life[c] = "gone" THEN inbox[c]
               ELSE inbox[c]
                    \o FlattenSeq([id \in Id |-> IF id \in undecided THEN Replies(c, id, FALSE)
                                               ELSE <<>>])
                    \o (IF c \in PC THEN <<Notice(phase')>> ELSE <<>>)]
        /\ UNCHANGED <<persistentData, nextId, nreq, clients, crossed>>
    BY DEF StartPhase
  <1> HIDE DEF globally
  <1>3. DmInv' /\ phase' \in 0 .. MaxPhase
    BY DmStart
  <1>4. RequestTypes'
    <2>1. \A id \in Id : parents'[id] \in Seq([client : Client, phase : 0 .. NoPhase])
      <3> TAKE id \in Id
      <3>1. <<>> \in Seq([client : Client, phase : 0 .. NoPhase])
        OBVIOUS
      <3>2. parents'[id] = <<>> \/ parents'[id] = parents[id]
        BY <1>2
      <3> QED
        BY <1>1, <3>1, <3>2 DEF RequestTypes
    <2>2. parents' \in [Id -> Seq([client : Client, phase : 0 .. NoPhase])]
      BY <1>2, <2>1
    <2>3. val' \in [Id -> {"none", "undecided", "success", "failure"}]
      BY <1>1, <1>2 DEF RequestTypes
    <2> QED
      BY <1>1, <1>2, <1>3, <2>2, <2>3 DEF RequestTypes
  <1>5. ClientTypes'
    BY <1>1, <1>2 DEF ClientTypes, OnlyVisisExit, clients
  <1>6. MailInv'
    <2>1. ASSUME NEW c \in Client
          PROVE  inbox'[c] \in Seq(Mail(c))
      <3>1. CASE c \notin Curr \/ life[c] = "gone"
        BY <1>1, <1>2, <3>1 DEF MailInv
      <3>2. CASE ~(c \notin Curr \/ life[c] = "gone")
        <4> DEFINE note == IF c \in PC THEN <<Notice(phase')>> ELSE <<>>
        <4>1. inbox'[c] = inbox[c]
                    \o FlattenSeq([id \in Id |-> IF id \in undecided THEN Replies(c, id, FALSE)
                                               ELSE <<>>])
                    \o note
          BY <1>2, <3>2
        <4>2. [id \in Id |-> IF id \in undecided THEN Replies(c, id, FALSE) ELSE <<>>]
                = [id \in Id |-> IF val[id] = "undecided" THEN Replies(c, id, FALSE) ELSE <<>>]
          OBVIOUS
        <4>3. inbox'[c] = (inbox[c] \o Failures(c)) \o note
          BY <4>1, <4>2 DEF Failures
        <4>4. /\ Failures(c) \in Seq(Answers)
              /\ \A j \in 1 .. Len(Failures(c)) : Failures(c)[j].id \in Id
          <5>1. /\ Failures(c) \in Seq(Answers)
                /\ \A j \in 1 .. Len(Failures(c)) :
                     \E id \in Id : \E n \in 1 .. Len(parents[id]) :
                        /\ val[id] = "undecided" /\ parents[id][n].client = c
                        /\ Failures(c)[j]
                             = Reply(id, inst[id].pair, FALSE, parents[id][n].phase)
            BY <1>1, FailuresFacts
          <5>2. ASSUME NEW j \in 1 .. Len(Failures(c)) PROVE Failures(c)[j].id \in Id
            <6>1. PICK id \in Id : \E n \in 1 .. Len(parents[id]) :
                     Failures(c)[j] = Reply(id, inst[id].pair, FALSE, parents[id][n].phase)
              BY <5>1
            <6> QED
              BY <6>1 DEF Reply
          <5> QED
            BY <5>1, <5>2
        <4>5. Failures(c) \in Seq(Mail(c))
          <5>1. ASSUME NEW j \in 1 .. Len(Failures(c)) PROVE Failures(c)[j] \in Mail(c)
            <6>1. Failures(c)[j] \in Answers /\ Failures(c)[j].id \in Id
              BY <4>4, ElementOfSeq
            <6> QED
              BY <6>1 DEF Mail, Answers
          <5> QED
            BY <4>4, <5>1
        <4>6. note \in Seq(Mail(c))
          <5>1. c \in PC => Notice(phase') \in Mail(c)
            BY <1>3, <3>2 DEF Notice, Notices, Mail
          <5>2. CASE c \in PC
            BY <5>1, <5>2
          <5>3. CASE c \notin PC
            BY <5>3
          <5> QED
            BY <5>2, <5>3
        <4> HIDE DEF note
        <4>7. inbox[c] \in Seq(Mail(c))
          BY <1>1 DEF MailInv
        <4>8. inbox[c] \o Failures(c) \in Seq(Mail(c))
          BY <4>5, <4>7, ConcatProperties
        <4> QED
          BY <4>3, <4>6, <4>8, ConcatProperties
      <3> QED
        BY <3>1, <3>2
    <2>2. inbox' = [c \in Client |-> inbox'[c]]
      BY <1>2
    <2> QED
      BY <1>1, <2>1, <2>2, MailGrows
  <1>7. KeptAll
    <2> SUFFICES ASSUME NEW id \in Id PROVE Kept(inst[id], inst'[id])
      BY DEF KeptAll
    <2>1. /\ inst[id] \in Instance /\ Sound(inst[id]) /\ inst[id].old <= phase
          /\ phase \in Nat
      BY <1>1 DEF DmInv, DmTypes, InstanceInv, RequestTypes
    <2>2. inst'[id] = Stopped(inst[id])
      BY <1>2
    <2> QED
      BY <1>2, <2>1, <2>2, StoppedDoes
  <1> QED
    BY <1>3, <1>4, <1>5, <1>6, <1>7, PartsBase

-----------------------------------------------------------------------------
(* The actions of the clients                                               *)

(* A new client of the current phase.                                       *)
LEMMA BeginBase ==
    ASSUME BaseInv, NEW c \in Client, Begin(c)
    PROVE  BaseInv' /\ KeptAll
  <1>1. DmInv /\ DmTypes /\ RequestTypes /\ ClientTypes /\ MailInv
    BY BaseParts
  <1>2. /\ cphase' = [cphase EXCEPT ![c] = phase] /\ ended' = ended \ {c}
        /\ pend' = [pend EXCEPT ![c] = {}] /\ hold' = [hold EXCEPT ![c] = {}]
        /\ UNCHANGED <<persistentData, phase, dm, requests, again, life, inbox, crossed>>
    BY DEF Begin
  <1>3. ClientTypes'
    <2>1. phase \in 0 .. NoPhase
      BY <1>1, InstancesAssumption DEF RequestTypes, NoPhase
    <2> QED
      BY <1>1, <1>2, <2>1 DEF ClientTypes, OnlyVisisExit
  <1>4. RequestTypes' /\ MailInv'
    BY <1>1, <1>2 DEF RequestTypes, MailInv, requests
  <1>5. UNCHANGED <<dm, nextId, val, parents, phase>> /\ inst' = inst
    BY <1>2 DEF requests, dm
  <1> QED
    BY <1>3, <1>4, <1>5, DmSame, PartsBase, KeptSame

(* A visi takes a reply.                                                    *)
LEMMA ReceiveVisiBase ==
    ASSUME BaseInv, NEW c \in Client, ReceiveVisi(c)
    PROVE  BaseInv' /\ KeptAll
  <1>1. DmInv /\ DmTypes /\ RequestTypes /\ ClientTypes /\ MailInv
    BY BaseParts
  <1> DEFINE m == Head(inbox[c])
  <1>2. /\ c \in Visi /\ inbox[c] # <<>> /\ Pop(c)
        /\ pend' = [pend EXCEPT ![c] = @ \ {m.pair}]
        /\ hold' = [hold EXCEPT ![c] = IF m.ok THEN @ \union {m.id} ELSE @]
        /\ UNCHANGED <<persistentData, phase, dm, requests, cphase, ended, again, life, crossed>>
    BY DEF ReceiveVisi
  <1> HIDE DEF m
  <1>3. MailInv' /\ Head(inbox[c]) \in Mail(c)
    BY <1>1, <1>2, MailPopped
  <1>4. RequestTypes'
    BY <1>1, <1>2 DEF RequestTypes, requests
  <1>5. UNCHANGED <<dm, nextId, val, parents, phase>> /\ inst' = inst
    BY <1>2 DEF requests, dm
  <1>6. m.ok => m.id \in Id
    BY <1>2, <1>3, InstancesAssumption DEF m, Mail, Answers, Notices
  <1>7. ClientTypes'
    BY <1>1, <1>2, <1>6 DEF ClientTypes, OnlyVisisExit
  <1> QED
    BY <1>3, <1>4, <1>5, <1>7, DmSame, PartsBase, KeptSame

(* A step that disables an instance for a client.                           *)
LEMMA DisabledBase ==
    ASSUME BaseInv, NEW id \in Id, NEW c, NEW r, Disabled(id, c, r),
           UNCHANGED <<persistentData, phase, requests>>, ClientTypes', MailInv'
    PROVE  BaseInv' /\ KeptAll
  <1>1. UNCHANGED <<val, parents, nextId, phase, nreq, persistentData>>
    BY DEF requests
  <1>2. DmInv'
    BY <1>1, DmDisabled
  <1>3. RequestTypes'
    BY <1>1, BaseParts DEF RequestTypes
  <1>4. inst' = [inst EXCEPT ![id] = r] /\ Kept(inst[id], r)
    BY DEF Disabled
  <1>5. KeptAll
    BY <1>4, KeptOne
  <1> QED
    BY <1>2, <1>3, <1>5, PartsBase

(* A step that leaves the data manager alone.                               *)
LEMMA SameBase ==
    ASSUME BaseInv, UNCHANGED <<persistentData, phase, dm, requests>>, ClientTypes', MailInv'
    PROVE  BaseInv' /\ KeptAll
  <1>1. UNCHANGED <<dm, val, parents, nextId, phase, nreq, persistentData>> /\ inst' = inst
    BY DEF requests, dm
  <1>2. RequestTypes'
    BY <1>1, BaseParts DEF RequestTypes
  <1> QED
    BY <1>1, <1>2, DmSame, KeptSame, PartsBase

(* A search takes a reply, and perhaps undoes it.                           *)
LEMMA ReceivePCBase ==
    ASSUME BaseInv, NEW c \in Client, ReceivePC(c)
    PROVE  BaseInv' /\ KeptAll
  <1>1. ClientTypes /\ MailInv
    BY BaseParts
  <1> DEFINE m == Head(inbox[c])
  <1>2. /\ c \in PC /\ inbox[c] # <<>> /\ m.kind = "reply" /\ Pop(c)
        /\ UNCHANGED <<persistentData, phase, requests, cphase, ended, again, life, crossed>>
        /\ \/ UNCHANGED <<dm, pend, hold>>
           \/ DisableAndClear(m.id, c) /\ UNCHANGED <<pend, hold>>
           \/ /\ pend' = [pend EXCEPT ![c] = @ \ {m.pair}]
              /\ hold' = [hold EXCEPT ![c] = IF m.ok THEN @ \union {m.id} ELSE @]
              /\ UNCHANGED dm
    BY DEF ReceivePC, UndoUnwanted
  <1>3. MailInv' /\ m \in Mail(c)
    BY <1>1, <1>2, MailPopped
  <1> HIDE DEF m
  <1>4. m.id \in Id
    BY <1>2, <1>3 DEF Mail
  <1>5. ClientTypes'
    <2>1. pend' \in [Client -> SUBSET Pair] /\ hold' \in [Client -> SUBSET Id]
      <3>1. CASE UNCHANGED <<pend, hold>>
        BY <1>1, <3>1 DEF ClientTypes
      <3>2. CASE /\ pend' = [pend EXCEPT ![c] = @ \ {m.pair}]
                 /\ hold' = [hold EXCEPT ![c] = IF m.ok THEN @ \union {m.id} ELSE @]
        BY <1>1, <1>4, <3>2 DEF ClientTypes
      <3> QED
        BY <1>2, <3>1, <3>2
    <2> QED
      BY <1>1, <1>2, <2>1 DEF ClientTypes, OnlyVisisExit
  <1>6. CASE UNCHANGED dm
    BY <1>2, <1>3, <1>5, <1>6, SameBase
  <1>7. CASE DisableAndClear(m.id, c)
    <2>1. PICK r : Disabled(m.id, c, r)
      BY <1>2, <1>4, <1>7, SearchDisables
    <2> QED
      BY <1>2, <1>3, <1>4, <1>5, <2>1, DisabledBase
  <1> QED
    BY <1>2, <1>6, <1>7

(* A search hears of a phase.                                               *)
LEMMA HearOfPhaseBase ==
    ASSUME BaseInv, NEW c \in Client, HearOfPhase(c)
    PROVE  BaseInv' /\ KeptAll
  <1>1. ClientTypes /\ MailInv
    BY BaseParts
  <1>2. /\ c \in PC /\ inbox[c] # <<>> /\ Head(inbox[c]).kind = "phase" /\ Pop(c)
        /\ ended' \in {ended, ended \union {c}}
        /\ UNCHANGED <<persistentData, phase, dm, requests, cphase, pend, hold, again,
                       life, crossed>>
    BY DEF HearOfPhase
  <1>3. MailInv' /\ Head(inbox[c]) \in Mail(c)
    BY <1>1, <1>2, MailPopped
  <1>4. c \in PC \intersect Curr
    BY <1>2, <1>3 DEF Mail
  <1>5. ClientTypes'
    BY <1>1, <1>2, <1>4 DEF ClientTypes, OnlyVisisExit
  <1> QED
    BY <1>2, <1>3, <1>5, SameBase

(* A search cancels a request.                                              *)
LEMMA CancelBase ==
    ASSUME BaseInv, NEW c \in Client, NEW p \in Pair, CancelSubRequest(c, p)
    PROVE  BaseInv' /\ KeptAll
  <1>1. ClientTypes /\ MailInv
    BY BaseParts
  <1>2. ClientTypes' /\ MailInv'
    BY <1>1 DEF CancelSubRequest, OnlyVisisExit, ClientTypes, MailInv
  <1> QED
    BY <1>2, SameBase DEF CancelSubRequest

(* A search disables an instance.                                           *)
LEMMA InActivateBase ==
    ASSUME BaseInv, NEW c \in Client, NEW id \in Id, InActivateFilter(c, id)
    PROVE  BaseInv' /\ KeptAll
  <1>1. ClientTypes /\ MailInv
    BY BaseParts
  <1>2. /\ c \in PC /\ DisableAndClear(id, c)
        /\ hold' = [hold EXCEPT ![c] = @ \ {id}]
        /\ UNCHANGED <<persistentData, phase, requests, cphase, ended, pend, again, life,
                       inbox, crossed>>
    BY DEF InActivateFilter
  <1>3. ClientTypes' /\ MailInv'
    BY <1>1, <1>2 DEF ClientTypes, OnlyVisisExit, MailInv
  <1>4. PICK r : Disabled(id, c, r)
    BY <1>2, SearchDisables
  <1> QED
    BY <1>2, <1>3, <1>4, DisabledBase

(* A visi stops a pair.                                                     *)
LEMMA StopBase ==
    ASSUME BaseInv, NEW c \in Client, NEW id \in Id, StopMetricResource(c, id)
    PROVE  BaseInv' /\ KeptAll
  <1>1. ClientTypes /\ MailInv
    BY BaseParts
  <1>2. /\ c \in Visi /\ Disable(id, inst[id], c)
        /\ hold' = [hold EXCEPT ![c] = @ \ {id}]
        /\ crossed' = crossed \union ({c} \X (pend[c] \intersect {inst[id].pair}))
        /\ UNCHANGED <<persistentData, phase, requests, cphase, ended, pend, again, life,
                       inbox>>
    BY DEF StopMetricResource
  <1>3. ClientTypes' /\ MailInv'
    <2>1. {c} \X (pend[c] \intersect {inst[id].pair}) \subseteq Client \X Pair
      BY <1>1 DEF ClientTypes, OnlyVisisExit
    <2> QED
      BY <1>1, <1>2, <2>1 DEF ClientTypes, OnlyVisisExit, MailInv
  <1>4. PICK r : Disabled(id, c, r)
    BY <1>2, VisiDisables
  <1> QED
    BY <1>2, <1>3, <1>4, DisabledBase

(* The process of a visi ends.                                              *)
LEMMA QuitBase ==
    ASSUME BaseInv, NEW c \in Client, Quit(c)
    PROVE  BaseInv' /\ KeptAll
  <1>1. ClientTypes /\ MailInv
    BY BaseParts
  <1>2. ClientTypes' /\ MailInv'
    BY <1>1, InstancesAssumption DEF Quit, OnlyVisisExit, ClientTypes, MailInv
  <1> QED
    BY <1>2, SameBase DEF Quit

(* A visi that exits disables an instance, the first or the second time.    *)
LEMMA DisableOnExitBase ==
    ASSUME BaseInv, NEW c \in Client, DisableOnExit(c)
    PROVE  BaseInv' /\ KeptAll
  <1>1. ClientTypes /\ MailInv
    BY BaseParts
  <1>2. PICK id \in IF again[c] # {} THEN again[c] ELSE hold[c] :
          /\ Disable(id, inst[id], c)
          /\ again' = [again EXCEPT ![c] = IF @ = {} THEN {id} ELSE {}]
          /\ hold' = [hold EXCEPT ![c] = @ \ {id}]
    BY DEF DisableOnExit
  <1>3. /\ UNCHANGED <<persistentData, phase, requests, cphase, ended, pend, life, inbox,
                       crossed>>
        /\ c \in Visi
    BY <1>1 DEF DisableOnExit, Client, ClientTypes, OnlyVisisExit
  <1>4. id \in Id
    BY <1>1, <1>2, <1>3 DEF ClientTypes, OnlyVisisExit
  <1>5. ClientTypes' /\ MailInv'
    BY <1>1, <1>2, <1>3, <1>4 DEF ClientTypes, OnlyVisisExit, MailInv
  <1>6. PICK r : Disabled(id, c, r)
    BY <1>2, <1>3, <1>4, VisiDisables
  <1> QED
    BY <1>3, <1>4, <1>5, <1>6, DisabledBase

(* The stream of a visi is destroyed.                                       *)
LEMMA DestroyBase ==
    ASSUME BaseInv, NEW c \in Client, DestroyPerformanceStream(c)
    PROVE  BaseInv' /\ KeptAll
  <1>1. ClientTypes /\ MailInv
    BY BaseParts
  <1>2. /\ life' = [life EXCEPT ![c] = "gone"] /\ inbox' = [inbox EXCEPT ![c] = <<>>]
        /\ UNCHANGED <<persistentData, phase, dm, requests, cphase, ended, pend, hold,
                       again, crossed>>
    BY DEF DestroyPerformanceStream
  <1>3. ClientTypes'
    <2>1. c \notin PC
      BY <1>1 DEF DestroyPerformanceStream, ClientTypes, OnlyVisisExit
    <2> QED
      BY <1>1, <1>2, <2>1 DEF ClientTypes, OnlyVisisExit
  <1>4. MailInv'
    <2>1. <<>> \in Seq(Mail(c))
      OBVIOUS
    <2>2. <<>> \in Seq(Answers \union Notices)
      OBVIOUS
    <2> QED
      BY <1>1, <1>2, <2>1, <2>2 DEF MailInv
  <1> QED
    BY <1>2, <1>3, <1>4, SameBase

-----------------------------------------------------------------------------
(* The invariant of the data manager's side                                 *)

(* BaseInv holds in the initial states.                                     *)
LEMMA BaseInit == Init => BaseInv
  <1> SUFFICES ASSUME Init PROVE BaseInv
    OBVIOUS
  <1>1. /\ inst = [i \in Id |-> NoInst] /\ NoInst \in Instance /\ Sound(NoInst)
        /\ ~NoInst.live /\ ~NoInst.enabled /\ NoInst.data = "none" /\ NoInst.old = 0
    <2>1. (CHOOSE p \in Pair : TRUE) \in Pair /\ 0 \in 0 .. MaxPhase
      BY InstancesAssumption
    <2>2. NoInst \in Instance /\ ~NoInst.live /\ ~NoInst.enabled /\ NoInst.data = "none"
          /\ NoInst.old = 0 /\ NoInst.users = {} /\ NoInst.gusers = {} /\ ~NoInst.pdata
          /\ ~NoInst.phasepd
      BY <2>1 DEF NoInst, Instance, Histogram
    <2>3. Sound(NoInst)
      BY <2>2 DEF Sound, Idle
    <2> QED
      BY <2>2, <2>3 DEF Init
  <1>2. /\ val = [i \in Id |-> "none"] /\ parents = [i \in Id |-> <<>>]
        /\ inbox = [c \in Client |-> <<>>] /\ nextId = 1 /\ nreq = 0 /\ phase = 0
        /\ numCurr = 0 /\ numGlobal = 0 /\ rate = "unset" /\ failed = FALSE
        /\ persistentData \in BOOLEAN /\ cphase = [c \in Client |-> NoPhase] /\ ended = {}
        /\ pend = [c \in Client |-> {}] /\ hold = [c \in Client |-> {}]
        /\ again = [c \in Client |-> {}] /\ life = [c \in Client |-> "open"] /\ crossed = {}
    BY DEF Init
  <1>3. InstanceInv /\ OnePerPair
    BY <1>1, <1>2 DEF InstanceInv, OnePerPair
  <1>4. CountInv
    <2>1. Active = {} /\ Enabled = {}
      BY <1>1 DEF Active, Enabled
    <2> QED
      BY <1>2, <2>1, FS_EmptySet DEF CountInv
  <1>5. HandleInv
    BY <1>2 DEF HandleInv
  <1>6. TypeOK
    <2>1. parents \in [Id -> Seq([client : Client, phase : 0 .. NoPhase])]
      <3>1. <<>> \in Seq([client : Client, phase : 0 .. NoPhase])
        OBVIOUS
      <3> QED
        BY <1>2, <3>1
    <2>2. inbox \in [Client -> Seq(Answers \union Notices)]
      <3>1. <<>> \in Seq(Answers \union Notices)
        OBVIOUS
      <3> QED
        BY <1>2, <3>1
    <2>3. numCurr \in 0 .. Cardinality(Pair)
      BY <1>2, InstancesAssumption, FS_CardinalityType
    <2>4. /\ cphase \in [Client -> 0 .. NoPhase] /\ nextId \in 1 .. MaxId + 1
          /\ nreq \in 0 .. MaxReq /\ phase \in 0 .. MaxPhase
      BY <1>2, InstancesAssumption DEF NoPhase
    <2>5. inst \in [Id -> Instance]
      BY <1>1
    <2> QED
      BY <1>2, <2>1, <2>2, <2>3, <2>4, <2>5 DEF TypeOK
  <1>7. OnlyVisisExit
    BY <1>2 DEF OnlyVisisExit, Client
  <1> QED
    BY <1>3, <1>4, <1>5, <1>6, <1>7 DEF BaseInv

(* A step that changes nothing keeps BaseInv.                               *)
LEMMA BaseStutter == BaseInv /\ UNCHANGED vars => BaseInv'
  <1> SUFFICES ASSUME BaseInv, UNCHANGED vars PROVE BaseInv'
    OBVIOUS
  <1>1. /\ UNCHANGED <<persistentData, phase, dm, requests>>
        /\ UNCHANGED <<cphase, ended, pend, hold, again, life, inbox, crossed>>
    BY DEF vars, clients
  <1>2. ClientTypes' /\ MailInv'
    BY <1>1, BaseParts DEF ClientTypes, OnlyVisisExit, MailInv
  <1> QED
    BY <1>1, <1>2, SameBase

(* Every step keeps BaseInv, and the data that is to be kept.               *)
LEMMA BaseNext ==
    ASSUME BaseInv, Next
    PROVE  BaseInv' /\ KeptAll
  <1>1. CASE \E c \in Client, p \in Pair : Enable(c, p) \/ CancelSubRequest(c, p)
    BY <1>1, EnableBase, CancelBase
  <1>2. CASE \E c \in Client, id \in Id : InActivateFilter(c, id) \/ StopMetricResource(c, id)
    BY <1>2, InActivateBase, StopBase
  <1>3. CASE \E c \in Client : Begin(c) \/ Receive(c) \/ Quit(c) \/ Exit(c)
    <2> SUFFICES ASSUME NEW c \in Client, Begin(c) \/ Receive(c) \/ Quit(c) \/ Exit(c)
                 PROVE  BaseInv' /\ KeptAll
      BY <1>3
    <2>1. CASE Begin(c) \/ Quit(c)
      BY <2>1, BeginBase, QuitBase
    <2>2. CASE Receive(c)
      BY <2>2, ReceiveVisiBase, ReceivePCBase, HearOfPhaseBase DEF Receive
    <2>3. CASE Exit(c)
      <3>1. CASE DestroyPerformanceStream(c)
        BY <3>1, DestroyBase
      <3>2. CASE DisableOnExit(c)
        BY <3>2, DisableOnExitBase
      <3> QED
        BY <2>3, <3>1, <3>2 DEF Exit
    <2> QED
      BY <2>1, <2>2, <2>3
  <1>4. CASE \E id \in Id, ok \in BOOLEAN : Answer(id, ok)
    BY <1>4, AnswerBase
  <1>5. CASE StartPhase
    BY <1>5, StartPhaseBase
  <1> QED
    BY <1>1, <1>2, <1>3, <1>4, <1>5 DEF Next

(* BaseInv holds in every reachable state.                                  *)
LEMMA BaseAlways == Spec => []BaseInv
  <1>1. BaseInv /\ [Next]_vars => BaseInv'
    BY BaseNext, BaseStutter
  <1> QED
    BY <1>1, BaseInit, PTL DEF Spec

-----------------------------------------------------------------------------
(* The theorems                                                             *)

(* Every variable keeps its type; in particular there are never more active *)
(* histograms of the current phase than metric-focus pairs.                 *)
THEOREM InstancesTypes == Spec => []TypeOK
  <1>1. BaseInv => TypeOK
    BY DEF BaseInv
  <1> QED
    BY <1>1, BaseAlways, PTL

(* num_curr_hists counts the active histograms of the current phase exactly *)
(* and num_global_hists at least the enabled instances, so the assertions   *)
(* of DMdisableRoutine on the counters never fail.                          *)
THEOREM CountsCorrect == Spec => []CountsFit
  <1>1. BaseInv => CountsFit
    BY DEF BaseInv, CountInv, CountsFit, Active, Enabled
  <1> QED
    BY <1>1, BaseAlways, PTL

(* The daemons sample at the bucket width of the current phase exactly as   *)
(* long as it has an active histogram, else at that of the global phase.    *)
THEOREM RateCorrect == Spec => []RateFits
  <1>1. BaseInv => RateFits
    <2> SUFFICES ASSUME BaseInv PROVE RateFits
      OBVIOUS
    <2>1. /\ CountInv /\ numCurr \in Nat /\ numGlobal \in Nat
          /\ Active \in SUBSET Id /\ Enabled \in SUBSET Id
      BY DEF BaseInv, TypeOK, Active, Enabled
    <2>2. IsFiniteSet(Active) /\ IsFiniteSet(Enabled)
      BY <2>1, HandlesFinite
    <2>3. /\ Cardinality(Active) \in Nat /\ (Cardinality(Active) = 0 <=> Active = {})
          /\ Cardinality(Enabled) \in Nat /\ (Cardinality(Enabled) = 0 <=> Enabled = {})
      BY <2>2, FS_EmptySet, FS_CardinalityType
    <2>4. Active # {} => numCurr > 0
      BY <2>1, <2>3 DEF CountInv
    <2>5. Active = {} => numCurr = 0
      BY <2>1, <2>3 DEF CountInv
    <2>6. Enabled # {} => numGlobal > 0
      BY <2>1, <2>3 DEF CountInv
    <2>7. Active # {} <=> \E id \in Id : inst[id].data = "active"
      BY DEF Active
    <2>8. Enabled # {} <=> \E id \in Id : inst[id].enabled
      BY DEF Enabled
    <2> QED
      BY <2>1, <2>4, <2>5, <2>6, <2>7, <2>8 DEF CountInv, RateFits
  <1> QED
    BY <1>1, BaseAlways, PTL

(* While an instance's data is flagged to be kept, no step of any client,   *)
(* of a late decision or of a phase start loses it.                         *)
THEOREM DataIsKept == Spec => DataKept
  <1> DEFINE Keeps == \A id \in Id :
                 /\ inst[id].pdata /\ inst'[id].pdata =>
                       /\ inst[id].gdata # "none" => inst'[id].gdata # "none"
                       /\ inst'[id].old >= inst[id].old
                       /\ inst[id].data # "none" =>
                             inst'[id].data # "none" \/ inst'[id].old > inst[id].old
                 /\ inst[id].phasepd /\ inst'[id].phasepd /\ inst[id].data # "none" =>
                       inst'[id].data # "none"
  <1>1. KeptAll => Keeps
    BY DEF KeptAll, Kept
  <1>2. BaseInv /\ [Next]_vars => [Keeps]_vars
    <2> HIDE DEF Keeps
    <2> QED
      BY <1>1, BaseNext
  <1>3. DataKept <=> [][Keeps]_vars
    BY PTL DEF DataKept
  <1> HIDE DEF Keeps
  <1> QED
    BY <1>2, <1>3, BaseAlways, PTL DEF Spec
=============================================================================
