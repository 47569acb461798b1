---------------------------- MODULE DataPathProofs ----------------------------
(* Proofs about the data path, DataPath.tla: what the bins of a histogram   *)
(* have after any number of folds, that a visi is told of every fold, and   *)
(* that what it shows is of the time it is shown for.                       *)
(*                                                                          *)
(* The data manager's part, DMInv.  HistInv says of every histogram that a  *)
(* bin has exactly the data kept of its time span, and that all data kept   *)
(* are of a time there are bins for.  A fold keeps it because the span of a *)
(* bin of the doubled width is the union of two spans of the old (Span-     *)
(* Halves), an interval is added to the bins whose spans meet it            *)
(* (SpanOfInterval), and the folds before it make its end fit (FoldCountIs).*)
(* The invariant holds whether or not the histograms have the same width.   *)
(*                                                                          *)
(* The flow to the visi, FlowInv.  The folds in the mailbox are in          *)
(* ascending order and lead from the width the visi thread was last told to *)
(* the data manager's (OrderedFolds): so each is news to the thread, and    *)
(* once none is left the visi has the current width.  For the first         *)
(* instance of a visi the width comes from the response instead, hence the  *)
(* part about the responses.                                                *)
(*                                                                          *)
(* The visi's side, GridInv: what is buffered and shown is of instances and *)
(* in bins that there are.  Last CellsInv, for what is shown: while the     *)
(* width of the visi is low, each message will find it with a width that    *)
(* low and the folds before the message give (WidthAt), and has data for    *)
(* bins of that width (WaySound).  Each step appends sound messages at the  *)
(* end (WayAppend) or takes the first (WayTail), and a fold of the grid is  *)
(* again a union of two spans.  WaySound speaks of the instances the visi   *)
(* will have when it gets the message, as data of others are ignored.       *)
(*                                                                          *)
(* The recursive functions of the model are reached through lemmas that     *)
(* state their values (DoubledIs, FoldedIs, DataIs, SelectedIs) and         *)
(* induction is over sets of numbers (NatSetInduction).                     *)
EXTENDS DataPath, FiniteSetTheorems, SequenceTheorems, WellFoundedInduction, TLAPS

(* A set of numbers that is not empty has a least one.                     *)
LEMMA LeastOne ==
    ASSUME NEW T \in SUBSET Nat, T # {}
    PROVE  \E n \in T : \A k \in T : n <= k
  <1>1. PICK x \in T : \A y \in T : ~(<<y, x>> \in OpToRel(<, Nat))
    BY NatLessThanWellFounded, WFMin
  <1>2. ASSUME NEW y \in T PROVE x <= y
    <2>1. x \in Nat /\ y \in Nat
      OBVIOUS
    <2>2. ~(y < x)
      BY <1>1, <2>1 DEF OpToRel
    <2> QED
      BY <2>1, <2>2
  <1> QED
    BY <1>2

(* Induction over a set: a set that has 0, and the successor of each       *)
(* number it has, has all numbers.                                         *)
LEMMA NatSetInduction ==
    ASSUME NEW P, 0 \in P, \A n \in P \intersect Nat : n + 1 \in P
    PROVE  Nat \subseteq P
  <1> DEFINE T == Nat \ P
  <1>1. CASE T # {}
    <2>1. PICK n \in T : \A k \in T : n <= k
      BY <1>1, LeastOne
    <2>2. n - 1 \in Nat /\ n - 1 \in P
      BY <2>1
    <2>3. n - 1 + 1 \in P
      BY <2>2
    <2> QED
      BY <2>1, <2>2, <2>3
  <1> QED
    BY <1>1

(* A bounded set of integers that is not empty has a greatest one.         *)
LEMMA MaxIs ==
    ASSUME NEW T \in SUBSET Int, T # {}, NEW bound \in Int, \A t \in T : t <= bound
    PROVE  Max(T) \in T /\ \A t \in T : t <= Max(T)
  <1> DEFINE U == {bound - t : t \in T}
  <1>1. U \in SUBSET Nat /\ U # {}
    <2>1. \A t \in T : bound - t \in Nat
      OBVIOUS
    <2> QED
      BY <2>1
  <1>2. PICK u \in U : \A v \in U : u <= v
    BY <1>1, LeastOne
  <1>3. PICK x \in T : u = bound - x
    BY <1>2
  <1>4. ASSUME NEW t \in T PROVE x >= t
    <2>1. bound - t \in U
      OBVIOUS
    <2>2. bound - x <= bound - t
      BY <1>2, <1>3, <2>1
    <2> QED
      BY <2>2
  <1>5. Max(T) \in T /\ \A t \in T : Max(T) >= t
    BY <1>4 DEF Max
  <1>6. \A t \in T : t <= Max(T)
    BY <1>5
  <1> QED
    BY <1>5, <1>6

(* A set of numbers has a least one that Min chooses.                      *)
LEMMA MinIs ==
    ASSUME NEW T \in SUBSET Nat, T # {}
    PROVE  Min(T) \in T /\ \A t \in T : Min(T) <= t
  <1>1. \E n \in T : \A k \in T : n =< k
    BY LeastOne
  <1> QED
    BY <1>1 DEF Min

(* g[k] is F applied k times to x, up to k = n.                            *)
IsIterated(g, S, F, x, n) ==
    g \in [0 .. n -> S] /\ g[0] = x /\ \A k \in 1 .. n : g[k] = F[g[k - 1]]

(* g[k] is F applied k times to x, for every k.                            *)
IsIteratedOn(g, S, F, x) ==
    g \in [Nat -> S] /\ g[0] = x /\ \A k \in Nat \ {0} : g[k] = F[g[k - 1]]

(* A function can be iterated.                                             *)
LEMMA Iterates ==
    ASSUME NEW S, NEW F \in [S -> S], NEW x \in S, NEW n \in Nat
    PROVE  \E g : IsIterated(g, S, F, x, n)
  <1> DEFINE Is(g, k) == /\ g \in [0 .. k -> S] /\ g[0] = x
                         /\ \A i \in 1 .. k : g[i] = F[g[i - 1]]
             P == {k \in Nat : \E g : Is(g, k)}
  <1>1. 0 \in P
    <2>1. Is([i \in 0 .. 0 |-> x], 0)
      OBVIOUS
    <2> QED
      BY <2>1
  <1>2. ASSUME NEW k \in P \intersect Nat PROVE k + 1 \in P
    <2>1. PICK g : Is(g, k)
      OBVIOUS
    <2> DEFINE h == [i \in 0 .. k + 1 |-> IF i = k + 1 THEN F[g[k]] ELSE g[i]]
    <2>2. F[g[k]] \in S /\ \A i \in 0 .. k : g[i] \in S
      BY <2>1
    <2>3. h \in [0 .. k + 1 -> S]
      BY <2>2
    <2>4. h[k + 1] = F[g[k]] /\ \A i \in 0 .. k : h[i] = g[i]
      OBVIOUS
    <2> HIDE DEF h
    <2>5. h[0] = x
      BY <2>1, <2>4
    <2>6. ASSUME NEW i \in 1 .. k + 1 PROVE h[i] = F[h[i - 1]]
      <3>1. CASE i = k + 1
        BY <2>4, <3>1
      <3>2. CASE i # k + 1
        <4>1. i \in 1 .. k /\ i \in 0 .. k /\ i - 1 \in 0 .. k
          BY <3>2
        <4> QED
          BY <2>1, <2>4, <4>1
      <3> QED
        BY <3>1, <3>2
    <2> QED
      BY <2>3, <2>5, <2>6
  <1>3. n \in P
    <2> HIDE DEF P
    <2> QED
      BY <1>1, <1>2, NatSetInduction
  <1> QED
    BY <1>3 DEF IsIterated

(* Also without an end.                                                    *)
LEMMA IteratesOn ==
    ASSUME NEW S, NEW F \in [S -> S], NEW x \in S
    PROVE  \E g : IsIteratedOn(g, S, F, x)
  <1> DEFINE Is(g, n) == /\ g \in [0 .. n -> S] /\ g[0] = x
                         /\ \A i \in 1 .. n : g[i] = F[g[i - 1]]
             part(n) == CHOOSE g : Is(g, n)
             all == [n \in Nat |-> part(n)[n]]
  <1>1. ASSUME NEW n \in Nat PROVE Is(part(n), n)
    <2>1. PICK g : IsIterated(g, S, F, x, n)
      BY Iterates
    <2>2. Is(g, n)
      BY <2>1 DEF IsIterated
    <2> HIDE DEF Is
    <2> QED
      BY <2>2
  <1> HIDE DEF part
  <1>2. ASSUME NEW n \in Nat, NEW k \in 0 .. n PROVE part(n)[k] = part(k)[k]
    <2> DEFINE P == {i \in Nat : i <= k => part(n)[i] = part(k)[i]}
    <2>1. k \in Nat
      OBVIOUS
    <2>2. Is(part(n), n) /\ Is(part(k), k)
      BY <1>1, <2>1
    <2>3. 0 \in P
      BY <2>2
    <2>4. ASSUME NEW i \in P \intersect Nat PROVE i + 1 \in P
      <3>1. CASE i + 1 <= k
        <4>1. i + 1 \in 1 .. n /\ i + 1 \in 1 .. k /\ (i + 1) - 1 = i /\ i <= k
          BY <2>1, <3>1
        <4>2. part(n)[i + 1] = F[part(n)[i]] /\ part(k)[i + 1] = F[part(k)[i]]
          BY <2>2, <4>1
        <4> QED
          BY <4>1, <4>2
      <3> QED
        BY <3>1
    <2>5. k \in P
      <3> HIDE DEF P
      <3> QED
        BY <2>1, <2>3, <2>4, NatSetInduction
    <2> QED
      BY <2>1, <2>5
  <1>3. all \in [Nat -> S]
    <2>1. \A n \in Nat : part(n)[n] \in S
      BY <1>1
    <2> QED
      BY <2>1
  <1>4. all[0] = x
    BY <1>1
  <1>5. ASSUME NEW k \in Nat \ {0} PROVE all[k] = F[all[k - 1]]
    <2>1. k \in 1 .. k /\ k - 1 \in 0 .. k /\ k - 1 \in Nat
      OBVIOUS
    <2>2. part(k)[k] = F[part(k)[k - 1]]
      BY <1>1, <2>1
    <2>3. part(k)[k - 1] = part(k - 1)[k - 1]
      BY <1>2, <2>1
    <2> QED
      BY <2>1, <2>2, <2>3
  <1>6. IsIteratedOn(all, S, F, x)
    BY <1>3, <1>4, <1>5 DEF IsIteratedOn
  <1> QED
    BY <1>6

(* Doubled grows faster than its argument.                                 *)
LEMMA DoubledIs ==
    /\ Doubled[0] = 1
    /\ \A k \in Nat \ {0} : Doubled[k] = 2 * Doubled[k - 1]
    /\ \A k \in Nat : Doubled[k] \in Nat /\ Doubled[k] > k
  <1> DEFINE F == [n \in Nat |-> 2 * n]
             Def(f) == [k \in Nat |-> IF k = 0 THEN 1 ELSE 2 * f[k - 1]]
  <1>1. F \in [Nat -> Nat] /\ 1 \in Nat
    OBVIOUS
  <1>2. PICK g : IsIteratedOn(g, Nat, F, 1)
    <2> HIDE DEF F
    <2> QED
      BY <1>1, IteratesOn
  <1>3. g = Def(g)
    <2>1. ASSUME NEW k \in Nat PROVE g[k] = IF k = 0 THEN 1 ELSE 2 * g[k - 1]
      <3>1. CASE k # 0
        <4>1. k - 1 \in Nat /\ g[k - 1] \in Nat
          BY <1>2, <3>1 DEF IsIteratedOn
        <4> QED
          BY <1>2, <3>1, <4>1 DEF IsIteratedOn
      <3> QED
        BY <1>2, <3>1 DEF IsIteratedOn
    <2> QED
      BY <1>2, <2>1 DEF IsIteratedOn
  <1>4. Doubled = CHOOSE f : f = Def(f)
    BY DEF Doubled
  <1>5. Doubled = Def(Doubled)
    <2> HIDE DEF Def
    <2> QED
      BY <1>3, <1>4
  <1>6. /\ Doubled[0] = 1
        /\ \A k \in Nat \ {0} : Doubled[k] = 2 * Doubled[k - 1]
    <2>1. \A k \in Nat : Def(Doubled)[k] = IF k = 0 THEN 1 ELSE 2 * Doubled[k - 1]
      OBVIOUS
    <2> HIDE DEF Def
    <2> QED
      BY <1>5, <2>1
  <1> DEFINE P == {k \in Nat : Doubled[k] \in Nat /\ Doubled[k] > k}
  <1>7. 0 \in P
    BY <1>6
  <1>8. ASSUME NEW k \in P \intersect Nat PROVE k + 1 \in P
    <2>1. Doubled[k + 1] = 2 * Doubled[k]
      BY <1>6
    <2> QED
      BY <2>1
  <1>9. Nat \subseteq P
    <2> HIDE DEF P
    <2> QED
      BY <1>7, <1>8, NatSetInduction
  <1> QED
    BY <1>6, <1>9

(* Multiplication by a number keeps the order.                             *)
LEMMA TimesOrder ==
    ASSUME NEW a \in Int, NEW b \in Int, NEW w \in Nat
    PROVE  a <= b => a * w <= b * w
  <1>1. ASSUME a <= b PROVE a * w <= b * w
    <2>1. b - a \in Nat
      BY <1>1
    <2>2. (b - a) * w >= 0
      BY <2>1
    <2>3. (b - a) * w = b * w - a * w
      OBVIOUS
    <2> QED
      BY <2>2, <2>3
  <1> QED
    BY <1>1

(* A quotient and what is left of the number.                              *)
LEMMA Quotient ==
    ASSUME NEW a \in Nat, NEW w \in Nat \ {0}
    PROVE  /\ a \div w \in Nat
           /\ (a \div w) * w <= a /\ a < ((a \div w) + 1) * w
  <1>1. a \div w \in Int /\ a = w * (a \div w) + (a % w) /\ a % w \in 0 .. w - 1
    OBVIOUS
  <1>2. a \div w >= 0
    <2>1. SUFFICES ASSUME a \div w <= -1 PROVE FALSE
      BY <1>1
    <2>2. (a \div w) * w <= (-1) * w
      BY <1>1, <2>1, TimesOrder
    <2> QED
      BY <1>1, <2>2
  <1>3. (a \div w) * w = w * (a \div w) /\ ((a \div w) + 1) * w = w * (a \div w) + w
    BY <1>1
  <1> QED
    BY <1>1, <1>2, <1>3

(* The two halves of the span of a bin of twice the width.                 *)
LEMMA SpanHalves ==
    ASSUME NEW b \in Nat, NEW w \in Nat
    PROVE  Span(b, 2 * w) = Span(2 * b, w) \union Span(2 * b + 1, w)
  <1>1. PICK p \in Nat : p = b * w
    OBVIOUS
  <1>2. /\ b * (2 * w) = 2 * p /\ (b + 1) * (2 * w) = 2 * p + 2 * w
        /\ (2 * b) * w = 2 * p /\ (2 * b + 1) * w = 2 * p + w
        /\ ((2 * b + 1) + 1) * w = 2 * p + 2 * w
    BY <1>1
  <1> QED
    BY <1>2 DEF Span

(* The span of a bin beyond the histogram has no time of it.               *)
LEMMA SpanBeyond ==
    ASSUME NEW n \in Nat, NEW b \in Nat, n <= b, NEW w \in Nat, NEW u \in Span(b, w)
    PROVE  u > n * w
  <1>1. n * w <= b * w /\ n * w \in Int /\ b * w \in Int
    BY TimesOrder
  <1> QED
    BY <1>1 DEF Span

(* The bins of an interval are the ones its data is of.                    *)
LEMMA SpanOfInterval ==
    ASSUME NEW start \in Nat, NEW end \in Nat, NEW w \in Nat \ {0}, NEW b \in Nat,
           NEW u \in Span(b, w), start < u, u <= end
    PROVE  b \in (start \div w) .. (end \div w)
  <1> DEFINE first == start \div w
             last == end \div w
  <1>1. first \in Nat /\ last \in Nat /\ first * w <= start /\ end < (last + 1) * w
    BY Quotient
  <1>2. b * w < u /\ u <= (b + 1) * w /\ u \in Int
    BY DEF Span
  <1> HIDE DEF first, last
  <1>3. first <= b
    <2>1. SUFFICES ASSUME b + 1 <= first PROVE FALSE
      BY <1>1
    <2>2. (b + 1) * w <= first * w
      BY <1>1, <2>1, TimesOrder
    <2> QED
      BY <1>1, <1>2, <2>2
  <1>4. b <= last
    <2>1. SUFFICES ASSUME last + 1 <= b PROVE FALSE
      BY <1>1
    <2>2. (last + 1) * w <= b * w
      BY <1>1, <2>1, TimesOrder
    <2> QED
      BY <1>1, <1>2, <2>2
  <1> QED
    BY <1>1, <1>3, <1>4 DEF first, last

-----------------------------------------------------------------------------
(* The invariant of the data manager's part.                               *)

(* A histogram, with the times whose data its bins have.                   *)
HistType ==
    [exists : BOOLEAN, active : BOOLEAN, foldOnInactive : BOOLEAN, width : Nat \ {0},
     bins : [Bin -> SUBSET (0 .. MaxTime)], lastBin : Bin \union {-1}]

(* The interval of an instance that is to be aggregated next.              *)
IntvlType == [start : 0 .. MaxTime, width : Nat, since : 0 .. MaxTime]

(* The types of what the data manager keeps.                               *)
DMTypeOK ==
    /\ hist \in [MI -> HistType]
    /\ globalBucketSize \in Nat \ {0} /\ lastGlobalBin \in Bin /\ globalWidth \in Nat \ {0}
    /\ intvl \in [MI -> IntvlType]
    /\ users \in SUBSET MI /\ others \in SUBSET MI
    /\ kept \in [MI -> SUBSET (0 .. MaxTime)]

(* The bins of histogram h have the data k, all of time it has bins for.   *)
BinsOK(h, k) ==
    /\ \A b \in Bin : h.bins[b] \ {0} = k \intersect Span(b, h.width)
    /\ k \subseteq 1 .. (numBins * h.width)

(* A histogram that exists has the data k, and folds when the others do;   *)
(* one that does not has the first width.                                  *)
HistOK(h, k) ==
    /\ h.exists => BinsOK(h, k) /\ (h.active \/ h.foldOnInactive)
    /\ h.active => h.exists
    /\ ~h.exists => h.width = MinWidth

(* Every histogram has the data that were kept of its instance; an         *)
(* instance with users has an active one.                                  *)
HistInv ==
    /\ \A m \in MI : HistOK(hist[m], kept[m])
    /\ \A m \in Used : hist[m].active

(* The histograms that can come of the ones there are by folds.            *)
Hists ==
    {hs \in [MI -> HistType] :
        \A i \in MI : /\ HistOK(hs[i], kept[i])
                      /\ hs[i].exists = hist[i].exists /\ hs[i].active = hist[i].active}

(* What the assumption on the constants says, conjunct by conjunct.        *)
LEMMA NumBins ==
    /\ numBins \in Nat /\ numBins > 1 /\ numBins \div 2 \in Nat /\ numBins \div 2 > 0
    /\ numBins = 2 * (numBins \div 2) /\ MinWidth \in Nat \ {0}
    /\ MaxTime \in Nat /\ Persistent \subseteq MI /\ IsFiniteSet(MI)
  BY DataPathAssumption

(* A fold keeps what a histogram says.                                     *)
LEMMA FoldKeeps ==
    ASSUME NEW h \in HistType, NEW k, HistOK(h, k), h.exists
    PROVE  /\ Fold(h) \in HistType /\ HistOK(Fold(h), k)
           /\ Fold(h).exists /\ Fold(h).active = h.active /\ Fold(h).width = 2 * h.width
  <1> DEFINE w == h.width
             half == numBins \div 2
             bins == [b \in Bin |-> IF b < half THEN h.bins[2 * b] \union h.bins[2 * b + 1]
                                    ELSE NaN]
             filled == {b \in Bin : bins[b] # NaN}
             last == IF filled = {} THEN 0 ELSE Max(filled)
             g == Fold(h)
  <1>1. /\ h.bins \in [Bin -> SUBSET (0 .. MaxTime)] /\ w \in Nat \ {0}
        /\ h.exists \in BOOLEAN /\ h.active \in BOOLEAN /\ h.foldOnInactive \in BOOLEAN
    BY DEF HistType
  <1>2. half \in Nat /\ half > 0 /\ numBins = 2 * half /\ numBins \in Nat
    BY NumBins
  <1>3. g = [h EXCEPT !.width = 2 * @, !.bins = bins, !.lastBin = last]
    BY DEF Fold
  <1> HIDE DEF half
  <1>4. \A b \in Bin : b < half => 2 * b \in Bin /\ 2 * b + 1 \in Bin
    BY <1>2 DEF Bin
  <1>5. bins \in [Bin -> SUBSET (0 .. MaxTime)]
    BY <1>1, <1>4 DEF NaN
  <1>6. last \in Bin
    <2>1. CASE filled = {}
      BY <1>2, <2>1 DEF Bin
    <2>2. CASE filled # {}
      <3>1. filled \in SUBSET Int /\ \A b \in filled : b <= numBins
        BY <1>2 DEF Bin
      <3>2. Max(filled) \in filled
        <4>1. numBins \in Int
          BY <1>2
        <4> HIDE DEF filled, bins
        <4> QED
          BY <2>2, <3>1, <4>1, MaxIs, Zenon
      <3>3. last = Max(filled) /\ filled \subseteq Bin
        BY <2>2
      <3> HIDE DEF filled, last
      <3> QED
        BY <3>2, <3>3
    <2> QED
      BY <2>1, <2>2
  <1> HIDE DEF last
  <1>7. /\ g.exists = h.exists /\ g.active = h.active /\ g.foldOnInactive = h.foldOnInactive
        /\ g.width = 2 * w /\ g.bins = bins /\ g.lastBin = last
        /\ g \in HistType
    <2>1. 2 * w \in Nat \ {0}
      BY <1>1
    <2> HIDE DEF bins
    <2> QED
      BY <1>1, <1>3, <1>5, <1>6, <2>1 DEF HistType
  <1>8. BinsOK(h, k) /\ (h.active \/ h.foldOnInactive)
    BY DEF HistOK
  <1>9. ASSUME NEW b \in Bin PROVE bins[b] \ {0} = k \intersect Span(b, 2 * w)
    <2>1. b \in Nat /\ b < 2 * half
      BY <1>2 DEF Bin
    <2>2. CASE b < half
      <3>1. Span(b, 2 * w) = Span(2 * b, w) \union Span(2 * b + 1, w)
        BY <1>1, <2>1, SpanHalves
      <3>2. /\ h.bins[2 * b] \ {0} = k \intersect Span(2 * b, w)
            /\ h.bins[2 * b + 1] \ {0} = k \intersect Span(2 * b + 1, w)
        BY <1>4, <1>8, <2>2 DEF BinsOK
      <3>3. bins[b] = h.bins[2 * b] \union h.bins[2 * b + 1]
        BY <2>2
      <3> QED
        BY <3>1, <3>2, <3>3
    <2>3. CASE ~(b < half)
      <3>1. bins[b] = {}
        BY <2>3 DEF NaN
      <3>2. ASSUME NEW u \in Span(b, 2 * w) PROVE u > half * (2 * w)
        <4>1. 2 * w \in Nat /\ half <= b
          BY <1>1, <1>2, <2>1, <2>3
        <4> QED
          BY <1>2, <2>1, <4>1, SpanBeyond
      <3>3. half * (2 * w) = numBins * w
        BY <1>1, <1>2
      <3>4. \A u \in k : u \in Int /\ u <= numBins * w
        BY <1>8 DEF BinsOK
      <3>5. numBins * w \in Int /\ \A u \in Span(b, 2 * w) : u \in Int
        BY <1>1, <1>2 DEF Span
      <3> HIDE DEF bins
      <3>6. \A u \in k : u \notin Span(b, 2 * w)
        BY <3>2, <3>3, <3>4, <3>5
      <3> QED
        BY <3>1, <3>6
    <2> QED
      BY <2>2, <2>3
  <1>10. k \subseteq 1 .. (numBins * (2 * w))
    <2>1. numBins * w \in Nat /\ numBins * (2 * w) = 2 * (numBins * w)
      BY <1>1, <1>2
    <2>2. k \subseteq 1 .. (numBins * w)
      BY <1>8 DEF BinsOK
    <2> QED
      BY <2>1, <2>2
  <1>11. BinsOK(g, k)
    <2> HIDE DEF bins
    <2> QED
      BY <1>7, <1>9, <1>10 DEF BinsOK
  <1> QED
    BY <1>7, <1>8, <1>11 DEF HistOK

(* So does a fold of all histograms that start at the same time.           *)
LEMMA FoldAllKeeps ==
    ASSUME NEW hs \in Hists, NEW w \in Nat
    PROVE  FoldAll(hs, w) \in Hists
  <1> DEFINE f == FoldAll(hs, w)
  <1>1. hs \in [MI -> HistType]
    BY DEF Hists
  <1>2. ASSUME NEW i \in MI
        PROVE  /\ f[i] \in HistType /\ HistOK(f[i], kept[i])
               /\ f[i].exists = hist[i].exists /\ f[i].active = hist[i].active
    <2>1. /\ hs[i] \in HistType /\ HistOK(hs[i], kept[i])
          /\ hs[i].exists = hist[i].exists /\ hs[i].active = hist[i].active
      BY DEF Hists
    <2>2. f[i] = IF Folds(hs[i], w) THEN Fold(hs[i]) ELSE hs[i]
      BY DEF FoldAll
    <2>3. CASE Folds(hs[i], w)
      <3>1. hs[i].exists
        BY <2>3 DEF Folds
      <3>2. Fold(hs[i]).exists = hs[i].exists
        <4>1. hs[i].exists \in BOOLEAN /\ Fold(hs[i]).exists \in BOOLEAN
          BY <2>1, <3>1, FoldKeeps DEF HistType
        <4> QED
          BY <2>1, <3>1, <4>1, FoldKeeps
      <3> QED
        BY <2>1, <2>2, <2>3, <3>1, <3>2, FoldKeeps
    <2>4. CASE ~Folds(hs[i], w)
      BY <2>1, <2>2, <2>4
    <2> QED
      BY <2>3, <2>4
  <1>3. f = [i \in MI |-> f[i]]
    BY DEF FoldAll
  <1>4. f \in [MI -> HistType]
    <2> HIDE DEF f
    <2> QED
      BY <1>2, <1>3
  <1> QED
    BY <1>2, <1>4 DEF Hists

(* Repeated folds keep what the histograms say.                            *)
LEMMA FoldedIs ==
    ASSUME DMTypeOK, HistInv, NEW m \in MI, NEW count \in Nat
    PROVE  /\ DOMAIN Folded(m, count) = 0 .. count
           /\ \A k \in 0 .. count : Folded(m, count)[k] \in Hists
           /\ Folded(m, count)[0] = hist
           /\ \A k \in 1 .. count :
                  Folded(m, count)[k] =
                      FoldAll(Folded(m, count)[k - 1], Folded(m, count)[k - 1][m].width)
  <1> DEFINE F == [hs \in Hists |-> FoldAll(hs, hs[m].width)]
             Def(f) == [k \in 0 .. count |-> IF k = 0 THEN hist
                                             ELSE FoldAll(f[k - 1], f[k - 1][m].width)]
             folded == Folded(m, count)
  <1>1. \A hs \in Hists : hs[m].width \in Nat
    <2>1. \A hs \in Hists : hs[m] \in HistType
      BY DEF Hists
    <2> QED
      BY <2>1 DEF HistType
  <1>2. F \in [Hists -> Hists]
    BY <1>1, FoldAllKeeps
  <1>3. hist \in Hists
    BY DEF DMTypeOK, HistInv, Hists
  <1>4. PICK g : IsIterated(g, Hists, F, hist, count)
    <2> HIDE DEF F
    <2> QED
      BY <1>2, <1>3, Iterates
  <1>5. g \in [0 .. count -> Hists] /\ g[0] = hist /\ \A k \in 1 .. count : g[k] = F[g[k - 1]]
    <2> HIDE DEF F
    <2> QED
      BY <1>4 DEF IsIterated
  <1>6. g = Def(g)
    <2>1. ASSUME NEW k \in 0 .. count
          PROVE g[k] = IF k = 0 THEN hist ELSE FoldAll(g[k - 1], g[k - 1][m].width)
      <3>1. CASE k # 0
        <4>1. k \in 1 .. count /\ k - 1 \in 0 .. count
          BY <3>1
        <4>2. g[k - 1] \in Hists /\ g[k] = F[g[k - 1]]
          BY <1>5, <4>1
        <4> QED
          BY <3>1, <4>2
      <3> QED
        BY <1>5, <3>1
    <2> QED
      BY <1>5, <2>1
  <1>7. folded = CHOOSE f : f = Def(f)
    BY DEF Folded
  <1>8. folded = Def(folded)
    <2> HIDE DEF Def
    <2> QED
      BY <1>6, <1>7
  <1> HIDE DEF folded
  <1>9. DOMAIN folded = 0 .. count
    <2>1. DOMAIN Def(folded) = 0 .. count
      OBVIOUS
    <2> HIDE DEF Def
    <2> QED
      BY <1>8, <2>1
  <1>10. \A k \in 0 .. count :
            folded[k] = IF k = 0 THEN hist ELSE FoldAll(folded[k - 1], folded[k - 1][m].width)
    <2>1. \A k \in 0 .. count :
            Def(folded)[k] = IF k = 0 THEN hist ELSE FoldAll(folded[k - 1], folded[k - 1][m].width)
      OBVIOUS
    <2> HIDE DEF Def
    <2> QED
      BY <1>8, <2>1
  <1>11. folded[0] = hist
    BY <1>10
  <1>12. ASSUME NEW k \in 1 .. count
         PROVE folded[k] = FoldAll(folded[k - 1], folded[k - 1][m].width)
    BY <1>10
  <1> DEFINE P == {k \in Nat : k <= count => folded[k] \in Hists}
  <1>13. 0 \in P
    BY <1>3, <1>11
  <1>14. ASSUME NEW k \in P \intersect Nat PROVE k + 1 \in P
    <2>1. CASE k + 1 <= count
      <3>1. k + 1 \in 1 .. count /\ (k + 1) - 1 = k /\ folded[k] \in Hists
        BY <2>1
      <3>2. folded[k + 1] = FoldAll(folded[k], folded[k][m].width)
        BY <1>12, <3>1
      <3>3. folded[k + 1] \in Hists
        BY <1>1, <3>1, <3>2, FoldAllKeeps
      <3> QED
        BY <3>3
    <2> QED
      BY <2>1
  <1>15. Nat \subseteq P
    <2> HIDE DEF P
    <2> QED
      BY <1>13, <1>14, NatSetInduction
  <1>16. \A k \in 0 .. count : folded[k] \in Hists
    BY <1>15
  <1> QED
    BY <1>9, <1>11, <1>12, <1>16 DEF folded

(* Each of them doubles the width of the instance that folds.              *)
LEMMA FoldedWidth ==
    ASSUME DMTypeOK, HistInv, NEW m \in MI, hist[m].active, NEW count \in Nat
    PROVE  \A k \in 0 .. count : Folded(m, count)[k][m].width = hist[m].width * Doubled[k]
  <1> DEFINE folded == Folded(m, count)
             P == {k \in Nat : k <= count => folded[k][m].width = hist[m].width * Doubled[k]}
  <1>1. /\ folded[0] = hist
        /\ \A k \in 0 .. count : folded[k] \in Hists
        /\ \A k \in 1 .. count : folded[k] = FoldAll(folded[k - 1], folded[k - 1][m].width)
    BY FoldedIs
  <1> HIDE DEF folded
  <1>2. hist[m].width \in Nat
    <2>1. hist[m] \in HistType
      BY DEF DMTypeOK
    <2> QED
      BY <2>1 DEF HistType
  <1>3. 0 \in P
    <2>1. Doubled[0] = 1
      BY DoubledIs
    <2> QED
      BY <1>1, <1>2, <2>1
  <1>4. ASSUME NEW k \in P \intersect Nat PROVE k + 1 \in P
    <2>1. CASE k + 1 <= count
      <3> DEFINE h == folded[k][m]
      <3>1. k + 1 \in 1 .. count /\ k \in 0 .. count /\ (k + 1) - 1 = k
            /\ h.width = hist[m].width * Doubled[k]
        BY <2>1
      <3>2. folded[k + 1] = FoldAll(folded[k], h.width)
        BY <1>1, <3>1
      <3>3. h \in HistType /\ HistOK(h, kept[m]) /\ h.active
        <4>1. folded[k] \in Hists
          BY <1>1, <3>1
        <4> QED
          BY <4>1 DEF Hists
      <3>4. h.exists /\ h.width \in Nat \ {0}
        BY <3>3 DEF HistOK, HistType
      <3>5. Folds(h, h.width)
        BY <3>3, <3>4 DEF Folds
      <3>6. folded[k + 1][m] = Fold(h)
        BY <3>2, <3>5 DEF FoldAll
      <3>7. folded[k + 1][m].width = 2 * h.width
        BY <3>3, <3>4, <3>6, FoldKeeps
      <3>8. Doubled[k + 1] = 2 * Doubled[k] /\ Doubled[k] \in Nat
        <4>1. k \in Nat /\ k + 1 \in Nat \ {0}
          OBVIOUS
        <4> HIDE DEF P
        <4> QED
          BY <3>1, <4>1, DoubledIs
      <3>9. 2 * (hist[m].width * Doubled[k]) = hist[m].width * (2 * Doubled[k])
        BY <1>2, <3>8
      <3> HIDE DEF h
      <3>10. folded[k + 1][m].width = hist[m].width * Doubled[k + 1]
        BY <3>1, <3>7, <3>8, <3>9
      <3> QED
        BY <3>10
    <2> QED
      BY <2>1
  <1>5. Nat \subseteq P
    <2> HIDE DEF P
    <2> QED
      BY <1>3, <1>4, NatSetInduction
  <1>6. \A k \in 0 .. count : folded[k][m].width = hist[m].width * Doubled[k]
    BY <1>5
  <1> QED
    BY <1>6 DEF folded

(* There are enough folds to make room for the end of an interval.         *)
LEMMA FoldCountIs ==
    ASSUME DMTypeOK, NEW m \in MI, NEW end \in 0 .. MaxTime
    PROVE  /\ FoldCount(m, end) \in Nat
           /\ end < numBins * hist[m].width * Doubled[FoldCount(m, end)]
  <1> DEFINE room(k) == numBins * hist[m].width * Doubled[k]
             T == {k \in Nat : end < room(k)}
             Fits(k) == end < room(k) /\ \A i \in 0 .. k - 1 : end >= room(i)
  <1>1. hist[m].width \in Nat \ {0} /\ MaxTime \in Nat
    <2>1. hist[m] \in HistType
      BY DEF DMTypeOK
    <2> QED
      BY <2>1, NumBins DEF HistType
  <1>2. PICK c \in Nat \ {0} : c = numBins * hist[m].width
    <2>1. numBins * hist[m].width \in Nat /\ 1 * hist[m].width <= numBins * hist[m].width
      BY <1>1, NumBins, TimesOrder
    <2> QED
      BY <1>1, <2>1
  <1>3. \A k \in Nat : room(k) = c * Doubled[k] /\ room(k) \in Nat
    BY <1>2, DoubledIs
  <1>4. end < room(MaxTime)
    <2>1. Doubled[MaxTime] \in Nat /\ Doubled[MaxTime] > MaxTime
      BY <1>1, DoubledIs
    <2>2. 1 * Doubled[MaxTime] <= c * Doubled[MaxTime]
      BY <1>2, <2>1, TimesOrder
    <2>3. room(MaxTime) = c * Doubled[MaxTime] /\ room(MaxTime) \in Nat
      BY <1>1, <1>3
    <2> HIDE DEF room
    <2> QED
      BY <1>1, <2>1, <2>2, <2>3
  <1> HIDE DEF room
  <1>5. PICK k \in T : \A i \in T : k <= i
    <2>1. T \in SUBSET Nat /\ MaxTime \in T
      BY <1>1, <1>4
    <2> HIDE DEF T
    <2> QED
      BY <2>1, LeastOne
  <1>6. k \in 0 .. MaxTime
    <2>1. MaxTime \in T
      BY <1>1, <1>4
    <2> QED
      BY <1>1, <1>5, <2>1
  <1>7. Fits(k)
    <2>1. ASSUME NEW i \in 0 .. k - 1 PROVE end >= room(i)
      <3>1. i \in Nat /\ ~(k <= i)
        BY <1>6
      <3>2. i \notin T
        BY <1>5, <3>1
      <3> QED
        BY <1>3, <3>1, <3>2
    <2> QED
      BY <1>5, <2>1
  <1>8. FoldCount(m, end) = CHOOSE i \in 0 .. MaxTime : Fits(i)
    BY DEF FoldCount, room
  <1>9. FoldCount(m, end) \in 0 .. MaxTime /\ Fits(FoldCount(m, end))
    <2> HIDE DEF Fits
    <2> QED
      BY <1>6, <1>7, <1>8
  <1> QED
    BY <1>1, <1>9 DEF room

(* A new histogram has a width.                                            *)
LEMMA FirstWidthIs ==
    ASSUME DMTypeOK
    PROVE  FirstWidth \in Nat \ {0}
  <1> DEFINE spanLen == globalBucketSize * lastGlobalBin
             room(k) == MinWidth * Doubled[k] * numBins
             T == {k \in Nat : room(k) >= spanLen}
             Fits(k) == room(k) >= spanLen /\ \A i \in 0 .. k - 1 : room(i) < spanLen
  <1>1. spanLen \in Nat
    <2>1. globalBucketSize \in Nat /\ lastGlobalBin \in Nat
      BY DEF DMTypeOK, Bin
    <2> QED
      BY <2>1
  <1>2. MinWidth \in Nat \ {0} /\ numBins \in Nat \ {0}
    BY NumBins
  <1>3. \A k \in Nat : MinWidth * Doubled[k] \in Nat /\ room(k) \in Nat
    BY <1>2, DoubledIs
  <1> HIDE DEF spanLen
  <1>4. room(spanLen) >= spanLen
    <2>1. Doubled[spanLen] \in Nat /\ Doubled[spanLen] > spanLen
      BY <1>1, DoubledIs
    <2>2. 1 * Doubled[spanLen] <= MinWidth * Doubled[spanLen]
      BY <1>2, <2>1, TimesOrder
    <2>3. 1 * (MinWidth * Doubled[spanLen]) <= numBins * (MinWidth * Doubled[spanLen])
      BY <1>1, <1>2, <1>3, TimesOrder
    <2>4. room(spanLen) = numBins * (MinWidth * Doubled[spanLen])
      BY <1>1, <1>2, <1>3
    <2> HIDE DEF room
    <2> QED
      BY <1>1, <1>2, <1>3, <2>1, <2>2, <2>3, <2>4
  <1> HIDE DEF room
  <1>5. PICK k \in T : \A i \in T : k <= i
    <2>1. T \in SUBSET Nat /\ spanLen \in T
      BY <1>1, <1>4
    <2> HIDE DEF T
    <2> QED
      BY <2>1, LeastOne
  <1>6. k \in 0 .. spanLen
    <2>1. spanLen \in T
      BY <1>1, <1>4
    <2> QED
      BY <1>1, <1>5, <2>1
  <1>7. Fits(k)
    <2>1. ASSUME NEW i \in 0 .. k - 1 PROVE room(i) < spanLen
      <3>1. i \in Nat /\ ~(k <= i)
        BY <1>6
      <3>2. i \notin T
        BY <1>5, <3>1
      <3> QED
        BY <1>1, <1>3, <3>1, <3>2
    <2> QED
      BY <1>5, <2>1
  <1> DEFINE chosen == CHOOSE i \in 0 .. spanLen : Fits(i)
  <1>8. ComputedWidth = MinWidth * Doubled[chosen]
    BY DEF ComputedWidth, room, spanLen
  <1>9. chosen \in 0 .. spanLen
    <2> HIDE DEF Fits
    <2> QED
      BY <1>6, <1>7
  <1> HIDE DEF chosen
  <1>10. ComputedWidth \in Nat \ {0}
    <2>1. chosen \in Nat
      BY <1>1, <1>9
    <2>2. Doubled[chosen] \in Nat \ {0}
      BY <2>1, DoubledIs
    <2>3. 1 * Doubled[chosen] <= MinWidth * Doubled[chosen]
      BY <1>2, <2>2, TimesOrder
    <2> QED
      BY <1>2, <1>8, <2>2, <2>3
  <1>11. ASSUME Active # {} PROVE hist[CHOOSE i \in Active : TRUE].width \in Nat \ {0}
    <2>1. (CHOOSE i \in Active : TRUE) \in MI
      BY <1>11 DEF Active
    <2>2. \A i \in MI : hist[i] \in HistType
      BY DEF DMTypeOK
    <2> QED
      BY <2>1, <2>2 DEF HistType
  <1> QED
    BY <1>10, <1>11 DEF FirstWidth

(* The first n values of f ascend.                                         *)
Ascending(f, n) == \A i, j \in 1 .. n : i < j => f[i] < f[j]

(* A finite set of numbers can be put in ascending order.                  *)
LEMMA AscendingExists ==
    ASSUME NEW T \in SUBSET Nat, IsFiniteSet(T)
    PROVE  \E f \in [1 .. Cardinality(T) -> T] : Ascending(f, Cardinality(T))
  <1> DEFINE Ordered(U) == \E f \in [1 .. Cardinality(U) -> U] : Ascending(f, Cardinality(U))
             P == {n \in Nat : \A U \in SUBSET Nat : IsFiniteSet(U) /\ Cardinality(U) = n
                                                     => Ordered(U)}
  <1>1. 0 \in P
    <2>1. ASSUME NEW U \in SUBSET Nat, IsFiniteSet(U), Cardinality(U) = 0 PROVE Ordered(U)
      <3>1. [i \in 1 .. 0 |-> 0] \in [1 .. 0 -> U]
        OBVIOUS
      <3>2. Ascending([i \in 1 .. 0 |-> 0], 0)
        BY DEF Ascending
      <3> QED
        BY <2>1, <3>1, <3>2
    <2> HIDE DEF Ordered
    <2> QED
      BY <2>1
  <1>2. ASSUME NEW n \in P \intersect Nat PROVE n + 1 \in P
    <2>1. ASSUME NEW U \in SUBSET Nat, IsFiniteSet(U), Cardinality(U) = n + 1
          PROVE  Ordered(U)
      <3>1. U # {}
        BY <2>1, FS_EmptySet
      <3>2. PICK x \in U : \A y \in U : x <= y
        BY <3>1, LeastOne
      <3> DEFINE V == U \ {x}
      <3>3. V \in SUBSET Nat /\ IsFiniteSet(V) /\ Cardinality(V) = n
        BY <2>1, FS_RemoveElement
      <3>4. Ordered(V)
        <4> HIDE DEF Ordered, V
        <4> QED
          BY <3>3
      <3>5. PICK f \in [1 .. n -> V] : Ascending(f, n)
        BY <3>3, <3>4
      <3> DEFINE g == [i \in 1 .. n + 1 |-> IF i = 1 THEN x ELSE f[i - 1]]
      <3>6. \A i \in 1 .. n + 1 : i # 1 => i - 1 \in 1 .. n /\ f[i - 1] \in V
        BY <3>5
      <3>7. g \in [1 .. n + 1 -> U]
        BY <3>6
      <3>8. ASSUME NEW i \in 1 .. n + 1, NEW j \in 1 .. n + 1, i < j PROVE g[i] < g[j]
        <4>1. j # 1 /\ j - 1 \in 1 .. n /\ f[j - 1] \in V /\ g[j] = f[j - 1]
          BY <3>6, <3>8
        <4>2. CASE i = 1
          <5>1. g[i] = x /\ g[j] \in U /\ g[j] # x /\ x \in Nat /\ g[j] \in Nat
            BY <4>1, <4>2
          <5>2. x <= g[j]
            BY <3>2, <5>1
          <5> HIDE DEF g
          <5> QED
            BY <5>1, <5>2
        <4>3. CASE i # 1
          <5>1. i - 1 \in 1 .. n /\ i - 1 < j - 1 /\ g[i] = f[i - 1]
            BY <3>6, <3>8, <4>3
          <5>2. f[i - 1] < f[j - 1]
            BY <3>5, <4>1, <5>1 DEF Ascending
          <5> HIDE DEF g
          <5> QED
            BY <4>1, <5>1, <5>2
        <4> QED
          BY <4>2, <4>3
      <3>9. Ascending(g, n + 1)
        <4> HIDE DEF g
        <4> QED
          BY <3>8 DEF Ascending
      <3> HIDE DEF g
      <3> QED
        BY <2>1, <3>7, <3>9
    <2> HIDE DEF Ordered
    <2> QED
      BY <2>1
  <1>3. Cardinality(T) \in P
    <2>1. Cardinality(T) \in Nat
      BY FS_CardinalityType
    <2> HIDE DEF P
    <2> QED
      BY <1>1, <1>2, <2>1, NatSetInduction
  <1> QED
    BY <1>3

(* The widths a stream is told of when instance m folds count times.       *)
Wider(m, count) ==
    {w \in {Folded(m, count)[k][i].width : k \in 1 .. count, i \in MI} : w > globalWidth}

(* They are told all, and in ascending order.                              *)
LEMMA ToldIs ==
    ASSUME DMTypeOK, HistInv, NEW m \in MI, NEW count \in Nat
    PROVE  /\ Told(m, count) \in Seq(Wider(m, count))
           /\ Wider(m, count) \in SUBSET Nat
           /\ Ascending(Told(m, count), Len(Told(m, count)))
           /\ \A w \in Wider(m, count) :
                  \E i \in 1 .. Len(Told(m, count)) : Told(m, count)[i] = w
  <1> DEFINE T == Wider(m, count)
             n == Cardinality(T)
             told == Told(m, count)
             all == {Folded(m, count)[k][i].width : k \in 1 .. count, i \in MI}
             f == [p \in (1 .. count) \X MI |-> Folded(m, count)[p[1]][p[2]].width]
  <1>1. \A k \in 1 .. count, i \in MI : Folded(m, count)[k][i].width \in Nat
    <2>1. \A k \in 1 .. count : Folded(m, count)[k] \in Hists
      <3>1. \A k \in 1 .. count : k \in 0 .. count
        OBVIOUS
      <3> QED
        BY <3>1, FoldedIs
    <2> QED
      BY <2>1 DEF Hists, HistType
  <1>2. all \in SUBSET Nat
    BY <1>1
  <1>3. IsFiniteSet(all)
    <2>1. IsFiniteSet((1 .. count) \X MI)
      <3>1. IsFiniteSet(1 .. count)
        BY FS_Interval
      <3> QED
        BY <3>1, NumBins, FS_Product
    <2>2. f \in [(1 .. count) \X MI -> all]
      OBVIOUS
    <2>3. ASSUME NEW w \in all PROVE \E p \in (1 .. count) \X MI : f[p] = w
      <3>1. PICK k \in 1 .. count, i \in MI : w = Folded(m, count)[k][i].width
        OBVIOUS
      <3>2. <<k, i>> \in (1 .. count) \X MI
        OBVIOUS
      <3>3. f[<<k, i>>] = w
        BY <3>1, <3>2
      <3> HIDE DEF f
      <3> QED
        BY <3>2, <3>3
    <2>4. f \in Surjection((1 .. count) \X MI, all)
      <3> HIDE DEF f, all
      <3> QED
        BY <2>2, <2>3 DEF Surjection
    <2> HIDE DEF f, all
    <2> QED
      BY <2>1, <2>4, FS_Surjection
  <1>4. T = {w \in all : w > globalWidth}
    BY DEF Wider
  <1> HIDE DEF all
  <1>5. T \in SUBSET Nat /\ IsFiniteSet(T)
    BY <1>2, <1>3, <1>4, FS_Subset
  <1>6. n \in Nat
    BY <1>5, FS_CardinalityType
  <1>7. told = CHOOSE t \in [1 .. n -> T] : Ascending(t, n)
    BY DEF Told, Wider, Ascending
  <1> HIDE DEF T, told
  <1>8. told \in [1 .. n -> T] /\ Ascending(told, n)
    <2>1. \E t \in [1 .. n -> T] : Ascending(t, n)
      BY <1>5, AscendingExists
    <2> QED
      BY <1>7, <2>1
  <1> HIDE DEF n
  <1>9. told \in Seq(T) /\ Len(told) = n
    BY <1>6, <1>8, IsASeq
  <1>10. told \in Injection(1 .. n, T)
    <2>1. ASSUME NEW i \in 1 .. n, NEW j \in 1 .. n, told[i] = told[j] PROVE i = j
      <3>1. told[i] \in Nat /\ told[j] \in Nat
        BY <1>5, <1>8
      <3>2. ~(i < j) /\ ~(j < i)
        BY <1>8, <2>1, <3>1 DEF Ascending
      <3> QED
        BY <1>6, <3>2
    <2> QED
      BY <1>8, <2>1 DEF Injection, IsInjective
  <1>11. told \in Surjection(1 .. n, T)
    <2>1. Cardinality(1 .. n) = n
      BY <1>6, FS_Interval
    <2>2. Cardinality(1 .. n) = Cardinality(T)
      BY <2>1 DEF n
    <2> QED
      BY <1>5, <1>10, <2>2, FS_Injection
  <1>12. \A w \in T : \E i \in 1 .. n : told[i] = w
    BY <1>11 DEF Surjection
  <1> QED
    BY <1>5, <1>8, <1>9, <1>12 DEF T, told

(* The invariant of the histograms.                                        *)
DMInv == DMTypeOK /\ HistInv

\* What addInterval makes of a histogram that has room for the interval.
FilledHist(h, start, end, units) ==
    [BucketValue(h, start, end, units) EXCEPT !.lastBin = end \div h.width]

(* A histogram that gets the data of an interval for which it has room.    *)
LEMMA BucketKeeps ==
    ASSUME NEW h \in HistType, NEW k \in SUBSET (0 .. MaxTime), HistOK(h, k), h.active,
           NEW start \in Nat, NEW end \in 0 .. MaxTime, end < numBins * h.width,
           NEW units \in SUBSET ((start + 1) .. end)
    PROVE  LET g == FilledHist(h, start, end, units)
           IN  /\ g \in HistType /\ HistOK(g, k \union units)
               /\ g.exists = h.exists /\ g.active = h.active /\ g.width = h.width
               /\ g.lastBin = end \div h.width /\ g.lastBin \in Bin
  <1> DEFINE w == h.width
             first == start \div w
             last == end \div w
             bins == [b \in Bin |->
                         IF b \in first .. last
                         THEN h.bins[b] \union {0} \union (units \intersect Span(b, w))
                         ELSE h.bins[b]]
             g == FilledHist(h, start, end, units)
  <1>1. /\ h.bins \in [Bin -> SUBSET (0 .. MaxTime)] /\ w \in Nat \ {0}
        /\ h.exists \in BOOLEAN /\ h.active \in BOOLEAN /\ h.foldOnInactive \in BOOLEAN
    BY DEF HistType
  <1>2. numBins \in Nat /\ MaxTime \in Nat /\ end \in Nat
    BY NumBins
  <1>3. g = [[h EXCEPT !.bins = bins] EXCEPT !.lastBin = last]
    BY DEF BucketValue, FilledHist
  <1>4. units \in SUBSET (0 .. MaxTime)
    BY <1>2
  <1>5. bins \in [Bin -> SUBSET (0 .. MaxTime)]
    <2> DEFINE D == 0 .. MaxTime
    <2>1. 0 \in D /\ units \in SUBSET D /\ h.bins \in [Bin -> SUBSET D]
      BY <1>1, <1>2, <1>4
    <2>2. \A b \in Bin : /\ h.bins[b] \in SUBSET D
                        /\ h.bins[b] \union {0} \union (units \intersect Span(b, w)) \in SUBSET D
      <3> HIDE DEF D
      <3> QED
        BY <2>1
    <2> HIDE DEF D, first, last
    <2>3. bins \in [Bin -> SUBSET D]
      BY <2>2
    <2> QED
      BY <2>3 DEF D
  <1>6. last \in Bin
    <2>1. last \in Nat /\ last * w <= end
      BY <1>1, <1>2, Quotient
    <2> HIDE DEF last
    <2>2. last < numBins
      <3>1. SUFFICES ASSUME numBins <= last PROVE FALSE
        BY <1>2, <2>1
      <3>2. numBins * w <= last * w
        BY <1>1, <1>2, <2>1, <3>1, TimesOrder
      <3>3. numBins * w \in Int /\ last * w \in Int /\ end < numBins * w
        BY <1>1, <1>2, <2>1
      <3> HIDE DEF w
      <3> QED
        BY <1>2, <2>1, <3>2, <3>3
    <2> QED
      BY <1>2, <2>1, <2>2 DEF Bin
  <1>7. /\ g.exists = h.exists /\ g.active = h.active /\ g.foldOnInactive = h.foldOnInactive
        /\ g.width = w /\ g.bins = bins /\ g.lastBin = last
        /\ g \in HistType
    <2> HIDE DEF bins, last
    <2> QED
      BY <1>1, <1>3, <1>5, <1>6 DEF HistType
  <1>8. h.exists /\ BinsOK(h, k)
    BY DEF HistOK
  <1>9. ASSUME NEW b \in Bin PROVE bins[b] \ {0} = (k \union units) \intersect Span(b, w)
    <2>1. b \in Nat
      BY <1>2 DEF Bin
    <2>2. h.bins[b] \ {0} = k \intersect Span(b, w)
      BY <1>8 DEF BinsOK
    <2>3. 0 \notin Span(b, w)
      <3>1. b * w \in Nat
        BY <1>1, <2>1
      <3> QED
        BY <3>1 DEF Span
    <2>4. CASE b \in first .. last
      <3>1. bins[b] = h.bins[b] \union {0} \union (units \intersect Span(b, w))
        BY <2>4
      <3> QED
        BY <2>2, <2>3, <3>1
    <2>5. CASE b \notin first .. last
      <3>1. bins[b] = h.bins[b]
        BY <2>5
      <3>2. ASSUME NEW u \in units, u \in Span(b, w) PROVE FALSE
        <4>1. start < u /\ u <= end
          BY <1>2
        <4> QED
          BY <1>1, <1>2, <2>1, <2>5, <3>2, <4>1, SpanOfInterval
      <3> QED
        BY <2>2, <3>1, <3>2
    <2> QED
      BY <2>4, <2>5
  <1>10. k \union units \subseteq 1 .. (numBins * w)
    <2>1. k \subseteq 1 .. (numBins * w)
      BY <1>8 DEF BinsOK
    <2>2. numBins * w \in Int
      BY <1>1, <1>2
    <2> HIDE DEF w
    <2>3. end < numBins * w
      BY DEF w
    <2> QED
      BY <1>2, <2>1, <2>2, <2>3
  <1>11. BinsOK(g, k \union units)
    <2> HIDE DEF bins, last, g
    <2> QED
      BY <1>7, <1>9, <1>10 DEF BinsOK
  <1>12. HistOK(g, k \union units)
    <2> HIDE DEF g
    <2> QED
      BY <1>7, <1>8, <1>11 DEF HistOK
  <1> QED
    BY <1>6, <1>7, <1>12

(* What an interval does to the data manager's part.                       *)
LEMMA AddIntervalDoes ==
    ASSUME DMInv, NEW m \in MI, hist[m].active, NEW start \in Nat, NEW end \in 0 .. MaxTime,
           NEW units \in SUBSET ((start + 1) .. end), AddInterval(m, start, end, units)
    PROVE  LET count == FoldCount(m, end)
               told == Told(m, count)
           IN  /\ count \in Nat
               /\ hist' \in [MI -> HistType]
               /\ \A i \in MI : /\ HistOK(hist'[i], kept'[i])
                                /\ hist'[i].active = hist[i].active
                                /\ hist'[i].exists = hist[i].exists
                                /\ hist'[i].width = Folded(m, count)[count][i].width
               /\ hist'[m].lastBin \in Bin
               /\ globalBucketSize' \in Nat \ {0} /\ lastGlobalBin' \in Bin
               /\ globalWidth' \in Nat \ {0}
               /\ kept' \in [MI -> SUBSET (0 .. MaxTime)]
  <1> DEFINE count == FoldCount(m, end)
             told == Told(m, count)
             folded == Folded(m, count)
             h == folded[count][m]
             g == FilledHist(h, start, end, units)
  <1>0. DMTypeOK /\ HistInv
    BY DEF DMInv
  <1>1. count \in Nat /\ end < numBins * hist[m].width * Doubled[count]
    BY <1>0, FoldCountIs
  <1>2. /\ hist' = [folded[count] EXCEPT ![m] = g]
        /\ globalBucketSize' = globalBucketSize * Doubled[count]
        /\ globalWidth' = IF told = <<>> THEN globalWidth ELSE told[Len(told)]
        /\ kept' = [kept EXCEPT ![m] = @ \union units]
    BY DEF AddInterval, FilledHist
  <1>3. lastGlobalBin' =
            Max({IF count > 0 THEN numBins \div 2 - 1 ELSE lastGlobalBin, g.lastBin}
                \union {hist'[i].lastBin : i \in Active})
    BY DEF AddInterval, FilledHist
  <1> HIDE DEF count
  <1>4. folded[count] \in Hists
    <2>1. count \in 0 .. count
      BY <1>1
    <2> QED
      BY <1>0, <1>1, <2>1, FoldedIs
  <1>5. /\ folded[count] \in [MI -> HistType]
        /\ \A i \in MI : /\ HistOK(folded[count][i], kept[i])
                         /\ folded[count][i].exists = hist[i].exists
                         /\ folded[count][i].active = hist[i].active
    BY <1>4 DEF Hists
  <1>6. h.width = hist[m].width * Doubled[count]
    <2>1. count \in 0 .. count
      BY <1>1
    <2> QED
      BY <1>0, <1>1, <2>1, FoldedWidth
  <1> HIDE DEF folded
  <1>7. end < numBins * h.width
    <2>1. hist[m].width \in Nat /\ Doubled[count] \in Nat /\ numBins \in Nat
      <3>1. hist[m] \in HistType
        BY <1>0 DEF DMTypeOK
      <3> QED
        BY <1>1, <3>1, NumBins, DoubledIs DEF HistType
    <2>2. numBins * (hist[m].width * Doubled[count]) = numBins * hist[m].width * Doubled[count]
      BY <2>1
    <2> QED
      BY <1>1, <1>6, <2>2
  <1>8. /\ h \in HistType /\ HistOK(h, kept[m]) /\ h.active
        /\ kept[m] \in SUBSET (0 .. MaxTime)
    BY <1>0, <1>5 DEF DMTypeOK
  <1> HIDE DEF h
  <1>9. /\ g \in HistType /\ HistOK(g, kept[m] \union units)
        /\ g.exists = h.exists /\ g.active = h.active /\ g.width = h.width /\ g.lastBin \in Bin
    <2>1. PICK k \in SUBSET (0 .. MaxTime) : k = kept[m]
      BY <1>8
    <2>2. PICK f \in HistType : f = h
      BY <1>8
    <2>3. end < numBins * f.width /\ HistOK(f, k) /\ f.active
      BY <1>7, <1>8, <2>1, <2>2
    <2>4. /\ FilledHist(f, start, end, units) \in HistType
          /\ HistOK(FilledHist(f, start, end, units), k \union units)
          /\ FilledHist(f, start, end, units).exists = f.exists
          /\ FilledHist(f, start, end, units).active = f.active
          /\ FilledHist(f, start, end, units).width = f.width
          /\ FilledHist(f, start, end, units).lastBin \in Bin
      BY <2>3, BucketKeeps
    <2> QED
      BY <2>1, <2>2, <2>4
  <1>10. kept[m] \union units \in SUBSET (0 .. MaxTime)
    <2>1. \A u \in units : u \in 0 .. MaxTime
      BY NumBins
    <2> QED
      BY <1>8, <2>1
  <1> HIDE DEF g
  <1>11. /\ kept \in [MI -> SUBSET (0 .. MaxTime)]
         /\ kept'[m] = kept[m] \union units /\ \A i \in MI \ {m} : kept'[i] = kept[i]
    BY <1>0, <1>2 DEF DMTypeOK
  <1>12. kept' \in [MI -> SUBSET (0 .. MaxTime)]
    BY <1>2, <1>10, <1>11
  <1>13. /\ hist' \in [MI -> HistType] /\ hist'[m] = g
         /\ \A i \in MI \ {m} : hist'[i] = folded[count][i]
    BY <1>2, <1>5, <1>9
  <1>14. ASSUME NEW i \in MI
         PROVE /\ HistOK(hist'[i], kept'[i])
               /\ hist'[i].active = hist[i].active /\ hist'[i].exists = hist[i].exists
               /\ hist'[i].width = folded[count][i].width
    <2>1. CASE i = m
      BY <1>5, <1>9, <1>11, <1>13, <2>1 DEF h
    <2>2. CASE i # m
      BY <1>5, <1>11, <1>13, <2>2
    <2> QED
      BY <2>1, <2>2
  <1>15. globalBucketSize' \in Nat \ {0}
    <2>1. globalBucketSize \in Nat \ {0} /\ Doubled[count] \in Nat \ {0}
      BY <1>0, <1>1, DoubledIs DEF DMTypeOK
    <2>2. 1 * Doubled[count] <= globalBucketSize * Doubled[count]
      BY <2>1, TimesOrder
    <2> QED
      BY <1>2, <2>1, <2>2
  <1>16. lastGlobalBin' \in Bin
    <2> DEFINE a == IF count > 0 THEN numBins \div 2 - 1 ELSE lastGlobalBin
               T == {a, g.lastBin} \union {hist'[i].lastBin : i \in Active}
    <2>1. a \in Bin
      <3>1. numBins \div 2 - 1 \in Bin
        BY NumBins DEF Bin
      <3> QED
        BY <1>0, <3>1 DEF DMTypeOK
    <2>2. \A i \in Active : hist'[i].lastBin \in Bin \union {-1}
      BY <1>13 DEF Active, HistType
    <2>3. T \subseteq Bin \union {-1} /\ a \in T
      BY <1>9, <2>1, <2>2
    <2> HIDE DEF T, a
    <2>4. T \in SUBSET Int /\ T # {} /\ numBins \in Int /\ \A t \in T : t <= numBins
      BY <2>3, NumBins DEF Bin
    <2>5. Max(T) \in T /\ a <= Max(T)
      BY <2>3, <2>4, MaxIs
    <2>6. Max(T) \in Bin
      <3>1. Max(T) # -1
        BY <2>1, <2>5, NumBins DEF Bin
      <3> QED
        BY <2>3, <2>5, <3>1
    <2> QED
      BY <1>3, <2>6 DEF T, a
  <1>17. globalWidth' \in Nat \ {0}
    <2>1. globalWidth \in Nat \ {0}
      BY <1>0 DEF DMTypeOK
    <2>2. told \in Seq(Wider(m, count)) /\ Wider(m, count) \in SUBSET Nat
      BY <1>0, <1>1, ToldIs
    <2>3. CASE told # <<>>
      <3>1. Len(told) \in 1 .. Len(told)
        <4> HIDE DEF told
        <4> QED
          BY <2>2, <2>3, EmptySeq, LenProperties
      <3>2. told[Len(told)] \in Wider(m, count)
        <4> HIDE DEF told
        <4> QED
          BY <2>2, <3>1, ElementOfSeq
      <3>3. told[Len(told)] \in Nat /\ told[Len(told)] > globalWidth
        BY <2>2, <3>2 DEF Wider
      <3> QED
        BY <1>2, <2>1, <2>3, <3>3
    <2> QED
      BY <1>2, <2>1, <2>3
  <1> QED
    BY <1>1, <1>9, <1>12, <1>13, <1>14, <1>15, <1>16, <1>17 DEF count, folded

(* The time that has been reported is a time of the run.                   *)
LEMMA NowIs ==
    ASSUME DMTypeOK, NEW m \in MI
    PROVE  Now \in Nat
  <1> DEFINE T == {intvl[i].start : i \in MI} \union {intvl[i].since : i \in MI}
  <1>1. \A i \in MI : intvl[i].start \in 0 .. MaxTime /\ intvl[i].since \in 0 .. MaxTime
    BY DEF DMTypeOK, IntvlType
  <1>2. T \subseteq 0 .. MaxTime /\ intvl[m].start \in T
    BY <1>1
  <1> HIDE DEF T
  <1>3. T \in SUBSET Int /\ T # {} /\ MaxTime \in Int /\ \A t \in T : t <= MaxTime
    BY <1>2, NumBins
  <1>4. Max(T) \in T
    BY <1>3, MaxIs
  <1> QED
    BY <1>2, <1>4, NumBins DEF Now, T

(* An instance that is opened has a histogram that is active.              *)
LEMMA OpenKeeps ==
    ASSUME DMInv, NEW m \in MI, NEW since \in 0 .. MaxTime, Open(m, since),
           users' \in SUBSET MI, others' \in SUBSET MI, Used' = Used \union {m}
    PROVE  DMInv'
  <1> DEFINE new == ~hist[m].exists
             h == hist'[m]
             a == IF new THEN [NoHist EXCEPT !.exists = TRUE, !.active = TRUE, !.width = FirstWidth]
                  ELSE [hist[m] EXCEPT !.active = TRUE, !.foldOnInactive = FALSE]
             v == IF new THEN [start |-> since, width |-> 0, since |-> since]
                  ELSE IF m \in Used THEN intvl[m] ELSE [intvl[m] EXCEPT !.since = since]
  <1>0. DMTypeOK /\ HistInv
    BY DEF DMInv
  <1>1. /\ hist \in [MI -> HistType] /\ intvl \in [MI -> IntvlType]
        /\ kept \in [MI -> SUBSET (0 .. MaxTime)]
        /\ globalBucketSize \in Nat \ {0} /\ lastGlobalBin \in Bin /\ globalWidth \in Nat \ {0}
    BY <1>0 DEF DMTypeOK
  <1>2. /\ hist' = [hist EXCEPT ![m] = a] /\ intvl' = [intvl EXCEPT ![m] = v]
        /\ kept' = [kept EXCEPT ![m] = IF new THEN {} ELSE kept[m]]
        /\ globalBucketSize' = globalBucketSize /\ lastGlobalBin' = lastGlobalBin
        /\ globalWidth' = globalWidth
    BY <1>1 DEF Open
  <1>3. FirstWidth \in Nat \ {0}
    BY <1>0, FirstWidthIs
  <1>4. a \in HistType /\ a.exists /\ a.active
    <2>1. CASE new
      <3>1. [b \in Bin |-> NaN] \in [Bin -> SUBSET (0 .. MaxTime)]
        BY DEF NaN
      <3> QED
        BY <1>3, <2>1, <3>1 DEF HistType, NoHist
    <2>2. CASE ~new
      <3>1. hist[m] \in HistType
        BY <1>1
      <3> QED
        BY <2>2, <3>1 DEF HistType
    <2> QED
      BY <2>1, <2>2
  <1>5. v \in IntvlType
    <2>1. intvl[m] \in IntvlType
      BY <1>1
    <2> QED
      BY <2>1 DEF IntvlType
  <1>6. HistOK(a, kept'[m])
    <2>1. CASE new
      <3>1. kept'[m] = {}
        BY <1>1, <1>2, <2>1
      <3>2. \A b \in Bin : a.bins[b] = {}
        BY <2>1 DEF NoHist, NaN
      <3>3. BinsOK(a, kept'[m])
        <4> HIDE DEF a
        <4> QED
          BY <3>1, <3>2 DEF BinsOK
      <3> HIDE DEF a
      <3> QED
        BY <1>4, <3>3 DEF HistOK
    <2>2. CASE ~new
      <3>1. HistOK(hist[m], kept[m]) /\ hist[m].exists /\ kept'[m] = kept[m]
        BY <1>0, <1>1, <1>2, <2>2 DEF HistInv
      <3>2. BinsOK(hist[m], kept[m])
        BY <3>1 DEF HistOK
      <3>3. a.bins = hist[m].bins /\ a.width = hist[m].width
        <4>1. hist[m] \in HistType
          BY <1>1
        <4> QED
          BY <2>2, <4>1 DEF HistType
      <3>4. BinsOK(a, kept'[m])
        <4> HIDE DEF a
        <4> QED
          BY <3>1, <3>2, <3>3 DEF BinsOK
      <3> HIDE DEF a
      <3> QED
        BY <1>4, <3>4 DEF HistOK
    <2> QED
      BY <2>1, <2>2
  <1> HIDE DEF a, v, new
  <1>7. /\ hist' \in [MI -> HistType] /\ hist'[m] = a
        /\ \A i \in MI \ {m} : hist'[i] = hist[i]
    BY <1>1, <1>2, <1>4
  <1>8. intvl' \in [MI -> IntvlType]
    BY <1>1, <1>2, <1>5
  <1>9. kept' \in [MI -> SUBSET (0 .. MaxTime)] /\ \A i \in MI \ {m} : kept'[i] = kept[i]
    BY <1>1, <1>2
  <1>10. DMTypeOK'
    BY <1>1, <1>2, <1>7, <1>8, <1>9 DEF DMTypeOK
  <1>11. ASSUME NEW i \in MI PROVE HistOK(hist'[i], kept'[i])
    <2>1. CASE i = m
      BY <1>6, <1>7, <2>1
    <2>2. CASE i # m
      BY <1>0, <1>7, <1>9, <2>2 DEF HistInv
    <2> QED
      BY <2>1, <2>2
  <1>12. ASSUME NEW i \in Used' PROVE hist'[i].active
    <2>1. CASE i = m
      BY <1>4, <1>7, <2>1
    <2>2. CASE i # m
      <3>1. i \in Used /\ i \in MI
        BY <1>0, <2>2 DEF DMTypeOK, Used
      <3> QED
        BY <1>0, <1>7, <2>2, <3>1 DEF HistInv
    <2> QED
      BY <2>1, <2>2
  <1> QED
    BY <1>10, <1>11, <1>12 DEF DMInv, HistInv

(* An instance that nobody uses any more has its data only if it persists. *)
LEMMA CloseKeeps ==
    ASSUME DMInv, NEW m \in MI, Close(m), UNCHANGED kept,
           users' \in SUBSET MI, others' \in SUBSET MI, Used' \subseteq Used \ {m}
    PROVE  DMInv'
  <1> DEFINE a == IF m \in Persistent
                  THEN [hist[m] EXCEPT !.active = FALSE, !.foldOnInactive = TRUE] ELSE NoHist
  <1>0. DMTypeOK /\ HistInv
    BY DEF DMInv
  <1>1. /\ hist \in [MI -> HistType] /\ hist[m] \in HistType /\ HistOK(hist[m], kept[m])
    BY <1>0 DEF DMTypeOK, HistInv
  <1>2. /\ hist' = [hist EXCEPT ![m] = a]
        /\ UNCHANGED <<globalBucketSize, lastGlobalBin, globalWidth, intvl>>
    BY <1>1 DEF Close
  <1>3. a \in HistType /\ HistOK(a, kept[m])
    <2>1. CASE m \in Persistent
      <3>1. /\ a \in HistType /\ ~a.active /\ a.foldOnInactive /\ a.exists = hist[m].exists
            /\ a.width = hist[m].width /\ a.bins = hist[m].bins
        BY <1>1, <2>1 DEF HistType
      <3> HIDE DEF a
      <3>2. BinsOK(hist[m], kept[m]) => BinsOK(a, kept[m])
        BY <3>1 DEF BinsOK
      <3> QED
        BY <1>1, <3>1, <3>2 DEF HistOK
    <2>2. CASE m \notin Persistent
      <3>1. [b \in Bin |-> NaN] \in [Bin -> SUBSET (0 .. MaxTime)]
        BY DEF NaN
      <3>2. NoHist \in HistType
        BY <3>1, NumBins DEF HistType, NoHist
      <3>3. HistOK(NoHist, kept[m])
        BY DEF HistOK, NoHist
      <3> QED
        BY <2>2, <3>2, <3>3
    <2> QED
      BY <2>1, <2>2
  <1> HIDE DEF a
  <1>4. /\ hist' \in [MI -> HistType] /\ hist'[m] = a
        /\ \A i \in MI \ {m} : hist'[i] = hist[i]
    BY <1>1, <1>2, <1>3
  <1>5. DMTypeOK'
    BY <1>0, <1>2, <1>4 DEF DMTypeOK
  <1>6. ASSUME NEW i \in MI PROVE HistOK(hist'[i], kept'[i])
    <2>1. CASE i = m
      BY <1>3, <1>4, <2>1
    <2>2. CASE i # m
      BY <1>0, <1>4, <2>2 DEF HistInv
    <2> QED
      BY <2>1, <2>2
  <1>7. ASSUME NEW i \in Used' PROVE hist'[i].active
    <2>1. i \in Used /\ i # m /\ i \in MI
      BY <1>0 DEF DMTypeOK, Used
    <2> QED
      BY <1>0, <1>4, <2>1 DEF HistInv
  <1> QED
    BY <1>5, <1>6, <1>7 DEF DMInv, HistInv

(* The interval that a used instance completes, and its data.              *)
LEMMA AggregateDoes ==
    ASSUME DMInv, NEW m \in MI, Aggregate(m)
    PROVE  LET start == intvl[m].start
               end == start + (IF intvl[m].width = 0 THEN globalWidth ELSE intvl[m].width)
               units == (Max({start, intvl[m].since}) + 1) .. end
           IN  /\ hist[m].active /\ start \in Nat /\ end \in 0 .. MaxTime /\ start <= end
               /\ units \in SUBSET ((start + 1) .. end)
               /\ AddInterval(m, start, end, units)
               /\ intvl' = [intvl EXCEPT ![m].start = end, ![m].width = globalWidth]
               /\ UNCHANGED <<subscribers, thread, visi, torn, odd>>
  <1> DEFINE start == intvl[m].start
             since == intvl[m].since
             end == start + (IF intvl[m].width = 0 THEN globalWidth ELSE intvl[m].width)
             units == (Max({start, since}) + 1) .. end
  <1>1. /\ m \in Used /\ end <= MaxTime /\ AddInterval(m, start, end, units)
        /\ intvl' = [intvl EXCEPT ![m].start = end, ![m].width = globalWidth]
        /\ UNCHANGED <<subscribers, thread, visi, torn, odd>>
    BY DEF Aggregate
  <1>2. hist[m].active
    BY <1>1 DEF DMInv, HistInv
  <1>3. start \in Nat /\ since \in Nat /\ intvl[m].width \in Nat /\ globalWidth \in Nat
    <2>1. intvl[m] \in IntvlType /\ globalWidth \in Nat
      BY DEF DMInv, DMTypeOK
    <2> QED
      BY <2>1 DEF IntvlType
  <1>4. end \in 0 .. MaxTime /\ start <= end
    <2> DEFINE width == IF intvl[m].width = 0 THEN globalWidth ELSE intvl[m].width
    <2>1. width \in Nat
      BY <1>3
    <2> HIDE DEF width, start
    <2>2. start + width \in Nat /\ start <= start + width
      BY <1>3, <2>1
    <2>3. end = start + width
      BY DEF width, start
    <2> HIDE DEF end
    <2> QED
      BY <1>1, <2>2, <2>3, NumBins
  <1> HIDE DEF start, since, end
  <1>5. Max({start, since}) \in Nat /\ start <= Max({start, since})
    <2> DEFINE T == {start, since}
    <2>1. T \in SUBSET Int /\ T # {} /\ start + since \in Int /\ \A t \in T : t <= start + since
      BY <1>3
    <2>2. T \subseteq Nat /\ start \in T
      BY <1>3
    <2> HIDE DEF T
    <2>3. Max(T) \in T /\ start <= Max(T)
      BY <2>1, <2>2, MaxIs
    <2> QED
      BY <2>2, <2>3 DEF T
  <1>6. units \in SUBSET ((start + 1) .. end)
    BY <1>3, <1>4, <1>5
  <1> QED
    BY <1>1, <1>2, <1>3, <1>4, <1>6 DEF start, since, end

(* Aggregating an interval keeps the invariant of the histograms: also     *)
(* when the interval does not fit and all histograms fold to make room     *)
(* for it.                                                                 *)
LEMMA AggregateKeeps ==
    ASSUME DMInv, NEW m \in MI, Aggregate(m)
    PROVE  DMInv'
  <1> DEFINE start == intvl[m].start
             end == start + (IF intvl[m].width = 0 THEN globalWidth ELSE intvl[m].width)
             units == (Max({start, intvl[m].since}) + 1) .. end
  <1>1. /\ hist[m].active /\ start \in Nat /\ end \in 0 .. MaxTime /\ start <= end
        /\ units \in SUBSET ((start + 1) .. end)
        /\ AddInterval(m, start, end, units)
        /\ intvl' = [intvl EXCEPT ![m].start = end, ![m].width = globalWidth]
        /\ UNCHANGED <<subscribers, thread, visi, torn, odd>>
    BY AggregateDoes
  <1> HIDE DEF start, end, units
  <1>2. /\ hist' \in [MI -> HistType]
        /\ \A i \in MI : HistOK(hist'[i], kept'[i]) /\ hist'[i].active = hist[i].active
        /\ globalBucketSize' \in Nat \ {0} /\ lastGlobalBin' \in Bin
        /\ globalWidth' \in Nat \ {0}
        /\ kept' \in [MI -> SUBSET (0 .. MaxTime)]
    BY <1>1, AddIntervalDoes
  <1>3. intvl' \in [MI -> IntvlType]
    <2>1. intvl \in [MI -> IntvlType] /\ intvl[m] \in IntvlType /\ globalWidth \in Nat
      BY DEF DMInv, DMTypeOK
    <2>2. [intvl[m] EXCEPT !.start = end, !.width = globalWidth] \in IntvlType
      BY <1>1, <2>1 DEF IntvlType
    <2>3. intvl' = [intvl EXCEPT ![m] = [intvl[m] EXCEPT !.start = end, !.width = globalWidth]]
      BY <1>1, <2>1 DEF IntvlType
    <2> QED
      BY <2>1, <2>2, <2>3
  <1>4. users' = users /\ others' = others /\ Used' = Used
    BY <1>1 DEF subscribers, Used
  <1>5. DMTypeOK'
    BY <1>2, <1>3, <1>4 DEF DMInv, DMTypeOK
  <1>6. HistInv'
    <2>1. \A i \in Used : i \in MI /\ hist[i].active
      BY DEF DMInv, HistInv, DMTypeOK, Used
    <2> QED
      BY <1>2, <1>4, <2>1 DEF HistInv
  <1> QED
    BY <1>5, <1>6 DEF DMInv

(* The invariant of the histograms holds before any instance is used.      *)
LEMMA DMInvInit == Init => DMInv
  <1> SUFFICES ASSUME Init PROVE DMInv
    OBVIOUS
  <1>1. NoHist \in HistType
    <2>1. [b \in Bin |-> NaN] \in [Bin -> SUBSET (0 .. MaxTime)]
      BY DEF NaN
    <2> QED
      BY <2>1, NumBins DEF HistType, NoHist
  <1>2. NoIntvl \in IntvlType
    BY NumBins DEF IntvlType, NoIntvl
  <1>3. 0 \in Bin
    BY NumBins DEF Bin
  <1>4. DMTypeOK
    BY <1>1, <1>2, <1>3, NumBins DEF Init, DMTypeOK
  <1>5. \A m \in MI : HistOK(hist[m], kept[m])
    BY DEF Init, HistOK, NoHist
  <1>6. Used = {}
    BY DEF Init, Used
  <1> QED
    BY <1>4, <1>5, <1>6 DEF DMInv, HistInv

(* A step that leaves the data manager's part as it is.                    *)
LEMMA DMInvUnchanged ==
    ASSUME DMInv, UNCHANGED <<dm, users, others, kept>>
    PROVE  DMInv'
  <1>1. Used' = Used
    BY DEF Used
  <1>2. UNCHANGED <<hist, globalBucketSize, lastGlobalBin, globalWidth, intvl>>
    BY DEF dm
  <1> QED
    BY <1>1, <1>2 DEF DMInv, DMTypeOK, HistInv

(* Every step of the data path keeps the invariant of the histograms.      *)
LEMMA DMInvNext ==
    ASSUME DMInv, [Next]_vars
    PROVE  DMInv'
  <1>0. users \in SUBSET MI /\ others \in SUBSET MI
    BY DEF DMInv, DMTypeOK
  <1>1. ASSUME NEW m \in MI, OpenOther(m) PROVE DMInv'
    <2>1. PICK since \in {Now, Now + 1} : since <= MaxTime /\ Open(m, since)
      BY <1>1 DEF OpenOther
    <2>2. since \in 0 .. MaxTime
      BY <2>1, NowIs, NumBins DEF DMInv
    <2>3. /\ others' = others \union {m} /\ users' = users
      BY <1>1 DEF OpenOther
    <2>4. users' \in SUBSET MI /\ others' \in SUBSET MI /\ Used' = Used \union {m}
      BY <1>0, <2>3 DEF Used
    <2> QED
      BY <2>1, <2>2, <2>4, OpenKeeps
  <1>2. ASSUME NEW m \in MI, CloseOther(m) PROVE DMInv'
    <2>1. /\ m \in others /\ others' = others \ {m} /\ users' = users /\ kept' = kept
          /\ IF m \in users THEN UNCHANGED dm ELSE Close(m)
      BY <1>2 DEF CloseOther
    <2>2. CASE m \in users
      <3>1. Used' = Used /\ users' \in SUBSET MI /\ others' \in SUBSET MI
        BY <1>0, <2>1, <2>2 DEF Used
      <3>2. UNCHANGED <<hist, globalBucketSize, lastGlobalBin, globalWidth, intvl>>
        BY <2>1, <2>2 DEF dm
      <3> QED
        BY <2>1, <3>1, <3>2 DEF DMInv, DMTypeOK, HistInv
    <2>3. CASE m \notin users
      <3>1. users' \in SUBSET MI /\ others' \in SUBSET MI /\ Used' \subseteq Used \ {m}
        BY <1>0, <2>1, <2>3 DEF Used
      <3> QED
        BY <2>1, <2>3, <3>1, CloseKeeps
    <2> QED
      BY <2>2, <2>3
  <1>3. ASSUME NEW m \in MI, Subscribe(m) PROVE DMInv'
    <2>1. PICK since \in {Now, Now + 1} : since <= MaxTime /\ Open(m, since)
      BY <1>3 DEF Subscribe
    <2>2. since \in 0 .. MaxTime
      BY <2>1, NowIs, NumBins DEF DMInv
    <2>3. /\ users' = users \union {m} /\ others' = others
      BY <1>3 DEF Subscribe
    <2>4. users' \in SUBSET MI /\ others' \in SUBSET MI /\ Used' = Used \union {m}
      BY <1>0, <2>3 DEF Used
    <2> QED
      BY <2>1, <2>2, <2>4, OpenKeeps
  <1>4. ASSUME NEW m \in MI, Aggregate(m) PROVE DMInv'
    BY <1>4, AggregateKeeps
  <1>5. ASSUME NEW m \in MI, GetSampleValues(m) PROVE DMInv'
    BY <1>5, DMInvUnchanged DEF GetSampleValues, subscribers
  <1>6. ASSUME NEW m \in MI, BulkDataTransfer(m) PROVE DMInv'
    BY <1>6, DMInvUnchanged DEF BulkDataTransfer, subscribers
  <1>7. ASSUME NEW m \in MI, StopMetricResource(m) PROVE DMInv'
    <2>1. /\ users' = users \ {m} /\ others' = others /\ kept' = kept
          /\ IF m \in others THEN UNCHANGED dm ELSE Close(m)
      BY <1>7 DEF StopMetricResource
    <2>2. CASE m \in others
      <3>1. Used' = Used /\ users' \in SUBSET MI /\ others' \in SUBSET MI
        BY <1>0, <2>1, <2>2 DEF Used
      <3>2. UNCHANGED <<hist, globalBucketSize, lastGlobalBin, globalWidth, intvl>>
        BY <2>1, <2>2 DEF dm
      <3> QED
        BY <2>1, <3>1, <3>2 DEF DMInv, DMTypeOK, HistInv
    <2>3. CASE m \notin others
      <3>1. users' \in SUBSET MI /\ others' \in SUBSET MI /\ Used' \subseteq Used \ {m}
        BY <1>0, <2>1, <2>3 DEF Used
      <3> QED
        BY <2>1, <2>3, <3>1, CloseKeeps
    <2> QED
      BY <2>2, <2>3
  <1>8. ASSUME EnableCallback PROVE DMInv'
    BY <1>8, DMInvUnchanged DEF EnableCallback, subscribers
  <1>9. ASSUME DataCallback PROVE DMInv'
    BY <1>9, DMInvUnchanged DEF DataCallback, subscribers
  <1>10. ASSUME FoldCallback PROVE DMInv'
    BY <1>10, DMInvUnchanged DEF FoldCallback, subscribers
  <1>11. ASSUME UNCHANGED vars PROVE DMInv'
    BY <1>11, DMInvUnchanged DEF vars, subscribers
  <1> QED
    BY <1>1, <1>2, <1>3, <1>4, <1>5, <1>6, <1>7, <1>8, <1>9, <1>10, <1>11 DEF Next

(* Histograms are typed, and whatever the folds, the first intervals and   *)
(* the changes of users: every bin of a histogram has exactly the data of  *)
(* its span that were kept, and only those (histDataType and foldAllHists  *)
(* of hist.C).                                                             *)
THEOREM HistogramsInvariant == Spec => []DMInv
  <1>1. Init => DMInv
    BY DMInvInit
  <1>2. DMInv /\ [Next]_vars => DMInv'
    BY DMInvNext
  <1> QED
    BY <1>1, <1>2, PTL DEF Spec

(* Each bin of an active histogram has exactly the data of its time span,  *)
(* for every number of bins, of instances and of folds: addInterval,       *)
(* bucketValue and fold put no data into a bin of other time and lose      *)
(* none.                                                                   *)
THEOREM BinsAreExact == Spec => []BinsExact
  <1>1. DMInv => BinsExact
    BY DEF DMInv, HistInv, HistOK, BinsOK, BinsExact
  <1> QED
    BY <1>1, HistogramsInvariant, PTL

(* A sample, a message and the parts of a sequence of messages.            *)
Entry == [mi : MI, bin : Bin, units : SUBSET (0 .. MaxTime)]

Message ==
    [kind : {"data"}, entries : Seq(Entry), width : {0}]
    \union [kind : {"fold"}, entries : {<<>>}, width : Nat]
    \union [kind : {"enabled"}, entries : Seq([mi : MI]), width : {0}]

(* The positions of the folds, and of the responses, in a sequence of      *)
(* messages.                                                               *)
FoldsOf(q) == {i \in DOMAIN q : q[i].kind = "fold"}

(* The folds in q lead from width low to width high.                       *)
OrderedFolds(q, low, high) ==
    /\ \A i \in FoldsOf(q) : low < q[i].width /\ q[i].width <= high
    /\ \A i, j \in FoldsOf(q) : i < j => q[i].width < q[j].width
    /\ \A i \in FoldsOf(q) : (\A j \in FoldsOf(q) : j <= i) => q[i].width = high

EnabledOf(q) == {i \in DOMAIN q : q[i].kind = "enabled"}

(* The responses in q are for different instances of S.                    *)
EnabledOK(q, S) ==
    /\ \A i \in EnabledOf(q) : q[i].entries[1].mi \in S
    /\ \A i, j \in EnabledOf(q) : i # j => q[i].entries[1].mi # q[j].entries[1].mi

(* The width in a message is a number.                                     *)
LEMMA MessageWidth == \A x \in Message : x.width \in Nat
  BY DEF Message

(* The positions of a sequence of messages that another one follows.       *)
LEMMA Positions ==
    ASSUME NEW S, NEW q \in Seq(S), NEW r \in Seq(S)
    PROVE  /\ q \o r \in Seq(S) /\ Len(q) \in Nat /\ Len(r) \in Nat
           /\ DOMAIN q = 1 .. Len(q) /\ DOMAIN r = 1 .. Len(r)
           /\ DOMAIN (q \o r) = 1 .. Len(q) + Len(r)
           /\ \A i \in 1 .. Len(q) : (q \o r)[i] = q[i]
           /\ \A i \in 1 .. Len(r) : (q \o r)[Len(q) + i] = r[i]
           /\ \A i \in 1 .. Len(q) + Len(r) : i \in 1 .. Len(q) \/ i - Len(q) \in 1 .. Len(r)
  <1>1. Len(q) \in Nat /\ Len(r) \in Nat /\ DOMAIN q = 1 .. Len(q) /\ DOMAIN r = 1 .. Len(r)
    BY LenProperties
  <1>2. /\ q \o r \in Seq(S) /\ Len(q \o r) = Len(q) + Len(r)
        /\ \A i \in 1 .. Len(q) + Len(r) :
               (q \o r)[i] = IF i <= Len(q) THEN q[i] ELSE r[i - Len(q)]
    BY ConcatProperties
  <1>3. DOMAIN (q \o r) = 1 .. Len(q) + Len(r)
    BY <1>2, LenProperties
  <1>4. PICK a \in Nat, b \in Nat : a = Len(q) /\ b = Len(r)
    BY <1>1
  <1>5. \A i \in 1 .. a : (q \o r)[i] = q[i]
    BY <1>2, <1>4
  <1>6. \A i \in 1 .. b : (q \o r)[a + i] = r[i]
    <2>1. ASSUME NEW i \in 1 .. b PROVE (q \o r)[a + i] = r[i]
      <3>1. a + i \in 1 .. a + b /\ ~(a + i <= a) /\ (a + i) - a = i
        BY <1>4
      <3> QED
        BY <1>2, <1>4, <3>1
    <2> QED
      BY <2>1
  <1>7. \A i \in 1 .. a + b : i \in 1 .. a \/ i - a \in 1 .. b
    BY <1>4
  <1> QED
    BY <1>1, <1>2, <1>3, <1>4, <1>5, <1>6, <1>7

(* What does not matter to the folds, or to the responses, can be added.   *)
LEMMA AppendNoFolds ==
    ASSUME NEW q \in Seq(Message), NEW r \in Seq(Message), FoldsOf(r) = {}
    PROVE  /\ FoldsOf(q \o r) = FoldsOf(q)
           /\ \A low, high : OrderedFolds(q, low, high) => OrderedFolds(q \o r, low, high)
  <1> DEFINE a == Len(q)
  <1>1. /\ Len(q) \in Nat /\ Len(r) \in Nat
        /\ DOMAIN q = 1 .. Len(q) /\ DOMAIN r = 1 .. Len(r)
        /\ DOMAIN (q \o r) = 1 .. Len(q) + Len(r)
        /\ \A i \in 1 .. Len(q) : (q \o r)[i] = q[i]
        /\ \A i \in 1 .. Len(r) : (q \o r)[Len(q) + i] = r[i]
        /\ \A i \in 1 .. Len(q) + Len(r) : i \in 1 .. Len(q) \/ i - Len(q) \in 1 .. Len(r)
    BY Positions
  <1>2. ASSUME NEW i \in FoldsOf(q \o r) PROVE i \in FoldsOf(q)
    <2>1. i \in 1 .. Len(q) + Len(r) /\ (q \o r)[i].kind = "fold"
      BY <1>1 DEF FoldsOf
    <2>2. CASE i \in 1 .. Len(q)
      BY <1>1, <2>1, <2>2 DEF FoldsOf
    <2>3. CASE i - Len(q) \in 1 .. Len(r)
      <3>1. (q \o r)[Len(q) + (i - Len(q))] = r[i - Len(q)]
        BY <1>1, <2>3
      <3>2. Len(q) + (i - Len(q)) = i
        BY <1>1, <2>1
      <3>3. i - Len(q) \in FoldsOf(r)
        BY <1>1, <2>1, <2>3, <3>1, <3>2 DEF FoldsOf
      <3> QED
        BY <3>3
    <2> QED
      BY <1>1, <2>1, <2>2, <2>3
  <1>3. ASSUME NEW i \in FoldsOf(q) PROVE i \in FoldsOf(q \o r) /\ (q \o r)[i] = q[i]
    <2>1. i \in 1 .. Len(q) /\ i \in 1 .. Len(q) + Len(r) /\ q[i].kind = "fold"
      BY <1>1 DEF FoldsOf
    <2> QED
      BY <1>1, <2>1 DEF FoldsOf
  <1>4. FoldsOf(q \o r) = FoldsOf(q)
    BY <1>2, <1>3
  <1>5. ASSUME NEW low, NEW high, OrderedFolds(q, low, high)
        PROVE  OrderedFolds(q \o r, low, high)
    BY <1>3, <1>4, <1>5 DEF OrderedFolds
  <1> QED
    BY <1>4, <1>5

(* Messages that are not responses change nothing about the responses of   *)
(* a mailbox they are put into.                                            *)
LEMMA AppendNoEnabled ==
    ASSUME NEW q \in Seq(Message), NEW r \in Seq(Message), EnabledOf(r) = {}
    PROVE  \A S : EnabledOK(q, S) => EnabledOK(q \o r, S)
  <1>1. /\ Len(q) \in Nat /\ Len(r) \in Nat
        /\ DOMAIN q = 1 .. Len(q) /\ DOMAIN r = 1 .. Len(r)
        /\ DOMAIN (q \o r) = 1 .. Len(q) + Len(r)
        /\ \A i \in 1 .. Len(q) : (q \o r)[i] = q[i]
        /\ \A i \in 1 .. Len(r) : (q \o r)[Len(q) + i] = r[i]
        /\ \A i \in 1 .. Len(q) + Len(r) : i \in 1 .. Len(q) \/ i - Len(q) \in 1 .. Len(r)
    BY Positions
  <1>2. ASSUME NEW i \in EnabledOf(q \o r) PROVE i \in EnabledOf(q) /\ (q \o r)[i] = q[i]
    <2>1. i \in 1 .. Len(q) + Len(r) /\ (q \o r)[i].kind = "enabled"
      BY <1>1 DEF EnabledOf
    <2>2. CASE i \in 1 .. Len(q)
      BY <1>1, <2>1, <2>2 DEF EnabledOf
    <2>3. CASE i - Len(q) \in 1 .. Len(r)
      <3>1. (q \o r)[Len(q) + (i - Len(q))] = r[i - Len(q)]
        BY <1>1, <2>3
      <3>2. Len(q) + (i - Len(q)) = i
        BY <1>1, <2>1
      <3>3. i - Len(q) \in EnabledOf(r)
        BY <1>1, <2>1, <2>3, <3>1, <3>2 DEF EnabledOf
      <3> QED
        BY <3>3
    <2> QED
      BY <1>1, <2>1, <2>2, <2>3
  <1>3. ASSUME NEW S, EnabledOK(q, S) PROVE EnabledOK(q \o r, S)
    <2> DEFINE s == q \o r
    <2>1. \A i \in EnabledOf(s) : i \in EnabledOf(q) /\ s[i] = q[i]
      BY <1>2
    <2> HIDE DEF s
    <2>2. EnabledOK(s, S)
      BY <1>3, <2>1 DEF EnabledOK
    <2> QED
      BY <2>2 DEF s
  <1> QED
    BY <1>3

(* Folds that go on from where the ones before them lead.                  *)
LEMMA AppendFolds ==
    ASSUME NEW q \in Seq(Message), NEW r \in Seq(Message), FoldsOf(r) # {},
           NEW low \in Nat, NEW mid \in Nat, NEW high \in Nat,
           OrderedFolds(q, low, mid), OrderedFolds(r, mid, high), low <= mid, mid <= high
    PROVE  FoldsOf(q \o r) # {} /\ OrderedFolds(q \o r, low, high)
  <1> DEFINE s == q \o r
  <1>1. /\ Len(q) \in Nat /\ Len(r) \in Nat
        /\ DOMAIN q = 1 .. Len(q) /\ DOMAIN r = 1 .. Len(r)
        /\ DOMAIN s = 1 .. Len(q) + Len(r)
        /\ \A i \in 1 .. Len(q) : s[i] = q[i]
        /\ \A i \in 1 .. Len(r) : s[Len(q) + i] = r[i]
        /\ \A i \in 1 .. Len(q) + Len(r) : i \in 1 .. Len(q) \/ i - Len(q) \in 1 .. Len(r)
    BY Positions
  <1> HIDE DEF s
  <1>2. PICK a \in Nat, b \in Nat : a = Len(q) /\ b = Len(r)
    BY <1>1
  <1>3. ASSUME NEW i \in FoldsOf(q) PROVE i \in 1 .. a /\ i \in FoldsOf(s) /\ s[i] = q[i]
    <2>1. i \in 1 .. a /\ i \in 1 .. a + b /\ q[i].kind = "fold"
      BY <1>1, <1>2 DEF FoldsOf
    <2> QED
      BY <1>1, <1>2, <2>1 DEF FoldsOf
  <1>4. ASSUME NEW i \in FoldsOf(r) PROVE i \in 1 .. b /\ a + i \in FoldsOf(s) /\ s[a + i] = r[i]
    <2>1. i \in 1 .. b /\ a + i \in 1 .. a + b /\ r[i].kind = "fold"
      BY <1>1, <1>2 DEF FoldsOf
    <2> QED
      BY <1>1, <1>2, <2>1 DEF FoldsOf
  <1>5. ASSUME NEW i \in FoldsOf(s)
        PROVE  /\ i \in 1 .. a + b
               /\ \/ i \in FoldsOf(q) /\ i <= a /\ s[i] = q[i]
                  \/ i - a \in FoldsOf(r) /\ i > a /\ s[i] = r[i - a]
    <2>1. i \in 1 .. a + b /\ s[i].kind = "fold"
      BY <1>1, <1>2 DEF FoldsOf
    <2>2. CASE i \in 1 .. a
      BY <1>1, <1>2, <2>1, <2>2 DEF FoldsOf
    <2>3. CASE i - a \in 1 .. b
      <3>1. s[a + (i - a)] = r[i - a] /\ a + (i - a) = i /\ i > a
        BY <1>1, <1>2, <2>1, <2>3
      <3>2. i - a \in FoldsOf(r)
        BY <1>1, <1>2, <2>1, <2>3, <3>1 DEF FoldsOf
      <3> QED
        BY <2>1, <3>1, <3>2
    <2> QED
      BY <1>1, <1>2, <2>1, <2>2, <2>3
  <1>6. \A i \in FoldsOf(q) : q[i].width \in Nat /\ low < q[i].width /\ q[i].width <= mid
    <2>1. \A i \in FoldsOf(q) : q[i] \in Message
      BY <1>1, ElementOfSeq DEF FoldsOf
    <2> QED
      BY <2>1, MessageWidth DEF OrderedFolds
  <1>7. \A i \in FoldsOf(r) : r[i].width \in Nat /\ mid < r[i].width /\ r[i].width <= high
    <2>1. \A i \in FoldsOf(r) : r[i] \in Message
      BY <1>1, ElementOfSeq DEF FoldsOf
    <2> QED
      BY <2>1, MessageWidth DEF OrderedFolds
  <1>8. ASSUME NEW i \in FoldsOf(s) PROVE low < s[i].width /\ s[i].width <= high
    <2>1. CASE i \in FoldsOf(q) /\ s[i] = q[i]
      BY <1>6, <2>1
    <2>2. CASE i - a \in FoldsOf(r) /\ s[i] = r[i - a]
      BY <1>7, <2>2
    <2> QED
      BY <1>5, <2>1, <2>2
  <1>9. ASSUME NEW i \in FoldsOf(s), NEW j \in FoldsOf(s), i < j PROVE s[i].width < s[j].width
    <2>0. i \in 1 .. a + b /\ j \in 1 .. a + b
      BY <1>5
    <2>1. CASE i \in FoldsOf(q) /\ s[i] = q[i] /\ j \in FoldsOf(q) /\ s[j] = q[j]
      BY <1>9, <2>1 DEF OrderedFolds
    <2>2. CASE i \in FoldsOf(q) /\ s[i] = q[i] /\ j - a \in FoldsOf(r) /\ s[j] = r[j - a]
      BY <1>6, <1>7, <2>2
    <2>3. CASE i - a \in FoldsOf(r) /\ s[i] = r[i - a] /\ j - a \in FoldsOf(r) /\ s[j] = r[j - a]
      <3>1. i - a < j - a
        BY <1>2, <1>9, <2>0
      <3> QED
        BY <2>3, <3>1 DEF OrderedFolds
    <2>4. ~(i > a /\ j <= a)
      BY <1>2, <1>9, <2>0
    <2> QED
      BY <1>5, <2>1, <2>2, <2>3, <2>4
  <1>10. ASSUME NEW i \in FoldsOf(s), \A j \in FoldsOf(s) : j <= i PROVE s[i].width = high
    <2>1. PICK k \in FoldsOf(r) : TRUE
      OBVIOUS
    <2>2. k \in 1 .. b /\ a + k \in FoldsOf(s) /\ a + k <= i /\ i \in 1 .. a + b
      BY <1>4, <1>5, <1>10
    <2>3. i > a
      BY <1>2, <2>2
    <2>4. i - a \in FoldsOf(r) /\ s[i] = r[i - a]
      BY <1>2, <1>5, <2>2, <2>3
    <2>5. \A j \in FoldsOf(r) : j <= i - a
      <3>1. ASSUME NEW j \in FoldsOf(r) PROVE j <= i - a
        <4>1. j \in 1 .. b /\ a + j <= i
          BY <1>4, <1>10
        <4> QED
          BY <1>2, <2>2, <4>1
      <3> QED
        BY <3>1
    <2> QED
      BY <2>4, <2>5 DEF OrderedFolds
  <1>11. OrderedFolds(s, low, high)
    BY <1>8, <1>9, <1>10 DEF OrderedFolds
  <1>12. FoldsOf(s) # {}
    BY <1>4
  <1> QED
    BY <1>11, <1>12 DEF s

(* The first message is taken out of the mailbox.                          *)
LEMMA TailPositions ==
    ASSUME NEW q \in Seq(Message), q # <<>>
    PROVE  /\ Tail(q) \in Seq(Message) /\ Head(q) \in Message /\ Head(q) = q[1]
           /\ 1 \in DOMAIN q /\ DOMAIN q \subseteq Nat \ {0}
           /\ \A i \in DOMAIN Tail(q) : i \in Nat /\ i + 1 \in DOMAIN q /\ Tail(q)[i] = q[i + 1]
           /\ \A i \in DOMAIN q : i # 1 => i - 1 \in DOMAIN Tail(q) /\ Tail(q)[i - 1] = q[i]
  <1>1. PICK n \in Nat : n = Len(q) /\ DOMAIN q = 1 .. n
    BY LenProperties
  <1>2. /\ Head(q) \in Message /\ Tail(q) \in Seq(Message) /\ Len(Tail(q)) = n - 1
        /\ \A i \in 1 .. Len(Tail(q)) : Tail(q)[i] = q[i + 1]
    BY <1>1, HeadTailProperties
  <1>3. n # 0
    BY <1>1, EmptySeq
  <1>4. Head(q) = q[1]
    OBVIOUS
  <1>5. DOMAIN Tail(q) = 1 .. n - 1
    BY <1>2, LenProperties
  <1>6. \A i \in 1 .. n - 1 : i \in Nat /\ i + 1 \in 1 .. n /\ Tail(q)[i] = q[i + 1]
    BY <1>1, <1>2
  <1>7. ASSUME NEW i \in 1 .. n, i # 1 PROVE i - 1 \in 1 .. n - 1 /\ Tail(q)[i - 1] = q[i]
    <2>1. i - 1 \in 1 .. n - 1 /\ (i - 1) + 1 = i
      BY <1>1, <1>7
    <2> QED
      BY <1>6, <2>1
  <1> QED
    BY <1>1, <1>2, <1>3, <1>4, <1>5, <1>6, <1>7

(* Taking the first message leaves the folds in order; after a fold,       *)
(* those left lead on from its width, and if none is left it was the       *)
(* last.                                                                   *)
LEMMA TailFolds ==
    ASSUME NEW q \in Seq(Message), q # <<>>, NEW low \in Nat, NEW high \in Nat,
           OrderedFolds(q, low, high)
    PROVE  /\ Head(q).kind # "fold" =>
                  OrderedFolds(Tail(q), low, high) /\ (FoldsOf(Tail(q)) = {} <=> FoldsOf(q) = {})
           /\ Head(q).kind = "fold" =>
                  /\ low < Head(q).width /\ Head(q).width <= high
                  /\ OrderedFolds(Tail(q), Head(q).width, high)
                  /\ FoldsOf(Tail(q)) = {} => Head(q).width = high
  <1> DEFINE t == Tail(q)
  <1>1. /\ t \in Seq(Message) /\ Head(q) \in Message /\ Head(q) = q[1]
        /\ 1 \in DOMAIN q /\ DOMAIN q \subseteq Nat \ {0}
        /\ \A i \in DOMAIN t : i \in Nat /\ i + 1 \in DOMAIN q /\ t[i] = q[i + 1]
        /\ \A i \in DOMAIN q : i # 1 => i - 1 \in DOMAIN t /\ t[i - 1] = q[i]
    BY TailPositions
  <1> HIDE DEF t
  <1>2. \A i \in FoldsOf(t) : i \in Nat /\ i + 1 \in FoldsOf(q) /\ t[i] = q[i + 1]
    BY <1>1 DEF FoldsOf
  <1>3. \A i \in FoldsOf(q) : i \in Nat \ {0}
                              /\ (i # 1 => i - 1 \in FoldsOf(t) /\ t[i - 1] = q[i])
    BY <1>1 DEF FoldsOf
  <1>4. \A i, j \in FoldsOf(t) : i < j => t[i].width < t[j].width
    <2>1. ASSUME NEW i \in FoldsOf(t), NEW j \in FoldsOf(t), i < j PROVE t[i].width < t[j].width
      <3>1. i + 1 < j + 1
        BY <1>2, <2>1
      <3> QED
        BY <1>2, <3>1 DEF OrderedFolds
    <2> QED
      BY <2>1
  <1>5. \A i \in FoldsOf(t) : (\A j \in FoldsOf(t) : j <= i) => t[i].width = high
    <2>1. ASSUME NEW i \in FoldsOf(t), \A j \in FoldsOf(t) : j <= i PROVE t[i].width = high
      <3>1. ASSUME NEW j \in FoldsOf(q) PROVE j <= i + 1
        <4>1. CASE j = 1
          BY <1>2, <4>1
        <4>2. CASE j # 1
          <5>1. j - 1 <= i /\ j \in Nat
            BY <1>3, <2>1, <4>2
          <5> QED
            BY <1>2, <5>1
        <4> QED
          BY <4>1, <4>2
      <3> QED
        BY <1>2, <3>1 DEF OrderedFolds
    <2> QED
      BY <2>1
  <1>6. ASSUME Head(q).kind # "fold"
        PROVE  OrderedFolds(t, low, high) /\ (FoldsOf(t) = {} <=> FoldsOf(q) = {})
    <2>1. 1 \notin FoldsOf(q)
      BY <1>1, <1>6 DEF FoldsOf
    <2>2. FoldsOf(t) = {} <=> FoldsOf(q) = {}
      <3>1. \A i \in FoldsOf(q) : i - 1 \in FoldsOf(t)
        BY <1>3, <2>1
      <3> QED
        BY <1>2, <3>1
    <2>3. \A i \in FoldsOf(t) : low < t[i].width /\ t[i].width <= high
      BY <1>2 DEF OrderedFolds
    <2> QED
      BY <1>4, <1>5, <2>2, <2>3 DEF OrderedFolds
  <1>7. ASSUME Head(q).kind = "fold"
        PROVE  /\ low < Head(q).width /\ Head(q).width <= high
               /\ OrderedFolds(t, Head(q).width, high)
               /\ FoldsOf(t) = {} => Head(q).width = high
    <2>1. 1 \in FoldsOf(q)
      BY <1>1, <1>7 DEF FoldsOf
    <2>2. low < q[1].width /\ q[1].width <= high
      BY <2>1 DEF OrderedFolds
    <2>3. \A i \in FoldsOf(t) : q[1].width < t[i].width /\ t[i].width <= high
      <3>1. ASSUME NEW i \in FoldsOf(t) PROVE q[1].width < t[i].width /\ t[i].width <= high
        <4>1. 1 < i + 1
          <5>1. i \in DOMAIN t
            BY DEF FoldsOf
          <5>2. i >= 1
            BY <1>1, <5>1, LenProperties
          <5> QED
            BY <1>2, <5>2
        <4> QED
          BY <1>2, <2>1, <4>1 DEF OrderedFolds
      <3> QED
        BY <3>1
    <2>4. ASSUME FoldsOf(t) = {} PROVE q[1].width = high
      <3>1. \A j \in FoldsOf(q) : j <= 1
        BY <1>3, <2>4
      <3> QED
        BY <2>1, <3>1 DEF OrderedFolds
    <2> QED
      BY <1>1, <1>4, <1>5, <2>2, <2>3, <2>4 DEF OrderedFolds
  <1> QED
    BY <1>6, <1>7 DEF t

(* Taking the first message leaves responses for different instances, and  *)
(* after a response none for its instance.                                 *)
LEMMA TailEnabled ==
    ASSUME NEW q \in Seq(Message), q # <<>>, NEW S, EnabledOK(q, S)
    PROVE  /\ EnabledOK(Tail(q), S)
           /\ Head(q).kind = "enabled" => /\ Head(q).entries[1].mi \in S
                                          /\ EnabledOK(Tail(q), S \ {Head(q).entries[1].mi})
  <1> DEFINE t == Tail(q)
  <1>1. /\ Head(q) = q[1] /\ 1 \in DOMAIN q
        /\ \A i \in DOMAIN t : i \in Nat /\ i + 1 \in DOMAIN q /\ t[i] = q[i + 1]
    BY TailPositions
  <1>2. \A i \in DOMAIN t : i + 1 # 1
    <2>1. t \in Seq(Message)
      BY TailPositions
    <2> HIDE DEF t
    <2>2. DOMAIN t = 1 .. Len(t) /\ Len(t) \in Nat
      BY <2>1, LenProperties
    <2> QED
      BY <2>2
  <1> HIDE DEF t
  <1>3. \A i \in EnabledOf(t) : i \in Nat /\ i + 1 \in EnabledOf(q) /\ t[i] = q[i + 1] /\ i + 1 # 1
    BY <1>1, <1>2 DEF EnabledOf
  <1>4. \A i \in EnabledOf(t) : t[i].entries[1].mi \in S
    BY <1>3 DEF EnabledOK
  <1>5. ASSUME NEW i \in EnabledOf(t), NEW j \in EnabledOf(t), i # j
        PROVE  t[i].entries[1].mi # t[j].entries[1].mi
    <2>1. i + 1 # j + 1
      BY <1>3, <1>5
    <2> QED
      BY <1>3, <2>1 DEF EnabledOK
  <1>6. ASSUME Head(q).kind = "enabled"
        PROVE  /\ Head(q).entries[1].mi \in S
               /\ EnabledOK(t, S \ {Head(q).entries[1].mi})
    <2>1. 1 \in EnabledOf(q)
      BY <1>1, <1>6 DEF EnabledOf
    <2>2. \A i \in EnabledOf(t) : t[i].entries[1].mi # q[1].entries[1].mi
      BY <1>3, <2>1 DEF EnabledOK
    <2> QED
      BY <1>1, <1>4, <1>5, <2>1, <2>2 DEF EnabledOK
  <1> QED
    BY <1>4, <1>5, <1>6 DEF EnabledOK, t

(* A buffer that is sent makes at most one message, of data.               *)
LEMMA DataMessages ==
    ASSUME NEW es \in Seq(Entry)
    PROVE  /\ DataMessage(es) \in Message /\ DataMessage(es).kind = "data"
           /\ Nonempty(es) \in Seq(Message)
           /\ FoldsOf(Nonempty(es)) = {} /\ EnabledOf(Nonempty(es)) = {}
  <1>1. DataMessage(es) \in Message /\ DataMessage(es).kind = "data"
    BY DEF DataMessage, Message
  <1> DEFINE x == DataMessage(es)
  <1> HIDE DEF x
  <1>2. <<x>> \in Seq(Message) /\ DOMAIN <<x>> = {1} /\ <<x>>[1] = x
    BY <1>1 DEF x
  <1>3. Nonempty(es) = <<>> \/ Nonempty(es) = <<x>>
    BY DEF Nonempty, x
  <1>4. FoldsOf(<<x>>) = {} /\ EnabledOf(<<x>>) = {}
    <2>1. x.kind = "data"
      BY <1>1 DEF x
    <2> QED
      BY <1>2, <2>1 DEF FoldsOf, EnabledOf
  <1>5. <<>> \in Seq(Message) /\ FoldsOf(<<>>) = {} /\ EnabledOf(<<>>) = {}
    <2>1. <<>> \in Seq(Message) /\ DOMAIN <<>> = {}
      OBVIOUS
    <2> QED
      BY <2>1 DEF FoldsOf, EnabledOf
  <1> QED
    BY <1>1, <1>2, <1>3, <1>4, <1>5

(* One message for a fold leads to its width.                              *)
LEMMA OneFold ==
    ASSUME NEW low \in Nat, NEW w \in Nat, low < w
    PROVE  /\ <<FoldMessage(w)>> \in Seq(Message)
           /\ FoldsOf(<<FoldMessage(w)>>) # {} /\ EnabledOf(<<FoldMessage(w)>>) = {}
           /\ OrderedFolds(<<FoldMessage(w)>>, low, w)
  <1> DEFINE x == FoldMessage(w)
             q == <<x>>
  <1>1. x \in Message /\ x.kind = "fold" /\ x.width = w
    BY DEF FoldMessage, Message
  <1> HIDE DEF x
  <1>2. q \in Seq(Message) /\ DOMAIN q = {1} /\ q[1] = x
    BY <1>1
  <1> HIDE DEF q
  <1>3. FoldsOf(q) = {1} /\ EnabledOf(q) = {}
    BY <1>1, <1>2 DEF FoldsOf, EnabledOf
  <1>4. OrderedFolds(q, low, w)
    BY <1>1, <1>2, <1>3 DEF OrderedFolds
  <1> QED
    BY <1>2, <1>3, <1>4 DEF q, x

(* A sample of a bin of a histogram, as a stream sends it.                 *)
Sample(m, h, b) == [mi |-> m, bin |-> b, units |-> h.bins[b]]

(* The samples of some bins of a histogram.                                *)
LEMMA EntriesIs ==
    ASSUME NEW Y, NEW h, NEW m, NEW first \in Nat, NEW last \in Int,
           first <= last + 1, \A b \in first .. last : Sample(m, h, b) \in Y
    PROVE  Entries(m, h, first, last) \in Seq(Y)
  <1> DEFINE n == last - first + 1
             e(i) == [mi |-> m, bin |-> first + i - 1, units |-> h.bins[first + i - 1]]
  <1>1. n \in Nat
    OBVIOUS
  <1>2. ASSUME NEW i \in 1 .. n PROVE e(i) \in Y
    <2>1. first + i - 1 \in first .. last
      OBVIOUS
    <2>2. Sample(m, h, first + i - 1) \in Y
      BY <2>1
    <2> QED
      BY <2>2 DEF Sample
  <1>3. Entries(m, h, first, last) = [i \in 1 .. n |-> e(i)]
    BY DEF Entries
  <1> HIDE DEF n, e
  <1> QED
    BY <1>1, <1>2, <1>3, IsASeq

(* The samples of some bins of a histogram have the types of samples.      *)
LEMMA SampleType ==
    ASSUME NEW h \in HistType, NEW m \in MI, NEW b \in Bin
    PROVE  Sample(m, h, b) \in Entry
  <1>1. h.bins[b] \in SUBSET (0 .. MaxTime)
    BY DEF HistType
  <1> QED
    BY <1>1 DEF Sample, Entry

(* A sequence of a set is one of a larger set.                             *)
LEMMA LargerSeq ==
    ASSUME NEW S, NEW T, S \subseteq T, NEW s \in Seq(S)
    PROVE  s \in Seq(T)
  <1>1. PICK n \in Nat : n = Len(s) /\ DOMAIN s = 1 .. n
    BY LenProperties
  <1>2. \A i \in 1 .. n : s[i] \in T
    BY <1>1, ElementOfSeq
  <1>3. s = [i \in 1 .. n |-> s[i]]
    BY <1>1
  <1> QED
    BY <1>2, <1>3, IsASeq

(* The buffer is sent whenever it is full.                                 *)
LEMMA SentIs ==
    ASSUME NEW Y \in SUBSET Entry, NEW es \in Seq(Y), NEW size \in Nat \ {0}
    PROVE  /\ Sent(es, size) \in Seq(Message)
           /\ \A i \in DOMAIN Sent(es, size) :
                  Sent(es, size)[i].kind = "data" /\ Sent(es, size)[i].entries \in Seq(Y)
           /\ FoldsOf(Sent(es, size)) = {} /\ EnabledOf(Sent(es, size)) = {}
           /\ Left(es, size) \in Seq(Y) /\ Len(Left(es, size)) < size
  <1> DEFINE n == Len(es)
             q == n \div size
             part(i) == SubSeq(es, (i - 1) * size + 1, i * size)
             s == Sent(es, size)
  <1>1. n \in Nat /\ \A i \in 1 .. n : es[i] \in Y
    BY LenProperties, ElementOfSeq
  <1> HIDE DEF n
  <1>2. q \in Nat /\ q * size <= n /\ n < (q + 1) * size
    BY <1>1, Quotient
  <1>3. s = [i \in 1 .. q |-> DataMessage(part(i))]
    BY DEF Sent, n
  <1> HIDE DEF q
  <1>4. ASSUME NEW i \in 1 .. q PROVE part(i) \in Seq(Y)
    <2>1. i \in Int /\ q \in Int /\ size \in Nat
      BY <1>2
    <2>2. (i - 1) * size \in Nat /\ i * size \in Nat /\ q * size \in Nat
      <3>1. i - 1 \in Nat /\ i \in Nat
        OBVIOUS
      <3> QED
        BY <1>2, <3>1
    <2>3. i * size <= q * size
      BY <1>2, <2>1, TimesOrder
    <2>4. \A j \in (i - 1) * size + 1 .. i * size : es[j] \in Y
      <3>1. ASSUME NEW j \in (i - 1) * size + 1 .. i * size PROVE j \in 1 .. n
        BY <1>1, <1>2, <2>2, <2>3
      <3> QED
        BY <1>1, <3>1
    <2>5. (i - 1) * size + 1 \in Int /\ i * size \in Int
      BY <2>2
    <2> QED
      BY <2>4, <2>5, SubSeqProperties
  <1> HIDE DEF part, s
  <1>5. ASSUME NEW i \in 1 .. q
        PROVE  s[i] \in Message /\ s[i].kind = "data" /\ s[i].entries \in Seq(Y)
    <2>1. part(i) \in Seq(Entry) /\ part(i) \in Seq(Y)
      BY <1>4, LargerSeq
    <2>2. DataMessage(part(i)) \in Message /\ DataMessage(part(i)).kind = "data"
      BY <2>1, DataMessages
    <2>3. DataMessage(part(i)).entries = part(i)
      BY DEF DataMessage
    <2> QED
      BY <1>3, <2>1, <2>2, <2>3
  <1>6. DOMAIN s = 1 .. q /\ s \in Seq(Message)
    BY <1>2, <1>3, <1>5, IsASeq
  <1>7. FoldsOf(s) = {} /\ EnabledOf(s) = {}
    BY <1>5, <1>6 DEF FoldsOf, EnabledOf
  <1>8. Left(es, size) \in Seq(Y) /\ Len(Left(es, size)) < size
    <2>1. Left(es, size) = SubSeq(es, q * size + 1, n)
      BY DEF Left, q, n
    <2>2. PICK a \in Nat : a = q * size
      BY <1>2
    <2>3. (q + 1) * size = a + size
      BY <1>2, <2>2
    <2>4. a <= n /\ n < a + size
      BY <1>2, <2>2, <2>3
    <2>5. \A j \in a + 1 .. n : es[j] \in Y
      BY <1>1
    <2>6. /\ SubSeq(es, a + 1, n) \in Seq(Y)
          /\ Len(SubSeq(es, a + 1, n)) = IF a + 1 <= n THEN n - (a + 1) + 1 ELSE 0
      <3>1. a + 1 \in Int /\ n \in Int
        BY <1>1
      <3> QED
        BY <2>5, <3>1, SubSeqProperties
    <2> QED
      BY <1>1, <2>1, <2>2, <2>4, <2>6
  <1> QED
    BY <1>5, <1>6, <1>7, <1>8 DEF s

(* The messages for the folds that the streams are told of.                *)
FoldMessages(told) ==
    FoldStream(told[1]) \o [i \in 1 .. Len(told) - 1 |-> FoldMessage(told[i + 1])]

(* The messages for folds lead, in order, from any lower width to the      *)
(* last of them.                                                           *)
LEMMA FoldMessagesIs ==
    ASSUME buffer \in Seq(Entry), NEW low \in Nat, NEW told \in Seq(Nat), told # <<>>,
           Ascending(told, Len(told)), \A i \in 1 .. Len(told) : told[i] > low
    PROVE  /\ FoldMessages(told) \in Seq(Message)
           /\ FoldsOf(FoldMessages(told)) # {} /\ EnabledOf(FoldMessages(told)) = {}
           /\ OrderedFolds(FoldMessages(told), low, told[Len(told)])
           /\ low < told[Len(told)]
  <1> DEFINE a == Nonempty(buffer)
             b == <<FoldMessage(told[1])>>
             c == [i \in 1 .. Len(told) - 1 |-> FoldMessage(told[i + 1])]
  <1>1. PICK n \in Nat \ {0} : n = Len(told)
    BY EmptySeq, LenProperties
  <1>2. \A i \in 1 .. n : told[i] \in Nat /\ told[i] > low
    BY <1>1, ElementOfSeq
  <1>3. 1 \in 1 .. n /\ n \in 1 .. n
    BY <1>1
  <1>4. a \in Seq(Message) /\ FoldsOf(a) = {} /\ EnabledOf(a) = {} /\ OrderedFolds(a, low, low)
    BY DataMessages DEF OrderedFolds
  <1>5. /\ b \in Seq(Message) /\ FoldsOf(b) # {} /\ EnabledOf(b) = {}
        /\ OrderedFolds(b, low, told[1])
    BY <1>2, <1>3, OneFold
  <1>6. /\ c \in Seq(Message) /\ Len(c) = n - 1 /\ DOMAIN c = 1 .. n - 1
        /\ \A i \in 1 .. n - 1 : c[i].kind = "fold" /\ c[i].width = told[i + 1]
    <2>1. ASSUME NEW i \in 1 .. n - 1
          PROVE  /\ FoldMessage(told[i + 1]) \in Message
                 /\ FoldMessage(told[i + 1]).kind = "fold"
                 /\ FoldMessage(told[i + 1]).width = told[i + 1]
      <3>1. told[i + 1] \in Nat
        BY <1>1, <1>2
      <3> QED
        BY <3>1 DEF FoldMessage, Message
    <2>2. n - 1 \in Nat
      BY <1>1
    <2>3. c = [i \in 1 .. n - 1 |-> FoldMessage(told[i + 1])]
      BY <1>1
    <2> HIDE DEF c
    <2>4. \A i \in 1 .. n - 1 : c[i] = FoldMessage(told[i + 1])
      BY <2>3
    <2>5. c \in Seq(Message) /\ Len(c) = n - 1
      BY <2>1, <2>2, <2>3, IsASeq
    <2> QED
      BY <2>1, <2>3, <2>4, <2>5
  <1> HIDE DEF a, b, c
  <1>7. EnabledOf(c) = {} /\ FoldsOf(c) = 1 .. n - 1
    BY <1>6 DEF EnabledOf, FoldsOf
  <1>8. /\ a \o b \in Seq(Message) /\ FoldsOf(a \o b) # {}
        /\ OrderedFolds(a \o b, low, told[1])
    <2>1. told[1] \in Nat /\ low <= told[1] /\ low <= low
      BY <1>2, <1>3
    <2>2. a \o b \in Seq(Message)
      BY <1>4, <1>5, Positions
    <2>3. FoldsOf(a \o b) # {} /\ OrderedFolds(a \o b, low, told[1])
      BY <1>4, <1>5, <2>1, AppendFolds
    <2> QED
      BY <2>2, <2>3
  <1>9. FoldMessages(told) = (a \o b) \o c
    BY DEF FoldMessages, FoldStream, a, b, c
  <1>10. FoldMessages(told) \in Seq(Message)
    BY <1>6, <1>8, <1>9, Positions
  <1>11. EnabledOf(FoldMessages(told)) = {}
    <2>1. \A q \in Seq(Message), r \in Seq(Message) :
              EnabledOf(q) = {} /\ EnabledOf(r) = {} => EnabledOf(q \o r) = {}
      <3>1. ASSUME NEW q \in Seq(Message), NEW r \in Seq(Message),
                   EnabledOf(q) = {}, EnabledOf(r) = {}
            PROVE  EnabledOf(q \o r) = {}
        <4>1. EnabledOK(q, {})
          BY <3>1 DEF EnabledOK
        <4>2. EnabledOK(q \o r, {})
          BY <3>1, <4>1, AppendNoEnabled
        <4> QED
          BY <4>2 DEF EnabledOK
      <3> QED
        BY <3>1
    <2>2. EnabledOf(a \o b) = {}
      BY <1>4, <1>5, <2>1
    <2> QED
      BY <1>6, <1>7, <1>8, <1>9, <2>1, <2>2
  <1>12. /\ FoldsOf((a \o b) \o c) # {}
         /\ OrderedFolds((a \o b) \o c, low, told[n])
    <2>1. CASE n = 1
      <3>1. FoldsOf(c) = {}
        BY <1>7, <2>1
      <3> QED
        BY <1>6, <1>8, <2>1, <3>1, AppendNoFolds
    <2>2. CASE n # 1
      <3>1. \A i \in 1 .. n - 1 : i + 1 \in 1 .. n /\ 1 < i + 1 /\ told[i + 1] \in Nat
        BY <1>1, <1>2
      <3>2. \A i \in 1 .. n - 1 : told[1] < c[i].width
        BY <1>1, <1>3, <1>6, <3>1 DEF Ascending
      <3>3. \A i \in 1 .. n - 1 : c[i].width <= told[n]
        <4>1. ASSUME NEW i \in 1 .. n - 1 PROVE told[i + 1] <= told[n]
          <5>1. CASE i + 1 = n
            BY <1>2, <1>3, <5>1
          <5>2. CASE i + 1 # n
            <6>1. i + 1 < n
              BY <1>1, <5>2
            <6>2. told[i + 1] < told[n]
              BY <1>1, <1>3, <3>1, <6>1 DEF Ascending
            <6> QED
              BY <1>2, <1>3, <3>1, <6>2
          <5> QED
            BY <5>1, <5>2
        <4> QED
          BY <1>6, <4>1
      <3>4. \A i, j \in 1 .. n - 1 : i < j => c[i].width < c[j].width
        <4>1. ASSUME NEW i \in 1 .. n - 1, NEW j \in 1 .. n - 1, i < j
              PROVE  told[i + 1] < told[j + 1]
          <5>1. i + 1 < j + 1
            BY <1>1, <4>1
          <5> QED
            BY <1>1, <3>1, <5>1 DEF Ascending
        <4> QED
          BY <1>6, <4>1
      <3>5. \A i \in 1 .. n - 1 : (\A j \in 1 .. n - 1 : j <= i) => c[i].width = told[n]
        <4>1. ASSUME NEW i \in 1 .. n - 1, \A j \in 1 .. n - 1 : j <= i PROVE i + 1 = n
          <5>1. n - 1 \in 1 .. n - 1
            BY <1>1, <2>2
          <5>2. n - 1 <= i
            BY <4>1, <5>1
          <5> QED
            BY <1>1, <5>2
        <4> QED
          BY <1>6, <4>1
      <3>6. OrderedFolds(c, told[1], told[n])
        BY <1>7, <3>2, <3>3, <3>4, <3>5 DEF OrderedFolds
      <3>7. FoldsOf(c) # {}
        <4>1. 1 \in 1 .. n - 1
          BY <1>1, <2>2
        <4> QED
          BY <1>7, <4>1
      <3>8. /\ told[1] \in Nat /\ told[n] \in Nat /\ low <= told[1] /\ told[1] <= told[n]
        <4>1. 1 < n
          BY <1>1, <2>2
        <4>2. told[1] < told[n]
          BY <1>1, <1>3, <4>1 DEF Ascending
        <4> QED
          BY <1>2, <1>3, <4>2
      <3> QED
        BY <1>6, <1>8, <3>6, <3>7, <3>8, AppendFolds
    <2> QED
      BY <2>1, <2>2
  <1> QED
    BY <1>1, <1>2, <1>3, <1>9, <1>10, <1>11, <1>12

(* All histograms have the data manager's width, unless one got an odd     *)
(* one.                                                                    *)
SameWidth ==
    /\ MinWidth <= globalWidth
    /\ ~odd => \A m \in MI : hist[m].exists => hist[m].width = globalWidth

(* The types of what is on its way to the visi. The buffer is sent when    *)
(* it has a sample of each instance.                                       *)
FlowTypeOK ==
    /\ mail \in Seq(Message) /\ buffer \in Seq(Entry)
    /\ buffer # <<>> => Len(buffer) < Cardinality(users)
    /\ vwidth \in Nat /\ binWidth \in Nat
    /\ mrlist \subseteq users /\ fetching \subseteq mrlist

(* The folds on their way lead from the visi thread's width to the data    *)
(* manager's.                                                              *)
FoldsInv ==
    /\ vwidth <= globalWidth
    /\ OrderedFolds(mail, vwidth, globalWidth)

(* The responses on their way are for instances the visi does not know,    *)
(* and with no fold on its way the visi has the data manager's width.      *)
VisiInv ==
    /\ EnabledOK(mail, users \ mrlist)
    /\ mrlist # {} => binWidth # 0
    /\ ~odd /\ binWidth # 0 /\ FoldsOf(mail) = {} => binWidth = globalWidth

(* The invariant of the flow.                                              *)
FlowInv == DMInv /\ SameWidth /\ FlowTypeOK /\ FoldsInv /\ VisiInv

(* More doublings give no smaller number.                                  *)
LEMMA DoubledGrows == \A n \in Nat : \A k \in 0 .. n : Doubled[k] <= Doubled[n]
  <1> DEFINE P == {n \in Nat : \A k \in 0 .. n : Doubled[k] <= Doubled[n]}
  <1>1. 0 \in P
    <2>1. Doubled[0] = 1 /\ \A k \in 0 .. 0 : k = 0
      BY DoubledIs
    <2> QED
      BY <2>1
  <1>2. ASSUME NEW n \in P \intersect Nat PROVE n + 1 \in P
    <2>1. Doubled[n + 1] = 2 * Doubled[n] /\ Doubled[n] \in Nat
      <3>1. n \in Nat /\ n + 1 \in Nat \ {0} /\ (n + 1) - 1 = n
        OBVIOUS
      <3> HIDE DEF P
      <3> QED
        BY <3>1, DoubledIs
    <2>2. ASSUME NEW k \in 0 .. n + 1 PROVE Doubled[k] <= Doubled[n + 1]
      <3>1. CASE k = n + 1
        BY <2>1, <3>1
      <3>2. CASE k # n + 1
        <4>1. k \in 0 .. n /\ k \in Nat
          BY <3>2
        <4>2. Doubled[k] <= Doubled[n] /\ Doubled[k] \in Nat
          BY <4>1, DoubledIs
        <4> HIDE DEF P
        <4> QED
          BY <2>1, <4>2
      <3> QED
        BY <3>1, <3>2
    <2>3. \A k \in 0 .. n + 1 : Doubled[k] <= Doubled[n + 1]
      BY <2>2
    <2> QED
      BY <2>3
  <1>3. Nat \subseteq P
    <2> HIDE DEF P
    <2> QED
      BY <1>1, <1>2, NatSetInduction
  <1> QED
    BY <1>3

(* Histograms of the same width fold together.                             *)
LEMMA FoldedSame ==
    ASSUME DMInv, NEW w \in Nat, \A i \in MI : hist[i].exists => hist[i].width = w,
           NEW m \in MI, hist[m].active, NEW count \in Nat
    PROVE  \A k \in 0 .. count : \A i \in MI :
               IF hist[i].exists THEN Folded(m, count)[k][i].width = w * Doubled[k]
               ELSE Folded(m, count)[k][i].width = MinWidth
  <1> DEFINE folded == Folded(m, count)
             P == {k \in Nat : k <= count => \A i \in MI : hist[i].exists =>
                                 folded[k][i].width = w * Doubled[k]}
  <1>0. DMTypeOK /\ HistInv
    BY DEF DMInv
  <1>1. /\ folded[0] = hist
        /\ \A k \in 0 .. count : folded[k] \in Hists
        /\ \A k \in 1 .. count : folded[k] = FoldAll(folded[k - 1], folded[k - 1][m].width)
    BY <1>0, FoldedIs
  <1>2. \A k \in 0 .. count : folded[k][m].width = hist[m].width * Doubled[k]
    BY <1>0, FoldedWidth
  <1> HIDE DEF folded
  <1>3. hist[m].width = w
    BY <1>0 DEF HistInv, HistOK
  <1>4. 0 \in P
    <2>1. Doubled[0] = 1 /\ w * 1 = w
      BY DoubledIs
    <2> QED
      BY <1>1, <2>1
  <1>5. ASSUME NEW k \in P \intersect Nat PROVE k + 1 \in P
    <2>1. ASSUME k + 1 <= count, NEW i \in MI, hist[i].exists
          PROVE  folded[k + 1][i].width = w * Doubled[k + 1]
      <3>1. k \in Nat /\ k + 1 \in Nat \ {0} /\ k + 1 \in 1 .. count /\ k \in 0 .. count
            /\ (k + 1) - 1 = k
        BY <2>1
      <3>2. folded[k][i].width = w * Doubled[k]
        BY <2>1, <3>1
      <3> HIDE DEF P
      <3>3. folded[k][m].width = w * Doubled[k]
        BY <1>2, <1>3, <3>1
      <3> DEFINE h == folded[k][i]
      <3>4. h \in HistType /\ HistOK(h, kept[i]) /\ h.exists
        BY <1>1, <2>1, <3>1 DEF Hists
      <3>5. h.width \in Nat \ {0}
        BY <3>4 DEF HistType
      <3>6. Folds(h, h.width)
        BY <3>4, <3>5 DEF Folds, HistOK
      <3>7. folded[k + 1][i] = Fold(h)
        <4>1. folded[k + 1] = FoldAll(folded[k], h.width)
          BY <1>1, <3>1, <3>2, <3>3
        <4> QED
          BY <3>6, <4>1 DEF FoldAll
      <3>8. folded[k + 1][i].width = 2 * h.width
        BY <3>4, <3>7, FoldKeeps
      <3>9. Doubled[k + 1] = 2 * Doubled[k] /\ Doubled[k] \in Nat
        BY <3>1, DoubledIs
      <3>10. 2 * (w * Doubled[k]) = w * (2 * Doubled[k])
        BY <3>9
      <3> QED
        BY <3>2, <3>8, <3>9, <3>10
    <2> QED
      BY <2>1
  <1>6. Nat \subseteq P
    <2> HIDE DEF P
    <2> QED
      BY <1>4, <1>5, NatSetInduction
  <1>7. ASSUME NEW k \in 0 .. count, NEW i \in MI
        PROVE  IF hist[i].exists THEN folded[k][i].width = w * Doubled[k]
               ELSE folded[k][i].width = MinWidth
    <2>1. CASE hist[i].exists
      <3>1. k \in Nat /\ k <= count
        OBVIOUS
      <3> QED
        BY <1>6, <2>1, <3>1
    <2>2. CASE ~hist[i].exists
      <3>1. HistOK(folded[k][i], kept[i]) /\ folded[k][i].exists = hist[i].exists
        BY <1>1 DEF Hists
      <3> QED
        BY <2>2, <3>1 DEF HistOK
    <2> QED
      BY <2>1, <2>2
  <1> QED
    BY <1>7 DEF folded

(* The last width that the streams are told of is the one of after the     *)
(* folds.                                                                  *)
LEMMA ToldWidth ==
    ASSUME DMInv, MinWidth <= globalWidth,
           \A i \in MI : hist[i].exists => hist[i].width = globalWidth,
           NEW m \in MI, hist[m].active, NEW count \in Nat
    PROVE  globalWidth * Doubled[count] =
               IF Told(m, count) = <<>> THEN globalWidth
               ELSE Told(m, count)[Len(Told(m, count))]
  <1> DEFINE folded == Folded(m, count)
             T == Wider(m, count)
             told == Told(m, count)
  <1>0. DMTypeOK /\ HistInv /\ globalWidth \in Nat \ {0}
    BY DEF DMInv, DMTypeOK
  <1>1. /\ told \in Seq(T) /\ T \in SUBSET Nat /\ Ascending(told, Len(told))
        /\ \A w \in T : \E i \in 1 .. Len(told) : told[i] = w
    BY <1>0, ToldIs
  <1>2. \A k \in 0 .. count : \A i \in MI :
               IF hist[i].exists THEN folded[k][i].width = globalWidth * Doubled[k]
               ELSE folded[k][i].width = MinWidth
    BY <1>0, FoldedSame
  <1>3. T = {w \in {folded[k][i].width : k \in 1 .. count, i \in MI} : w > globalWidth}
    BY DEF Wider
  <1> HIDE DEF folded, T, told
  <1>4. hist[m].exists
    BY <1>0 DEF HistInv, HistOK
  <1>5. \A k \in Nat : Doubled[k] \in Nat /\ Doubled[k] > k
    BY DoubledIs
  <1>6. PICK n \in Nat : n = Len(told)
    BY <1>1, LenProperties
  <1>7. CASE count = 0
    <2>1. T = {}
      BY <1>3, <1>7
    <2>2. told = <<>>
      <3>1. \A i \in 1 .. n : told[i] \in T
        BY <1>1, <1>6, ElementOfSeq
      <3>2. n = 0
        <4>1. CASE n # 0
          <5>1. 1 \in 1 .. n
            BY <4>1
          <5> QED
            BY <2>1, <3>1, <5>1
        <4> QED
          BY <4>1
      <3> QED
        BY <1>1, <1>6, <3>2, EmptySeq
    <2>3. Doubled[0] = 1
      BY DoubledIs
    <2> QED
      BY <1>0, <1>7, <2>2, <2>3 DEF told
  <1>8. CASE count # 0
    <2> DEFINE w == globalWidth * Doubled[count]
    <2>1. count \in 1 .. count /\ count \in 0 .. count
      BY <1>8
    <2>2. w \in Nat /\ w > globalWidth
      <3>1. Doubled[count] \in Nat /\ 2 <= Doubled[count]
        BY <1>5, <1>8
      <3>2. 2 * globalWidth <= Doubled[count] * globalWidth
        BY <1>0, <3>1, TimesOrder
      <3>3. w = Doubled[count] * globalWidth /\ w \in Nat
        BY <1>0, <3>1
      <3> HIDE DEF w
      <3> QED
        BY <1>0, <3>2, <3>3
    <2>3. folded[count][m].width = w
      BY <1>2, <1>4, <2>1
    <2> HIDE DEF w
    <2>4. w \in T
      BY <1>3, <2>1, <2>2, <2>3
    <2>5. PICK i \in 1 .. n : told[i] = w
      BY <1>1, <1>6, <2>4
    <2>6. n # 0 /\ n \in 1 .. n /\ told[n] \in T
      <3>1. n # 0 /\ n \in 1 .. n
        BY <1>6, <2>5
      <3> QED
        BY <1>1, <1>6, <3>1, ElementOfSeq
    <2>7. told # <<>>
      BY <1>1, <1>6, <2>6, EmptySeq
    <2>8. w <= told[n]
      <3>1. CASE i = n
        BY <2>2, <2>5, <3>1
      <3>2. CASE i # n
        <4>1. i < n
          BY <1>6, <3>2
        <4>2. told[i] < told[n]
          BY <1>1, <1>6, <2>6, <4>1 DEF Ascending
        <4>3. told[n] \in Nat
          BY <1>1, <2>6
        <4> QED
          BY <2>2, <2>5, <4>2, <4>3
      <3> QED
        BY <3>1, <3>2
    <2>9. told[n] <= w
      <3>1. PICK k \in 1 .. count, j \in MI : told[n] = folded[k][j].width
        BY <1>3, <2>6
      <3>2. told[n] > globalWidth /\ told[n] \in Nat
        BY <1>1, <1>3, <2>6
      <3>3. k \in 0 .. count /\ k \in Nat
        OBVIOUS
      <3>4. MinWidth \in Nat
        BY NumBins
      <3>5. told[n] = globalWidth * Doubled[k]
        BY <1>0, <1>2, <3>1, <3>2, <3>3, <3>4
      <3>6. Doubled[k] <= Doubled[count] /\ Doubled[k] \in Nat /\ Doubled[count] \in Nat
        BY <1>5, <3>3, DoubledGrows
      <3>7. Doubled[k] * globalWidth <= Doubled[count] * globalWidth
        BY <1>0, <3>6, TimesOrder
      <3>8. /\ Doubled[k] * globalWidth = globalWidth * Doubled[k]
            /\ Doubled[count] * globalWidth = globalWidth * Doubled[count]
        BY <1>0, <3>6
      <3> QED
        BY <3>5, <3>7, <3>8 DEF w
    <2>10. told[n] = w
      <3>1. told[n] \in Nat
        BY <1>1, <2>6
      <3> QED
        BY <2>2, <2>8, <2>9, <3>1
    <2> QED
      BY <1>6, <2>7, <2>10 DEF w, told
  <1> QED
    BY <1>7, <1>8

(* A new user of an instance, or a new instance, leaves the widths equal.  *)
LEMMA OpenSameWidth ==
    ASSUME DMInv, SameWidth, NEW m \in MI, NEW since, Open(m, since)
    PROVE  SameWidth'
  <1>0. DMTypeOK /\ HistInv
    BY DEF DMInv
  <1>1. /\ hist \in [MI -> HistType] /\ hist[m] \in HistType
    BY <1>0 DEF DMTypeOK
  <1> DEFINE new == ~hist[m].exists
             a == IF new THEN [NoHist EXCEPT !.exists = TRUE, !.active = TRUE, !.width = FirstWidth]
                  ELSE [hist[m] EXCEPT !.active = TRUE, !.foldOnInactive = FALSE]
  <1>2. /\ hist' = [hist EXCEPT ![m] = a] /\ globalWidth' = globalWidth
        /\ odd' = (odd \/ (new /\ Active = {} /\ FirstWidth # globalWidth))
    BY <1>1 DEF Open
  <1>3. a.width = IF new THEN FirstWidth ELSE hist[m].width
    BY <1>1 DEF NoHist, HistType
  <1> HIDE DEF a
  <1>4. hist'[m] = a /\ \A i \in MI \ {m} : hist'[i] = hist[i]
    BY <1>1, <1>2
  <1>5. ASSUME ~odd', NEW i \in MI, hist'[i].exists PROVE hist'[i].width = globalWidth
    <2>1. \A j \in MI : hist[j].exists => hist[j].width = globalWidth
      BY <1>2, <1>5 DEF SameWidth
    <2>2. CASE i # m
      BY <1>4, <1>5, <2>1, <2>2
    <2>3. CASE i = m /\ ~new
      BY <1>3, <1>4, <2>1, <2>3
    <2>4. CASE i = m /\ new
      <3>1. CASE Active = {}
        BY <1>2, <1>3, <1>4, <1>5, <2>4, <3>1
      <3>2. CASE Active # {}
        <4> DEFINE j == CHOOSE x \in Active : TRUE
        <4>1. j \in Active
          BY <3>2
        <4>2. j \in MI /\ hist[j].exists
          BY <1>0, <4>1 DEF Active, HistInv, HistOK
        <4>3. FirstWidth = hist[j].width
          BY <3>2 DEF FirstWidth
        <4> HIDE DEF j
        <4> QED
          BY <1>3, <1>4, <2>1, <2>4, <4>2, <4>3
      <3> QED
        BY <3>1, <3>2
    <2> QED
      BY <2>2, <2>3, <2>4
  <1> QED
    BY <1>2, <1>5 DEF SameWidth

(* An instance that loses its last user leaves the widths equal.           *)
LEMMA CloseSameWidth ==
    ASSUME DMInv, SameWidth, NEW m \in MI, Close(m), odd' = odd
    PROVE  SameWidth'
  <1>0. DMTypeOK /\ HistInv
    BY DEF DMInv
  <1>1. /\ hist \in [MI -> HistType] /\ hist[m] \in HistType
    BY <1>0 DEF DMTypeOK
  <1> DEFINE a == IF m \in Persistent
                  THEN [hist[m] EXCEPT !.active = FALSE, !.foldOnInactive = TRUE] ELSE NoHist
  <1>2. hist' = [hist EXCEPT ![m] = a] /\ globalWidth' = globalWidth
    BY <1>1 DEF Close
  <1>3. a.exists => hist[m].exists /\ a.width = hist[m].width
    BY <1>1 DEF NoHist, HistType
  <1> HIDE DEF a
  <1>4. hist'[m] = a /\ \A i \in MI \ {m} : hist'[i] = hist[i]
    BY <1>1, <1>2
  <1>5. ASSUME ~odd', NEW i \in MI, hist'[i].exists PROVE hist'[i].width = globalWidth
    <2>1. CASE i # m
      BY <1>4, <1>5, <2>1 DEF SameWidth
    <2>2. CASE i = m
      BY <1>3, <1>4, <1>5, <2>2 DEF SameWidth
    <2> QED
      BY <2>1, <2>2
  <1> QED
    BY <1>2, <1>5 DEF SameWidth

(* What a step of the data manager adds to the mailbox.                    *)
LEMMA MailGrows ==
    ASSUME mail \in Seq(Message), vwidth \in Nat, globalWidth \in Nat, FoldsInv, NEW S,
           EnabledOK(mail, S), NEW new \in Nat, globalWidth <= new,
           NEW q \in Seq(Message), EnabledOf(q) = {},
           \/ FoldsOf(q) = {} /\ new = globalWidth
           \/ FoldsOf(q) # {} /\ OrderedFolds(q, globalWidth, new)
    PROVE  /\ mail \o q \in Seq(Message)
           /\ OrderedFolds(mail \o q, vwidth, new)
           /\ EnabledOK(mail \o q, S)
           /\ FoldsOf(mail \o q) = {} => FoldsOf(mail) = {} /\ new = globalWidth
  <1>1. mail \o q \in Seq(Message)
    BY Positions
  <1>2. EnabledOK(mail \o q, S)
    BY AppendNoEnabled
  <1>3. OrderedFolds(mail, vwidth, globalWidth) /\ vwidth <= globalWidth
    BY DEF FoldsInv
  <1>4. CASE FoldsOf(q) = {} /\ new = globalWidth
    BY <1>1, <1>2, <1>3, <1>4, AppendNoFolds
  <1>5. CASE FoldsOf(q) # {} /\ OrderedFolds(q, globalWidth, new)
    <2>1. FoldsOf(mail \o q) # {} /\ OrderedFolds(mail \o q, vwidth, new)
      BY <1>3, <1>5, AppendFolds
    <2> QED
      BY <1>1, <1>2, <2>1
  <1> QED
    BY <1>4, <1>5

(* An empty mailbox has no folds and no responses.                         *)
LEMMA EmptyMail ==
    <<>> \in Seq(Message) /\ FoldsOf(<<>>) = {} /\ EnabledOf(<<>>) = {}
  <1>1. <<>> \in Seq(Message) /\ DOMAIN <<>> = {}
    OBVIOUS
  <1> QED
    BY <1>1 DEF FoldsOf, EnabledOf

(* The response for an instance that has none in the mailbox may be put    *)
(* into it.                                                                *)
LEMMA AppendEnabled ==
    ASSUME NEW q \in Seq(Message), NEW S, EnabledOK(q, S), NEW m \in MI, m \notin S
    PROVE  /\ <<EnabledMessage(m)>> \in Seq(Message)
           /\ FoldsOf(<<EnabledMessage(m)>>) = {}
           /\ EnabledOK(q \o <<EnabledMessage(m)>>, S \union {m})
  <1> DEFINE x == EnabledMessage(m)
             r == <<x>>
             s == q \o r
  <1>1. x \in Message /\ x.kind = "enabled" /\ x.entries[1].mi = m
    <2>1. [mi |-> m] \in [mi : MI]
      OBVIOUS
    <2>2. <<[mi |-> m]>> \in Seq([mi : MI]) /\ <<[mi |-> m]>>[1] = [mi |-> m]
      BY <2>1
    <2>3. x = [kind |-> "enabled", entries |-> <<[mi |-> m]>>, width |-> 0]
      BY DEF EnabledMessage
    <2>4. x \in [kind : {"enabled"}, entries : Seq([mi : MI]), width : {0}]
      BY <2>2, <2>3
    <2> QED
      BY <2>2, <2>3, <2>4 DEF Message
  <1> HIDE DEF x
  <1>2. r \in Seq(Message) /\ Len(r) = 1 /\ DOMAIN r = {1} /\ r[1] = x
    BY <1>1
  <1> HIDE DEF r
  <1>3. FoldsOf(r) = {}
    BY <1>1, <1>2 DEF FoldsOf
  <1>4. /\ Len(q) \in Nat /\ DOMAIN q = 1 .. Len(q)
        /\ DOMAIN s = 1 .. Len(q) + 1
        /\ \A i \in 1 .. Len(q) : s[i] = q[i]
        /\ \A i \in 1 .. 1 : s[Len(q) + i] = r[i]
    BY <1>2, Positions
  <1> HIDE DEF s
  <1>5. PICK n \in Nat : n = Len(q)
    BY <1>4
  <1>6. s[n + 1] = x
    <2>1. 1 \in 1 .. 1
      OBVIOUS
    <2> QED
      BY <1>2, <1>4, <1>5, <2>1
  <1>7. \A i \in EnabledOf(s) : i = n + 1 \/ (i # n + 1 /\ i \in EnabledOf(q) /\ s[i] = q[i])
    <2>1. ASSUME NEW i \in 1 .. n + 1, i # n + 1 PROVE i \in 1 .. n
      BY <2>1
    <2> QED
      BY <1>4, <1>5, <2>1 DEF EnabledOf
  <1>8. \A i \in EnabledOf(s) : s[i].entries[1].mi \in S \union {m}
    BY <1>1, <1>6, <1>7 DEF EnabledOK
  <1>9. ASSUME NEW i \in EnabledOf(s), NEW j \in EnabledOf(s), i # j
        PROVE  s[i].entries[1].mi # s[j].entries[1].mi
    <2>1. CASE i = n + 1
      BY <1>1, <1>6, <1>7, <1>9, <2>1 DEF EnabledOK
    <2>2. CASE j = n + 1
      BY <1>1, <1>6, <1>7, <1>9, <2>2 DEF EnabledOK
    <2>3. CASE i # n + 1 /\ j # n + 1
      BY <1>7, <1>9, <2>3 DEF EnabledOK
    <2> QED
      BY <2>1, <2>2, <2>3
  <1>10. EnabledOK(s, S \union {m})
    BY <1>8, <1>9 DEF EnabledOK
  <1> QED
    BY <1>2, <1>3, <1>10 DEF r, s, x

(* The end of the next interval of instance m.                             *)
EndOf(m) == intvl[m].start + (IF intvl[m].width = 0 THEN globalWidth ELSE intvl[m].width)

(* The widths that the streams are told of when that interval is added.    *)
ToldOf(m) == Told(m, FoldCount(m, EndOf(m)))

(* The samples that are then in the buffer: those of the bins before the   *)
(* last of the interval follow what was there and is not sent by a fold.   *)
Sampled(m, h) ==
    (IF ToldOf(m) = <<>> THEN buffer ELSE <<>>)
        \o Entries(m, h, intvl[m].start \div h.width, h.lastBin - 1)

(* What an interval does to the widths, and what is sent of it.            *)
LEMMA AggregateSends ==
    ASSUME DMInv, NEW m \in MI, Aggregate(m)
    PROVE  LET count == FoldCount(m, EndOf(m))
               folded == Folded(m, count)
               told == ToldOf(m)
               h == hist'[m]
               folds == IF told = <<>> THEN <<>> ELSE FoldMessages(told)
               rest == IF told = <<>> THEN buffer ELSE <<>>
               es == Sampled(m, h)
               size == Cardinality(users)
           IN  /\ hist[m].active /\ count \in Nat /\ h \in HistType
               /\ \A i \in MI : /\ hist'[i].exists = hist[i].exists
                                /\ hist'[i].width = folded[count][i].width
               /\ intvl[m].start \div h.width \in Nat /\ h.lastBin - 1 < numBins
               /\ intvl[m].start \div h.width <= (h.lastBin - 1) + 1
               /\ globalWidth' = IF told = <<>> THEN globalWidth ELSE told[Len(told)]
               /\ IF m \in users
                  THEN mail' = mail \o folds \o Sent(es, size) /\ buffer' = Left(es, size)
                  ELSE mail' = mail \o folds /\ buffer' = rest
               /\ UNCHANGED <<subscribers, thread, visi, torn, odd>>
               /\ \A i \in MI : kept[i] \subseteq kept'[i]
  <1> DEFINE start == intvl[m].start
             end == EndOf(m)
             units == (Max({start, intvl[m].since}) + 1) .. end
             count == FoldCount(m, end)
             folded == Folded(m, count)
             told == ToldOf(m)
             h == FilledHist(folded[count][m], start, end, units)
             folds == IF told = <<>> THEN <<>> ELSE FoldMessages(told)
             rest == IF told = <<>> THEN buffer ELSE <<>>
             es == rest \o Entries(m, h, start \div h.width, h.lastBin - 1)
             size == Cardinality(users)
  <1>0. DMTypeOK /\ HistInv
    BY DEF DMInv
  <1>1. /\ hist[m].active /\ start \in Nat /\ end \in 0 .. MaxTime /\ start <= end
        /\ units \in SUBSET ((start + 1) .. end)
        /\ AddInterval(m, start, end, units)
        /\ UNCHANGED <<subscribers, thread, visi, torn, odd>>
    BY AggregateDoes DEF EndOf
  <1> HIDE DEF end
  <1>2. told = Told(m, count)
    BY DEF ToldOf, end
  <1> HIDE DEF start, units, told
  <1>3. /\ count \in Nat
        /\ hist' \in [MI -> HistType] /\ hist'[m].lastBin \in Bin
        /\ \A i \in MI : /\ hist'[i].exists = hist[i].exists
                         /\ hist'[i].width = folded[count][i].width
    BY <1>0, <1>1, AddIntervalDoes
  <1>4. /\ hist' = [folded[count] EXCEPT ![m] = h]
        /\ globalWidth' = IF told = <<>> THEN globalWidth ELSE told[Len(told)]
        /\ IF m \in users
           THEN mail' = mail \o folds \o Sent(es, size) /\ buffer' = Left(es, size)
           ELSE mail' = mail \o folds /\ buffer' = rest
    BY <1>1, <1>2 DEF AddInterval, FoldMessages, FilledHist
  <1>5. hist'[m] = h /\ h \in HistType
    <2>1. folded[count] \in Hists
      <3>1. count \in 0 .. count
        BY <1>3
      <3> QED
        BY <1>0, <1>3, <3>1, FoldedIs
    <2>2. folded[count] \in [MI -> HistType]
      BY <2>1 DEF Hists
    <2>3. hist'[m] = h
      <3> HIDE DEF h, folded, count
      <3> QED
        BY <1>4, <2>2
    <2>4. hist'[m] \in HistType
      BY <1>3
    <2> QED
      BY <2>3, <2>4
  <1>6. h.lastBin = end \div h.width /\ h.width \in Nat \ {0} /\ h.lastBin \in Bin
    <2>1. h.width \in Nat \ {0} /\ h.lastBin \in Bin
      <3> HIDE DEF h
      <3> QED
        BY <1>3, <1>5 DEF HistType
    <2>2. h.lastBin = end \div folded[count][m].width
      <3>1. h = [BucketValue(folded[count][m], start, end, units) EXCEPT
                    !.lastBin = end \div folded[count][m].width]
        BY DEF FilledHist
      <3>2. BucketValue(folded[count][m], start, end, units) \in HistType
            \/ "lastBin" \in DOMAIN BucketValue(folded[count][m], start, end, units)
        <4>1. folded[count][m] \in HistType
          <5>1. count \in 0 .. count
            BY <1>3
          <5>2. folded[count] \in Hists
            BY <1>0, <1>3, <5>1, FoldedIs
          <5> QED
            BY <5>2 DEF Hists
        <4> HIDE DEF folded, count
        <4>2. "lastBin" \in DOMAIN folded[count][m]
          BY <4>1 DEF HistType
        <4> QED
          BY <4>2 DEF BucketValue
      <3>3. "lastBin" \in DOMAIN BucketValue(folded[count][m], start, end, units)
        BY <3>2 DEF HistType
      <3> HIDE DEF h, folded, count
      <3> QED
        BY <3>1, <3>3
    <2>3. hist'[m].width = folded[count][m].width
      BY <1>3
    <2>4. h.width = folded[count][m].width
      <3> HIDE DEF h, folded, count
      <3> QED
        BY <1>5, <2>3
    <2> HIDE DEF h, folded, count
    <2> QED
      BY <2>1, <2>2, <2>4
  <1> HIDE DEF h, folded, count
  <1>7. start \div h.width \in Nat /\ h.lastBin - 1 < numBins /\ start \div h.width <= (h.lastBin - 1) + 1
    <2> DEFINE first == start \div h.width
               last == end \div h.width
    <2>1. /\ first \in Nat /\ last \in Nat
          /\ first * h.width <= start /\ end < (last + 1) * h.width
      BY <1>1, <1>6, NumBins, Quotient
    <2>2. last = h.lastBin
      BY <1>6
    <2> HIDE DEF first, last
    <2>3. first <= last
      <3>1. SUFFICES ASSUME last + 1 <= first PROVE FALSE
        BY <2>1
      <3>2. (last + 1) * h.width <= first * h.width
        BY <1>6, <2>1, <3>1, TimesOrder
      <3>3. (last + 1) * h.width \in Int /\ first * h.width \in Int
        BY <1>6, <2>1
      <3> QED
        BY <1>1, <2>1, <3>2, <3>3, NumBins
    <2>4. first \in Nat /\ last - 1 < numBins /\ first <= (last - 1) + 1
      BY <1>6, <2>1, <2>2, <2>3, NumBins DEF Bin
    <2> QED
      BY <2>2, <2>4 DEF first
  <1>8. \A i \in MI : kept[i] \subseteq kept'[i]
    <2>1. kept' = [kept EXCEPT ![m] = @ \union units]
      BY <1>1 DEF AddInterval
    <2>2. kept \in [MI -> SUBSET (0 .. MaxTime)]
      BY <1>0 DEF DMTypeOK
    <2> QED
      BY <2>1, <2>2
  <1>9. es = Sampled(m, hist'[m])
    BY <1>5 DEF Sampled, start, told
  <1> HIDE DEF es
  <1> QED
    <2>1. /\ hist[m].active /\ count \in Nat /\ hist'[m] \in HistType
          /\ \A i \in MI : /\ hist'[i].exists = hist[i].exists
                           /\ hist'[i].width = folded[count][i].width
          /\ UNCHANGED <<subscribers, thread, visi, torn, odd>>
      BY <1>1, <1>3, <1>5
    <2>2. /\ start \div hist'[m].width \in Nat /\ hist'[m].lastBin - 1 < numBins
          /\ start \div hist'[m].width <= (hist'[m].lastBin - 1) + 1
      BY <1>5, <1>7
    <2> HIDE DEF folds, rest, size
    <2>3. IF m \in users
          THEN mail' = mail \o folds \o Sent(Sampled(m, hist'[m]), size)
               /\ buffer' = Left(Sampled(m, hist'[m]), size)
          ELSE mail' = mail \o folds /\ buffer' = rest
      BY <1>4, <1>9
    <2> QED
      BY <1>4, <1>8, <2>1, <2>2, <2>3 DEF start, count, folded, told, end, folds, rest, size

(* An interval keeps the histograms of one width, and the visi thread is   *)
(* told of every fold.                                                     *)
LEMMA AggregateFlow ==
    ASSUME FlowInv, NEW m \in MI, Aggregate(m)
    PROVE  FlowInv'
  <1> DEFINE count == FoldCount(m, EndOf(m))
             folded == Folded(m, count)
             told == ToldOf(m)
             h == hist'[m]
             folds == IF told = <<>> THEN <<>> ELSE FoldMessages(told)
             rest == IF told = <<>> THEN buffer ELSE <<>>
             es == Sampled(m, h)
             size == Cardinality(users)
             S == users \ mrlist
  <1>0. DMInv /\ DMTypeOK /\ HistInv /\ SameWidth /\ FlowTypeOK /\ FoldsInv /\ VisiInv
    BY DEF FlowInv, DMInv
  <1>1. DMInv'
    BY <1>0, AggregateKeeps
  <1>2. /\ hist[m].active /\ count \in Nat /\ h \in HistType
        /\ \A i \in MI : /\ hist'[i].exists = hist[i].exists
                         /\ hist'[i].width = folded[count][i].width
        /\ intvl[m].start \div h.width \in Nat /\ h.lastBin - 1 < numBins
        /\ intvl[m].start \div h.width <= (h.lastBin - 1) + 1
        /\ UNCHANGED <<subscribers, thread, visi, torn, odd>>
    BY <1>0, AggregateSends
  <1>3. told = Told(m, count)
    BY DEF ToldOf
  <1>4. /\ globalWidth' = IF told = <<>> THEN globalWidth ELSE told[Len(told)]
        /\ IF m \in users
           THEN mail' = mail \o folds \o Sent(es, size) /\ buffer' = Left(es, size)
           ELSE mail' = mail \o folds /\ buffer' = rest
    BY <1>0, AggregateSends
  <1> HIDE DEF folded, count, told
  <1>7. Entries(m, h, intvl[m].start \div h.width, h.lastBin - 1) \in Seq(Entry)
    <2>1. PICK first \in Nat, last \in Int : /\ first = intvl[m].start \div h.width
                                           /\ last = h.lastBin - 1
                                           /\ first <= last + 1 /\ last < numBins
      <3>1. h.lastBin \in Int
        BY <1>2 DEF HistType, Bin
      <3> QED
        BY <1>2, <3>1
    <2> HIDE DEF h
    <2>2. ASSUME NEW b \in first .. last PROVE Sample(m, h, b) \in Entry
      <3>1. b \in Bin
        BY <2>1, NumBins DEF Bin
      <3> QED
        BY <1>2, <3>1, SampleType
    <2> QED
      BY <2>1, <2>2, EntriesIs
  <1>8. mail \in Seq(Message) /\ buffer \in Seq(Entry) /\ vwidth \in Nat /\ binWidth \in Nat
    BY <1>0 DEF FlowTypeOK
  <1>9. rest \in Seq(Entry) /\ es \in Seq(Entry)
    <2>1. rest \in Seq(Entry)
      BY <1>8
    <2> HIDE DEF rest
    <2>2. es = rest \o Entries(m, h, intvl[m].start \div h.width, h.lastBin - 1)
      BY DEF Sampled, rest, told
    <2> QED
      BY <1>7, <2>1, <2>2, ConcatProperties
  <1>10. globalWidth \in Nat \ {0} /\ globalWidth' \in Nat \ {0}
    BY <1>0, <1>1 DEF DMInv, DMTypeOK
  <1>11. /\ folds \in Seq(Message) /\ EnabledOf(folds) = {}
         /\ \/ FoldsOf(folds) = {} /\ globalWidth' = globalWidth
            \/ FoldsOf(folds) # {} /\ OrderedFolds(folds, globalWidth, globalWidth')
         /\ globalWidth <= globalWidth'
    <2>1. CASE told = <<>>
      BY <1>4, <1>10, <2>1, EmptyMail
    <2>2. CASE told # <<>>
      <3>1. /\ told \in Seq(Wider(m, count)) /\ Wider(m, count) \in SUBSET Nat
            /\ Ascending(told, Len(told))
        BY <1>0, <1>2, <1>3, ToldIs
      <3>2. told \in Seq(Nat)
        BY <3>1, SeqMonotonic
      <3>3. \A i \in 1 .. Len(told) : told[i] > globalWidth
        <4>1. \A w \in Wider(m, count) : w > globalWidth
          BY DEF Wider
        <4> QED
          BY <3>1, <4>1, ElementOfSeq
      <3>4. /\ FoldMessages(told) \in Seq(Message)
            /\ FoldsOf(FoldMessages(told)) # {} /\ EnabledOf(FoldMessages(told)) = {}
            /\ OrderedFolds(FoldMessages(told), globalWidth, told[Len(told)])
            /\ globalWidth < told[Len(told)]
        BY <1>8, <1>10, <2>2, <3>1, <3>2, <3>3, FoldMessagesIs
      <3> QED
        BY <1>4, <1>10, <2>2, <3>4
    <2> QED
      BY <2>1, <2>2
  <1> HIDE DEF folds
  <1>12. EnabledOK(mail, S)
    BY <1>0 DEF VisiInv
  <1>13. /\ mail \o folds \in Seq(Message)
         /\ OrderedFolds(mail \o folds, vwidth, globalWidth')
         /\ EnabledOK(mail \o folds, S)
         /\ FoldsOf(mail \o folds) = {} => FoldsOf(mail) = {} /\ globalWidth' = globalWidth
    BY <1>0, <1>8, <1>10, <1>11, <1>12, MailGrows
  <1>14. /\ mail' \in Seq(Message) /\ buffer' \in Seq(Entry)
         /\ OrderedFolds(mail', vwidth, globalWidth')
         /\ EnabledOK(mail', S)
         /\ FoldsOf(mail') = {} => FoldsOf(mail) = {} /\ globalWidth' = globalWidth
         /\ buffer' # <<>> => Len(buffer') < Cardinality(users)
    <2>1. CASE m \in users
      <3>1. IsFiniteSet(users) /\ size \in Nat \ {0}
        <4>1. users \in SUBSET MI
          BY <1>0 DEF DMTypeOK
        <4>2. IsFiniteSet(users)
          BY <4>1, NumBins, FS_Subset
        <4> QED
          BY <2>1, <4>2, FS_CardinalityType, FS_EmptySet
      <3> HIDE DEF es, size
      <3>2. /\ Sent(es, size) \in Seq(Message)
            /\ FoldsOf(Sent(es, size)) = {} /\ EnabledOf(Sent(es, size)) = {}
            /\ Left(es, size) \in Seq(Entry) /\ Len(Left(es, size)) < size
        BY <1>9, <3>1, SentIs
      <3> DEFINE q == mail \o folds
                 s == Sent(es, size)
      <3>3. mail' = q \o s /\ buffer' = Left(es, size)
        BY <1>4, <2>1
      <3> HIDE DEF q, s
      <3>4. q \o s \in Seq(Message)
        BY <1>13, <3>2, Positions DEF q, s
      <3>5. FoldsOf(q \o s) = FoldsOf(q) /\ OrderedFolds(q \o s, vwidth, globalWidth')
        BY <1>13, <3>2, AppendNoFolds DEF q, s
      <3>6. EnabledOK(q \o s, S)
        BY <1>13, <3>2, AppendNoEnabled DEF q, s
      <3> QED
        BY <1>13, <3>2, <3>3, <3>4, <3>5, <3>6 DEF q, s, size
    <2>2. CASE m \notin users
      <3>1. mail' = mail \o folds /\ buffer' = rest
        BY <1>4, <2>2
      <3>2. buffer' # <<>> => Len(buffer') < Cardinality(users)
        BY <1>0, <3>1 DEF FlowTypeOK
      <3> QED
        BY <1>9, <1>13, <3>1, <3>2
    <2> QED
      BY <2>1, <2>2
  <1>15. UNCHANGED <<users, others, mrlist, vwidth, fetching, binWidth, odd>>
    BY <1>2 DEF subscribers, thread, visi
  <1>16. FlowTypeOK'
    BY <1>0, <1>14, <1>15 DEF FlowTypeOK
  <1>17. FoldsInv'
    <2>1. vwidth <= globalWidth'
      BY <1>0, <1>8, <1>10, <1>11 DEF FoldsInv
    <2> QED
      BY <1>14, <1>15, <2>1 DEF FoldsInv
  <1>18. VisiInv'
    BY <1>0, <1>14, <1>15 DEF VisiInv
  <1>19. SameWidth'
    <2>1. MinWidth <= globalWidth'
      BY <1>0, <1>10, <1>11, NumBins DEF SameWidth
    <2>2. ASSUME ~odd, NEW i \in MI, hist'[i].exists PROVE hist'[i].width = globalWidth'
      <3>1. MinWidth <= globalWidth /\ \A j \in MI : hist[j].exists => hist[j].width = globalWidth
        BY <1>0, <2>2 DEF SameWidth
      <3>2. globalWidth' = globalWidth * Doubled[count]
        BY <1>0, <1>2, <1>3, <1>4, <3>1, ToldWidth
      <3>3. count \in 0 .. count
        BY <1>2
      <3>4. hist[i].exists
        BY <1>2, <2>2
      <3>5. folded[count][i].width = globalWidth * Doubled[count]
        BY <1>0, <1>2, <1>10, <3>1, <3>3, <3>4, FoldedSame DEF folded
      <3> QED
        BY <1>2, <3>2, <3>5
    <2> QED
      BY <1>15, <2>1, <2>2 DEF SameWidth
  <1> QED
    BY <1>1, <1>16, <1>17, <1>18, <1>19 DEF FlowInv

(* The invariant of the flow holds before the visi subscribes.             *)
LEMMA FlowInvInit == Init => FlowInv
  <1> SUFFICES ASSUME Init PROVE FlowInv
    OBVIOUS
  <1>1. SameWidth
    BY NumBins DEF Init, SameWidth, NoHist
  <1>2. mail = <<>> /\ buffer = <<>> /\ users = {} /\ mrlist = {} /\ fetching = {} /\ binWidth = 0
        /\ vwidth = MinWidth /\ globalWidth = MinWidth
    BY DEF Init
  <1>3. FlowTypeOK
    BY <1>2, NumBins DEF FlowTypeOK
  <1>4. FoldsInv
    BY <1>2, EmptyMail, NumBins DEF FoldsInv, OrderedFolds
  <1>5. VisiInv
    BY <1>2, EmptyMail DEF VisiInv, EnabledOK
  <1> QED
    BY <1>1, <1>3, <1>4, <1>5, DMInvInit DEF FlowInv

(* What holds in every state of FlowInv, in one place.                     *)
LEMMA FlowFacts ==
    ASSUME FlowInv
    PROVE  /\ DMInv /\ SameWidth /\ FlowTypeOK /\ FoldsInv /\ VisiInv
           /\ mail \in Seq(Message) /\ buffer \in Seq(Entry)
           /\ vwidth \in Nat /\ binWidth \in Nat
           /\ globalWidth \in Nat /\ globalBucketSize \in Nat \ {0}
           /\ mrlist \subseteq users /\ fetching \subseteq mrlist
           /\ users \in SUBSET MI /\ others \in SUBSET MI
  BY DEF FlowInv, DMInv, DMTypeOK, FlowTypeOK

(* A step that concerns neither the histograms' widths nor the mailbox.    *)
LEMMA FlowUnchanged ==
    ASSUME FlowInv, DMInv',
           UNCHANGED <<hist, globalWidth, odd, users, buffer, mail, mrlist, vwidth, binWidth>>,
           fetching' \subseteq fetching
    PROVE  FlowInv'
  <1>1. SameWidth'
    BY DEF FlowInv, SameWidth
  <1>2. FlowTypeOK'
    BY DEF FlowInv, FlowTypeOK
  <1>3. FoldsInv' /\ VisiInv'
    BY DEF FlowInv, FoldsInv, VisiInv
  <1> QED
    BY <1>1, <1>2, <1>3 DEF FlowInv

(* A subscription keeps the invariant of the flow: the buffer is sent      *)
(* before the response for the new instance (enableResponse).              *)
LEMMA SubscribeFlow ==
    ASSUME FlowInv, DMInv', NEW m \in MI, Subscribe(m)
    PROVE  FlowInv'
  <1> DEFINE S == users \ mrlist
             a == Nonempty(buffer)
             b == <<EnabledMessage(m)>>
  <1>0. /\ DMInv /\ SameWidth /\ FlowTypeOK /\ FoldsInv /\ VisiInv
        /\ mail \in Seq(Message) /\ buffer \in Seq(Entry) /\ vwidth \in Nat /\ globalWidth \in Nat
    BY FlowFacts
  <1>1. /\ m \notin users /\ m \notin mrlist /\ users' = users \union {m}
        /\ buffer' = <<>> /\ mail' = mail \o a \o b
        /\ UNCHANGED <<others, thread, visi, torn>>
    BY DEF Subscribe
  <1>2. PICK since \in {Now, Now + 1} : Open(m, since)
    BY DEF Subscribe
  <1>3. globalWidth' = globalWidth /\ (odd => odd')
    BY <1>2 DEF Open
  <1>4. SameWidth'
    BY <1>0, <1>2, OpenSameWidth
  <1>5. UNCHANGED <<mrlist, vwidth, fetching, binWidth>>
    BY <1>1 DEF thread, visi
  <1>6. a \in Seq(Message) /\ FoldsOf(a) = {} /\ EnabledOf(a) = {}
    BY <1>0, DataMessages
  <1>7. EnabledOK(mail, S) /\ OrderedFolds(mail, vwidth, globalWidth)
    BY <1>0 DEF VisiInv, FoldsInv
  <1> HIDE DEF a
  <1>8. /\ mail \o a \in Seq(Message) /\ FoldsOf(mail \o a) = FoldsOf(mail)
        /\ OrderedFolds(mail \o a, vwidth, globalWidth) /\ EnabledOK(mail \o a, S)
    BY <1>0, <1>6, <1>7, Positions, AppendNoFolds, AppendNoEnabled
  <1> DEFINE q == mail \o a
  <1> HIDE DEF q
  <1>9. /\ b \in Seq(Message) /\ FoldsOf(b) = {}
        /\ EnabledOK(q \o b, S \union {m})
    <2>1. m \notin S
      BY <1>1
    <2> HIDE DEF S
    <2> QED
      BY <1>8, <2>1, AppendEnabled DEF q
  <1> HIDE DEF b
  <1>10. /\ mail' \in Seq(Message) /\ FoldsOf(mail') = FoldsOf(mail)
         /\ OrderedFolds(mail', vwidth, globalWidth) /\ EnabledOK(mail', S \union {m})
    <2>1. mail' = q \o b /\ q \in Seq(Message) /\ FoldsOf(q) = FoldsOf(mail)
          /\ OrderedFolds(q, vwidth, globalWidth)
      BY <1>1, <1>8 DEF q
    <2>2. q \o b \in Seq(Message)
      BY <1>9, <2>1, Positions
    <2>3. FoldsOf(q \o b) = FoldsOf(q) /\ OrderedFolds(q \o b, vwidth, globalWidth)
      BY <1>9, <2>1, AppendNoFolds
    <2> QED
      BY <1>9, <2>1, <2>2, <2>3
  <1>11. users' \ mrlist' = S \union {m}
    BY <1>1, <1>5
  <1>12. FlowTypeOK'
    <2>1. <<>> \in Seq(Entry)
      OBVIOUS
    <2> QED
      BY <1>0, <1>1, <1>5, <1>10, <2>1 DEF FlowTypeOK
  <1>13. FoldsInv'
    BY <1>0, <1>3, <1>5, <1>10 DEF FoldsInv
  <1>14. VisiInv'
    BY <1>0, <1>3, <1>5, <1>10, <1>11 DEF VisiInv
  <1> QED
    BY <1>4, <1>12, <1>13, <1>14 DEF FlowInv

(* A subscription that ends keeps the invariant of the flow.               *)
LEMMA StopFlow ==
    ASSUME FlowInv, DMInv', NEW m \in MI, StopMetricResource(m)
    PROVE  FlowInv'
  <1> DEFINE S == users \ mrlist
             a == Nonempty(buffer)
  <1>0. /\ DMInv /\ SameWidth /\ FlowTypeOK /\ FoldsInv /\ VisiInv
        /\ mail \in Seq(Message) /\ buffer \in Seq(Entry) /\ vwidth \in Nat /\ globalWidth \in Nat
        /\ mrlist \subseteq users
    BY FlowFacts
  <1>1. /\ fetching = {} /\ m \in mrlist /\ users' = users \ {m} /\ mrlist' = mrlist \ {m}
        /\ buffer' = <<>> /\ mail' = mail \o a
        /\ UNCHANGED <<vwidth, fetching, binWidth, odd>>
        /\ IF m \in others THEN UNCHANGED dm ELSE Close(m)
    BY DEF StopMetricResource, Idle
  <1>2. globalWidth' = globalWidth
    BY <1>1 DEF Close, dm
  <1>3. SameWidth'
    <2>1. CASE m \in others
      BY <1>0, <1>1, <2>1 DEF SameWidth, dm
    <2>2. CASE m \notin others
      BY <1>0, <1>1, <2>2, CloseSameWidth
    <2> QED
      BY <2>1, <2>2
  <1>4. a \in Seq(Message) /\ FoldsOf(a) = {} /\ EnabledOf(a) = {}
    BY <1>0, DataMessages
  <1>5. EnabledOK(mail, S) /\ OrderedFolds(mail, vwidth, globalWidth)
    BY <1>0 DEF VisiInv, FoldsInv
  <1> HIDE DEF a
  <1>6. /\ mail' \in Seq(Message) /\ FoldsOf(mail') = FoldsOf(mail)
        /\ OrderedFolds(mail', vwidth, globalWidth) /\ EnabledOK(mail', S)
    BY <1>0, <1>1, <1>4, <1>5, Positions, AppendNoFolds, AppendNoEnabled
  <1>7. users' \ mrlist' = S /\ mrlist' \subseteq users' /\ mrlist # {}
    BY <1>0, <1>1
  <1>8. FlowTypeOK'
    <2>1. <<>> \in Seq(Entry)
      OBVIOUS
    <2> QED
      BY <1>0, <1>1, <1>6, <1>7, <2>1 DEF FlowTypeOK
  <1>9. FoldsInv'
    BY <1>0, <1>1, <1>2, <1>6 DEF FoldsInv
  <1>10. VisiInv'
    BY <1>0, <1>1, <1>2, <1>6, <1>7 DEF VisiInv
  <1> QED
    BY <1>3, <1>8, <1>9, <1>10 DEF FlowInv

(* Handling a response keeps the invariant of the flow: the visi's bin     *)
(* width is set by the first instance and by none after it.                *)
LEMMA EnableCallbackFlow ==
    ASSUME FlowInv, DMInv', EnableCallback
    PROVE  FlowInv'
  <1> DEFINE m == Head(mail).entries[1].mi
             S == users \ mrlist
  <1>0. /\ DMInv /\ SameWidth /\ FlowTypeOK /\ FoldsInv /\ VisiInv
        /\ mail \in Seq(Message) /\ vwidth \in Nat /\ globalWidth \in Nat
        /\ binWidth \in Nat /\ globalBucketSize \in Nat \ {0}
    BY FlowFacts
  <1>1. /\ mail # <<>> /\ Head(mail).kind = "enabled" /\ mail' = Tail(mail)
        /\ mrlist' = mrlist \union {m} /\ fetching' = {m}
        /\ binWidth' = IF binWidth # 0 THEN binWidth ELSE globalBucketSize
        /\ odd' = (odd \/ (binWidth = 0 /\ globalBucketSize # globalWidth))
        /\ UNCHANGED <<dm, subscribers, buffer, vwidth>>
    BY DEF EnableCallback, started
  <1>2. UNCHANGED <<hist, globalWidth, users, others>>
    BY <1>1 DEF dm, subscribers
  <1>3. Tail(mail) \in Seq(Message)
    BY <1>0, <1>1, TailPositions
  <1>4. EnabledOK(mail, S) /\ OrderedFolds(mail, vwidth, globalWidth)
    BY <1>0 DEF VisiInv, FoldsInv
  <1>5. m \in S /\ EnabledOK(Tail(mail), S \ {m})
    BY <1>0, <1>1, <1>4, TailEnabled
  <1>6. /\ OrderedFolds(Tail(mail), vwidth, globalWidth)
        /\ FoldsOf(Tail(mail)) = {} <=> FoldsOf(mail) = {}
    <2>1. Head(mail).kind # "fold"
      BY <1>1
    <2> QED
      BY <1>0, <1>1, <1>4, <2>1, TailFolds
  <1> HIDE DEF m
  <1>7. users' \ mrlist' = S \ {m} /\ mrlist' \subseteq users' /\ fetching' \subseteq mrlist'
    BY <1>0, <1>1, <1>2, <1>5 DEF FlowTypeOK
  <1>8. SameWidth'
    BY <1>0, <1>1, <1>2 DEF SameWidth
  <1>9. FlowTypeOK'
    BY <1>0, <1>1, <1>2, <1>3, <1>7 DEF FlowTypeOK
  <1>10. FoldsInv'
    BY <1>0, <1>1, <1>2, <1>6 DEF FoldsInv
  <1>11. VisiInv'
    <2>1. binWidth' # 0
      BY <1>0, <1>1
    <2>2. EnabledOK(mail', users' \ mrlist')
      BY <1>1, <1>5, <1>7
    <2>3. ~odd' /\ FoldsOf(mail') = {} => binWidth' = globalWidth
      BY <1>0, <1>1, <1>6 DEF VisiInv
    <2> QED
      BY <1>2, <2>1, <2>2, <2>3 DEF VisiInv
  <1> QED
    BY <1>8, <1>9, <1>10, <1>11 DEF FlowInv

(* Handling data keeps the invariant of the flow.                          *)
LEMMA DataCallbackFlow ==
    ASSUME FlowInv, DMInv', DataCallback
    PROVE  FlowInv'
  <1>0. /\ DMInv /\ SameWidth /\ FlowTypeOK /\ FoldsInv /\ VisiInv
        /\ mail \in Seq(Message) /\ vwidth \in Nat /\ globalWidth \in Nat
    BY FlowFacts
  <1>1. /\ mail # <<>> /\ Head(mail).kind = "data" /\ mail' = Tail(mail)
        /\ UNCHANGED <<dm, subscribers, buffer, mrlist, vwidth, fetching, binWidth, odd>>
    BY DEF DataCallback
  <1>2. UNCHANGED <<hist, globalWidth, users, others>>
    BY <1>1 DEF dm, subscribers
  <1>3. Tail(mail) \in Seq(Message)
    BY <1>0, <1>1, TailPositions
  <1>4. EnabledOK(mail, users \ mrlist) /\ OrderedFolds(mail, vwidth, globalWidth)
    BY <1>0 DEF VisiInv, FoldsInv
  <1>5. EnabledOK(Tail(mail), users \ mrlist)
    BY <1>0, <1>1, <1>4, TailEnabled
  <1>6. /\ OrderedFolds(Tail(mail), vwidth, globalWidth)
        /\ FoldsOf(Tail(mail)) = {} <=> FoldsOf(mail) = {}
    <2>1. Head(mail).kind # "fold"
      BY <1>1
    <2> QED
      BY <1>0, <1>1, <1>4, <2>1, TailFolds
  <1>7. SameWidth' /\ FlowTypeOK' /\ FoldsInv'
    BY <1>0, <1>1, <1>2, <1>3, <1>6 DEF SameWidth, FlowTypeOK, FoldsInv
  <1>8. VisiInv'
    BY <1>0, <1>1, <1>2, <1>5, <1>6 DEF VisiInv
  <1> QED
    BY <1>7, <1>8 DEF FlowInv

(* Handling a fold keeps the invariant of the flow: the width the visi is  *)
(* given is the one of the next step of the way to globalWidth.            *)
LEMMA FoldCallbackFlow ==
    ASSUME FlowInv, DMInv', FoldCallback
    PROVE  FlowInv'
  <1> DEFINE width == Head(mail).width
  <1>0. /\ DMInv /\ SameWidth /\ FlowTypeOK /\ FoldsInv /\ VisiInv
        /\ mail \in Seq(Message) /\ vwidth \in Nat /\ globalWidth \in Nat /\ binWidth \in Nat
    BY FlowFacts
  <1>1. /\ mail # <<>> /\ Head(mail).kind = "fold" /\ mail' = Tail(mail)
        /\ IF binWidth # 0 /\ vwidth # width THEN binWidth' = width /\ vwidth' = width
           ELSE UNCHANGED <<binWidth, vwidth>>
        /\ UNCHANGED <<dm, subscribers, buffer, mrlist, fetching, odd>>
    BY DEF FoldCallback, started
  <1>2. UNCHANGED <<hist, globalWidth, users, others>>
    BY <1>1 DEF dm, subscribers
  <1>3. Tail(mail) \in Seq(Message) /\ width \in Nat
    BY <1>0, <1>1, TailPositions, MessageWidth
  <1>4. EnabledOK(mail, users \ mrlist) /\ OrderedFolds(mail, vwidth, globalWidth)
    BY <1>0 DEF VisiInv, FoldsInv
  <1>5. EnabledOK(Tail(mail), users \ mrlist)
    BY <1>0, <1>1, <1>4, TailEnabled
  <1>6. /\ vwidth < width /\ width <= globalWidth
        /\ OrderedFolds(Tail(mail), width, globalWidth)
        /\ FoldsOf(Tail(mail)) = {} => width = globalWidth
    BY <1>0, <1>1, <1>4, TailFolds
  <1> HIDE DEF width
  <1>7. SameWidth'
    BY <1>0, <1>1, <1>2 DEF SameWidth
  <1>8. FlowTypeOK'
    BY <1>0, <1>1, <1>2, <1>3 DEF FlowTypeOK
  <1>9. FoldsInv'
    <2>1. CASE binWidth # 0
      BY <1>0, <1>1, <1>2, <1>3, <1>6, <2>1 DEF FoldsInv
    <2>2. CASE binWidth = 0
      <3>1. \A i \in FoldsOf(Tail(mail)) : Tail(mail)[i].width \in Nat
        <4>1. \A i \in FoldsOf(Tail(mail)) : Tail(mail)[i] \in Message
          BY <1>3, LenProperties, ElementOfSeq DEF FoldsOf
        <4> QED
          BY <4>1, MessageWidth
      <3> DEFINE t == Tail(mail)
      <3> HIDE DEF t
      <3>2. OrderedFolds(t, vwidth, globalWidth)
        <4>1. OrderedFolds(t, width, globalWidth) /\ \A i \in FoldsOf(t) : t[i].width \in Nat
          BY <1>6, <3>1 DEF t
        <4>2. \A i \in FoldsOf(t) : width < t[i].width /\ t[i].width <= globalWidth
          BY <4>1 DEF OrderedFolds
        <4>3. \A i \in FoldsOf(t) : vwidth < t[i].width
          BY <1>0, <1>3, <1>6, <4>1, <4>2
        <4> QED
          BY <4>1, <4>2, <4>3 DEF OrderedFolds
      <3> QED
        BY <1>0, <1>1, <1>2, <2>2, <3>2 DEF FoldsInv, t
    <2> QED
      BY <2>1, <2>2
  <1>10. VisiInv'
    <2>1. CASE binWidth # 0
      <3>1. binWidth' = width /\ width # 0
        BY <1>0, <1>1, <1>3, <1>6, <2>1
      <3> QED
        BY <1>0, <1>1, <1>2, <1>5, <1>6, <3>1 DEF VisiInv
    <2>2. CASE binWidth = 0
      BY <1>0, <1>1, <1>2, <1>5, <2>2 DEF VisiInv
    <2> QED
      BY <2>1, <2>2
  <1> QED
    BY <1>7, <1>8, <1>9, <1>10 DEF FlowInv

(* Every step of the data path keeps the invariant of the flow.            *)
LEMMA FlowInvNext ==
    ASSUME FlowInv, [Next]_vars
    PROVE  FlowInv'
  <1>0. DMInv /\ SameWidth /\ fetching \subseteq mrlist
    BY FlowFacts
  <1>1. DMInv'
    BY <1>0, DMInvNext
  <1>2. ASSUME NEW m \in MI, OpenOther(m) PROVE FlowInv'
    <2>1. PICK since \in {Now, Now + 1} : Open(m, since)
      BY <1>2 DEF OpenOther
    <2>2. SameWidth' /\ globalWidth' = globalWidth /\ (odd => odd')
      BY <1>0, <2>1, OpenSameWidth DEF Open
    <2>3. UNCHANGED <<users, buffer, mail, mrlist, vwidth, fetching, binWidth>>
      BY <1>2 DEF OpenOther, thread, visi
    <2> QED
      BY <1>1, <2>2, <2>3 DEF FlowInv, FlowTypeOK, FoldsInv, VisiInv
  <1>3. ASSUME NEW m \in MI, CloseOther(m) PROVE FlowInv'
    <2>1. /\ UNCHANGED <<users, buffer, mail, mrlist, vwidth, fetching, binWidth, odd>>
          /\ IF m \in users THEN UNCHANGED dm ELSE Close(m)
      BY <1>3 DEF CloseOther, thread, visi
    <2>2. SameWidth' /\ globalWidth' = globalWidth
      <3>1. CASE m \in users
        BY <1>0, <2>1, <3>1 DEF SameWidth, dm
      <3>2. CASE m \notin users
        BY <1>0, <2>1, <3>2, CloseSameWidth DEF Close
      <3> QED
        BY <3>1, <3>2
    <2> QED
      BY <1>1, <2>1, <2>2 DEF FlowInv, FlowTypeOK, FoldsInv, VisiInv
  <1>4. ASSUME NEW m \in MI, Subscribe(m) PROVE FlowInv'
    BY <1>1, <1>4, SubscribeFlow
  <1>5. ASSUME NEW m \in MI, Aggregate(m) PROVE FlowInv'
    BY <1>5, AggregateFlow
  <1>6. ASSUME NEW m \in MI, GetSampleValues(m) PROVE FlowInv'
    <2>1. /\ UNCHANGED <<dm, subscribers, buffer, mail, mrlist, vwidth, visi, odd>>
          /\ fetching' \subseteq fetching
      BY <1>6 DEF GetSampleValues
    <2> QED
      BY <1>1, <2>1, FlowUnchanged DEF dm, subscribers, visi
  <1>7. ASSUME NEW m \in MI, BulkDataTransfer(m) PROVE FlowInv'
    <2>1. /\ UNCHANGED <<dm, subscribers, buffer, mail, mrlist, vwidth, binWidth, odd>>
          /\ fetching' \subseteq fetching
      BY <1>7 DEF BulkDataTransfer
    <2> QED
      BY <1>1, <2>1, FlowUnchanged DEF dm, subscribers
  <1>8. ASSUME NEW m \in MI, StopMetricResource(m) PROVE FlowInv'
    BY <1>1, <1>8, StopFlow
  <1>9. ASSUME EnableCallback PROVE FlowInv'
    BY <1>1, <1>9, EnableCallbackFlow
  <1>10. ASSUME DataCallback PROVE FlowInv'
    BY <1>1, <1>10, DataCallbackFlow
  <1>11. ASSUME FoldCallback PROVE FlowInv'
    BY <1>1, <1>11, FoldCallbackFlow
  <1>12. ASSUME UNCHANGED vars PROVE FlowInv'
    BY <1>1, <1>12, FlowUnchanged DEF vars, dm, subscribers, thread, visi
  <1> QED
    BY <1>2, <1>3, <1>4, <1>5, <1>6, <1>7, <1>8, <1>9, <1>10, <1>11, <1>12 DEF Next

(* The messages on their way to a visi always tell, in order, each fold    *)
(* between the width the visi thread was last told and the data            *)
(* manager's, the last of them the current one; the responses are for      *)
(* different instances the visi does not know yet; the data buffer fits;   *)
(* and no histogram differs in width from the others while no instance     *)
(* was made with an odd first width (histFoldCallBack, VISIthreadmain.C).  *)
THEOREM FlowInvariant == Spec => []FlowInv
  <1>1. Init => FlowInv
    BY FlowInvInit
  <1>2. FlowInv /\ [Next]_vars => FlowInv'
    BY FlowInvNext
  <1> QED
    BY <1>1, <1>2, PTL DEF Spec

(* When no fold is on its way, the bin width the visi was told is the one  *)
(* of every histogram it draws, however the folds, subscriptions and       *)
(* messages interleave: for every number of bins and of instances, and     *)
(* folds of any number at once.                                            *)
THEOREM WidthsAlwaysAgree == Spec => []WidthsAgree
  <1>1. ASSUME FlowInv PROVE WidthsAgree
    <2>1. ASSUME NEW m \in mrlist, pendingFolds = {}, ~odd PROVE binWidth = hist[m].width
      <3>1. FoldsOf(mail) = {}
        BY <2>1 DEF pendingFolds, FoldsOf
      <3>2. binWidth = globalWidth
        BY <1>1, <2>1, <3>1 DEF FlowInv, VisiInv
      <3>3. m \in MI /\ m \in Used
        BY <1>1, FlowFacts DEF Used
      <3>4. hist[m].exists
        BY <1>1, <3>3 DEF FlowInv, DMInv, HistInv, HistOK
      <3> QED
        BY <1>1, <2>1, <3>2, <3>3, <3>4 DEF FlowInv, SameWidth
    <2> QED
      BY <2>1 DEF WidthsAgree
  <1> QED
    BY <1>1, FlowInvariant, PTL

(* g begins with x and goes on with the n steps of F.                      *)
AreSteps(g, S, F, x, n) ==
    g \in [0 .. n -> S] /\ g[0] = x /\ \A k \in 1 .. n : g[k] = F[k][g[k - 1]]

(* A function can be defined step by step, each step one of its own.       *)
LEMMA StepsExist ==
    ASSUME NEW S, NEW n \in Nat, NEW F \in [1 .. n -> [S -> S]], NEW x \in S
    PROVE  \E g : AreSteps(g, S, F, x, n)
  <1> DEFINE Is(g, k) == /\ g \in [0 .. k -> S] /\ g[0] = x
                         /\ \A i \in 1 .. k : g[i] = F[i][g[i - 1]]
             P == {k \in Nat : k <= n => \E g : Is(g, k)}
  <1>1. 0 \in P
    <2>1. Is([i \in 0 .. 0 |-> x], 0)
      OBVIOUS
    <2> QED
      BY <2>1
  <1>2. ASSUME NEW k \in P \intersect Nat PROVE k + 1 \in P
    <2>1. CASE k + 1 <= n
      <3>0. k \in 0 .. n /\ k + 1 \in 1 .. n
        BY <2>1
      <3>1. PICK g : Is(g, k)
        BY <2>1
      <3> DEFINE y == F[k + 1][g[k]]
                 h == [i \in 0 .. k + 1 |-> IF i = k + 1 THEN y ELSE g[i]]
      <3>2. y \in S /\ \A i \in 0 .. k : g[i] \in S
        BY <3>0, <3>1
      <3>3. h \in [0 .. k + 1 -> S]
        BY <3>2
      <3>4. h[k + 1] = y /\ \A i \in 0 .. k : h[i] = g[i]
        OBVIOUS
      <3> HIDE DEF h
      <3>5. h[0] = x
        BY <3>1, <3>4
      <3>6. ASSUME NEW i \in 1 .. k + 1 PROVE h[i] = F[i][h[i - 1]]
        <4>1. CASE i = k + 1
          <5>1. i - 1 = k /\ h[k] = g[k]
            BY <4>1, <3>4
          <5> QED
            BY <3>4, <4>1, <5>1
        <4>2. CASE i # k + 1
          <5>1. i \in 1 .. k /\ i \in 0 .. k /\ i - 1 \in 0 .. k
            BY <4>2
          <5>2. g[i] = F[i][g[i - 1]]
            BY <3>1, <5>1
          <5> QED
            BY <3>4, <5>1, <5>2
        <4> QED
          BY <4>1, <4>2
      <3>7. Is(h, k + 1)
        BY <3>3, <3>5, <3>6
      <3> QED
        BY <3>7
    <2>2. CASE ~(k + 1 <= n)
      BY <2>2
    <2> QED
      BY <2>1, <2>2
  <1>3. n \in P
    <2> HIDE DEF P
    <2> QED
      BY <1>1, <1>2, NatSetInduction
  <1> QED
    BY <1>3 DEF AreSteps

(* What is selected are elements at the positions asked for.               *)
LEMMA SelectedIs ==
    ASSUME NEW T, NEW es \in Seq(T), NEW R
    PROVE  /\ Selected(es, R) \in Seq(T)
           /\ \A i \in 1 .. Len(Selected(es, R)) :
                  \E j \in R \intersect DOMAIN es : Selected(es, R)[i] = es[j]
  <1>1. PICK n \in Nat : n = Len(es)
    OBVIOUS
  <1>2. DOMAIN es = 1 .. n /\ \A i \in 1 .. n : es[i] \in T
    BY <1>1
  <1>u. PICK U : U = {es[j] : j \in R \intersect DOMAIN es}
    OBVIOUS
  <1> DEFINE S == Seq(U)
             F == [k \in 1 .. n |-> [s \in S |-> IF k \in R THEN Append(s, es[k]) ELSE s]]
             Def(f) == [i \in 0 .. Len(es) |->
                           IF i = 0 THEN <<>>
                           ELSE IF i \in R THEN Append(f[i - 1], es[i]) ELSE f[i - 1]]
             sel == CHOOSE f : f = Def(f)
  <1>3. F \in [1 .. n -> [S -> S]]
    <2>1. ASSUME NEW k \in 1 .. n, NEW s \in S
          PROVE (IF k \in R THEN Append(s, es[k]) ELSE s) \in S
      <3>1. CASE k \in R
        <4>1. es[k] \in U
          BY <1>u, <1>2, <3>1
        <4>2. Append(s, es[k]) \in S
          BY <4>1
        <4> QED
          BY <3>1, <4>2
      <3> QED
        BY <3>1
    <2> HIDE DEF S
    <2> QED
      BY <2>1
  <1>4. <<>> \in S
    OBVIOUS
  <1>5. PICK g \in [0 .. n -> S] : g[0] = <<>> /\ \A k \in 1 .. n : g[k] = F[k][g[k - 1]]
    <2>1. PICK g : AreSteps(g, S, F, <<>>, n)
      <3> HIDE DEF F, S
      <3> QED
        BY <1>3, <1>4, StepsExist
    <2> HIDE DEF F, S
    <2> QED
      BY <2>1 DEF AreSteps
  <1>6. g = Def(g)
    <2>1. ASSUME NEW i \in 0 .. n
          PROVE g[i] = IF i = 0 THEN <<>>
                       ELSE IF i \in R THEN Append(g[i - 1], es[i]) ELSE g[i - 1]
      <3>1. CASE i # 0
        <4>1. i \in 1 .. n /\ i - 1 \in 0 .. n
          BY <3>1
        <4>2. g[i - 1] \in S
          BY <4>1
        <4>3. F[i][g[i - 1]] = IF i \in R THEN Append(g[i - 1], es[i]) ELSE g[i - 1]
          <5>1. PICK y \in S : y = g[i - 1]
            BY <4>2
          <5> HIDE DEF S
          <5>2. F[i] = [s \in S |-> IF i \in R THEN Append(s, es[i]) ELSE s]
            BY <4>1
          <5> HIDE DEF F
          <5>3. F[i][y] = IF i \in R THEN Append(y, es[i]) ELSE y
            BY <5>2
          <5> QED
            BY <5>1, <5>3
        <4> HIDE DEF F
        <4> QED
          BY <1>5, <3>1, <4>1, <4>3
      <3> QED
        BY <1>5, <3>1
    <2> HIDE DEF S
    <2> QED
      BY <1>1, <1>5, <2>1
  <1>7. sel = Def(sel)
    <2> HIDE DEF Def
    <2> QED
      BY <1>6
  <1> HIDE DEF sel
  <1> DEFINE P == {i \in Nat : i <= n => sel[i] \in S}
  <1>8. \A i \in 0 .. n : sel[i] = IF i = 0 THEN <<>>
                                   ELSE IF i \in R THEN Append(sel[i - 1], es[i]) ELSE sel[i - 1]
    <2>1. \A i \in 0 .. n : Def(sel)[i] = IF i = 0 THEN <<>>
                                   ELSE IF i \in R THEN Append(sel[i - 1], es[i]) ELSE sel[i - 1]
      BY <1>1
    <2> HIDE DEF Def
    <2> QED
      BY <1>7, <2>1
  <1>9. 0 \in P
    <2>1. sel[0] = <<>>
      BY <1>8
    <2> QED
      BY <1>4, <2>1
  <1>10. ASSUME NEW i \in P \intersect Nat PROVE i + 1 \in P
    <2>1. CASE i + 1 <= n
      <3>1. i + 1 \in 0 .. n /\ i + 1 \in DOMAIN es /\ i + 1 # 0 /\ (i + 1) - 1 = i /\ sel[i] \in S
        BY <1>2, <2>1
      <3>2. sel[i + 1] = IF i + 1 \in R THEN Append(sel[i], es[i + 1]) ELSE sel[i]
        BY <1>8, <3>1
      <3>3. CASE i + 1 \in R
        <4>1. PICK s \in S : s = sel[i]
          BY <3>1
        <4>2. es[i + 1] \in U
          BY <1>u, <3>1, <3>3
        <4>3. Append(s, es[i + 1]) \in S
          BY <4>2
        <4> HIDE DEF S
        <4>4. sel[i + 1] \in S
          BY <3>2, <3>3, <4>1, <4>3
        <4> QED
          BY <4>4
      <3>4. CASE i + 1 \notin R
        <4> HIDE DEF S
        <4> QED
          BY <3>1, <3>2, <3>4
      <3> QED
        BY <3>3, <3>4
    <2> QED
      BY <2>1
  <1>11. sel[n] \in S
    <2>1. n \in P
      <3> HIDE DEF P
      <3> QED
        BY <1>9, <1>10, NatSetInduction
    <2> QED
      BY <2>1
  <1>12. Selected(es, R) = sel[n]
    BY <1>1 DEF Selected, sel
  <1>13. PICK s : s = Selected(es, R)
    OBVIOUS
  <1>14. s \in S
    <2> HIDE DEF S
    <2> QED
      BY <1>11, <1>12, <1>13
  <1>15. \A i \in 1 .. Len(s) : s[i] \in U
    BY <1>14 DEF S
  <1>16. s \in Seq(T)
    <2>1. \A u \in U : u \in T
      BY <1>u, <1>2
    <2> QED
      BY <1>14, <2>1
  <1>17. \A u \in U : \E j \in R \intersect DOMAIN es : u = es[j]
    BY <1>u
  <1> QED
    BY <1>13, <1>15, <1>16, <1>17

(* The values, the cells and the grids of a visi, and what the thread buffers. *)
Value == [units : SUBSET (0 .. MaxTime), per : Nat]
CellType == [valid : BOOLEAN, lastBucketFilled : Bin \union {-1}, value : [Bin -> Value]]
VEntry == [mi : MI, bin : Bin, v : Value]

(* A cell that is not valid yet has no data.                               *)
Grids ==
    {g \in [MI -> CellType] :
        \A m \in MI : ~g[m].valid => \A b \in Bin : g[m].value[b].units = NaN}

(* Grid h is grid g with the value that e has.                             *)
Adds(h, g, e) == h = [g EXCEPT ![e.mi] = AddValue(@, e.bin, e.v)]

(* A value is put in its place and in no other.                            *)
LEMMA AddValueIs ==
    ASSUME NEW g \in Grids, NEW e \in VEntry, NEW h, Adds(h, g, e)
    PROVE  /\ h \in Grids
           /\ \A m \in MI, b \in Bin :
                  h[m].value[b] = IF m = e.mi /\ b = e.bin THEN e.v ELSE g[m].value[b]
  <1> DEFINE m == e.mi
             b == e.bin
             c == g[m]
             d == [c EXCEPT !.valid = TRUE, !.value[b] = e.v,
                            !.lastBucketFilled = IF b > @ THEN b ELSE @]
  <1>1. m \in MI /\ b \in Bin /\ e.v \in Value
    BY DEF VEntry
  <1>2. /\ g \in [MI -> CellType] /\ c \in CellType
        /\ \A i \in MI : ~g[i].valid => \A j \in Bin : g[i].value[j].units = NaN
    BY <1>1 DEF Grids
  <1>3. AddValue(c, b, e.v) = d
    BY <1>1 DEF AddValue
  <1>4. d \in CellType /\ d.valid /\ d.value = [c.value EXCEPT ![b] = e.v]
    BY <1>1, <1>2 DEF CellType
  <1>5. h = [g EXCEPT ![m] = d]
    BY <1>3 DEF Adds
  <1> HIDE DEF d
  <1>6. /\ h \in [MI -> CellType] /\ h[m] = d
        /\ \A i \in MI : i # m => h[i] = g[i]
    BY <1>1, <1>2, <1>4, <1>5
  <1>7. h \in Grids
    BY <1>2, <1>4, <1>6 DEF Grids
  <1>8. c.value \in [Bin -> Value]
    BY <1>2 DEF CellType
  <1>9. ASSUME NEW i \in MI, NEW j \in Bin
        PROVE h[i].value[j] = IF i = m /\ j = b THEN e.v ELSE g[i].value[j]
    <2>1. CASE i = m
      <3>1. h[i].value = [c.value EXCEPT ![b] = e.v]
        BY <1>4, <1>6, <2>1
      <3>2. [c.value EXCEPT ![b] = e.v][j] = IF j = b THEN e.v ELSE c.value[j]
        BY <1>8
      <3> QED
        BY <2>1, <3>1, <3>2
    <2>2. CASE i # m
      BY <1>6, <2>2
    <2> QED
      BY <2>1, <2>2
  <1> QED
    BY <1>7, <1>9

(* Every value in the grid is one that was there or one that was sent.     *)
LEMMA DataIs ==
    ASSUME NEW g \in Grids, NEW es \in Seq(VEntry)
    PROVE  /\ Data(g, es) \in Grids
           /\ \A m \in MI, b \in Bin :
                  \/ Data(g, es)[m].value[b] = g[m].value[b]
                  \/ \E i \in DOMAIN es : /\ es[i].mi = m /\ es[i].bin = b
                                          /\ Data(g, es)[m].value[b] = es[i].v
  <1>1. PICK n \in Nat : n = Len(es)
    OBVIOUS
  <1>2. DOMAIN es = 1 .. n /\ \A i \in 1 .. n : es[i] \in VEntry
    BY <1>1
  <1> DEFINE Of(d) == \A m \in MI, b \in Bin :
                  \/ d[m].value[b] = g[m].value[b]
                  \/ \E i \in DOMAIN es : /\ es[i].mi = m /\ es[i].bin = b
                                          /\ d[m].value[b] = es[i].v
             S == {d \in Grids : Of(d)}
             Step(d, k) == [d EXCEPT ![es[k].mi] = AddValue(@, es[k].bin, es[k].v)]
             F == [k \in 1 .. n |-> [d \in S |-> Step(d, k)]]
             Def(f) == [i \in 0 .. Len(es) |-> IF i = 0 THEN g ELSE Step(f[i - 1], i)]
             data == CHOOSE f : f = Def(f)
  <1>3. ASSUME NEW k \in 1 .. n, NEW d \in S PROVE Step(d, k) \in S
    <2>1. PICK e \in VEntry : e = es[k]
      BY <1>2
    <2>2. PICK h : Adds(h, d, e)
      BY DEF Adds
    <2>3. d \in Grids /\ Of(d)
      OBVIOUS
    <2>4. /\ h \in Grids
          /\ \A m \in MI, b \in Bin :
                 h[m].value[b] = IF m = e.mi /\ b = e.bin THEN e.v ELSE d[m].value[b]
      <3> HIDE DEF Of, Step
      <3> QED
        BY <2>2, <2>3, AddValueIs
    <2>5. Of(h)
      <3>1. ASSUME NEW m \in MI, NEW b \in Bin
            PROVE \/ h[m].value[b] = g[m].value[b]
                  \/ \E i \in DOMAIN es : /\ es[i].mi = m /\ es[i].bin = b
                                          /\ h[m].value[b] = es[i].v
        <4>1. CASE m = e.mi /\ b = e.bin
          BY <1>2, <2>1, <2>4, <4>1
        <4>2. CASE ~(m = e.mi /\ b = e.bin)
          <5>1. h[m].value[b] = d[m].value[b]
            BY <2>4, <4>2
          <5> QED
            BY <2>3, <5>1
        <4> QED
          BY <4>1, <4>2
      <3> QED
        BY <3>1
    <2>6. h \in S
      <3> HIDE DEF Of
      <3> QED
        BY <2>4, <2>5
    <2>7. h = Step(d, k)
      BY <2>1, <2>2 DEF Adds
    <2> HIDE DEF S, Step
    <2> QED
      BY <2>6, <2>7
  <1>4. g \in S
    OBVIOUS
  <1> HIDE DEF Of, S, Step
  <1>5. F \in [1 .. n -> [S -> S]]
    BY <1>3
  <1>6. PICK a : AreSteps(a, S, F, g, n)
    <2> HIDE DEF F
    <2> QED
      BY <1>4, <1>5, StepsExist
  <1>7. a \in [0 .. n -> S] /\ a[0] = g /\ \A k \in 1 .. n : a[k] = F[k][a[k - 1]]
    <2> HIDE DEF F
    <2> QED
      BY <1>6 DEF AreSteps
  <1>8. a = Def(a)
    <2>1. ASSUME NEW i \in 0 .. n PROVE a[i] = IF i = 0 THEN g ELSE Step(a[i - 1], i)
      <3>1. CASE i # 0
        <4>1. i \in 1 .. n /\ i - 1 \in 0 .. n
          BY <3>1
        <4>2. PICK y \in S : y = a[i - 1]
          BY <1>7, <4>1
        <4>3. F[i][y] = Step(y, i)
          <5>1. F[i] = [d \in S |-> Step(d, i)]
            BY <4>1
          <5> HIDE DEF F
          <5> QED
            BY <5>1
        <4>4. a[i] = F[i][y]
          BY <1>7, <4>1, <4>2
        <4> QED
          BY <3>1, <4>2, <4>3, <4>4
      <3> QED
        BY <1>7, <3>1
    <2>2. DOMAIN a = 0 .. n /\ a = [i \in 0 .. n |-> a[i]]
      BY <1>7
    <2> QED
      BY <1>1, <2>1, <2>2
  <1>9. data = Def(data)
    <2> HIDE DEF Def
    <2> QED
      BY <1>8
  <1> HIDE DEF data
  <1>10. \A i \in 0 .. n : data[i] = IF i = 0 THEN g ELSE Step(data[i - 1], i)
    <2>1. \A i \in 0 .. n : Def(data)[i] = IF i = 0 THEN g ELSE Step(data[i - 1], i)
      BY <1>1
    <2> HIDE DEF Def
    <2> QED
      BY <1>9, <2>1
  <1> DEFINE P == {i \in Nat : i <= n => data[i] \in S}
  <1>11. 0 \in P
    <2>1. data[0] = g
      BY <1>10
    <2> QED
      BY <1>4, <2>1
  <1>12. ASSUME NEW i \in P \intersect Nat PROVE i + 1 \in P
    <2>1. CASE i + 1 <= n
      <3>1. i + 1 \in 1 .. n /\ i + 1 \in 0 .. n /\ i + 1 # 0 /\ (i + 1) - 1 = i /\ data[i] \in S
        BY <2>1
      <3>2. data[i + 1] = Step(data[i], i + 1)
        BY <1>10, <3>1
      <3>3. data[i + 1] \in S
        BY <1>3, <3>1, <3>2
      <3> QED
        BY <3>3
    <2> QED
      BY <2>1
  <1>13. data[n] \in S
    <2>1. n \in P
      <3> HIDE DEF P
      <3> QED
        BY <1>11, <1>12, NatSetInduction
    <2> QED
      BY <2>1
  <1>14. Data(g, es) = data[n]
    BY <1>1 DEF Data, data, Step
  <1> QED
    BY <1>13, <1>14 DEF S, Of

(* w is the width that a visi which has low now will have when it gets to  *)
(* position p of the messages q: that of the last fold before, if any.     *)
WidthAt(q, p, low, w) ==
    \/ w = low /\ \A j \in FoldsOf(q) : j >= p
    \/ \E j \in FoldsOf(q) : /\ j < p /\ w = q[j].width
                             /\ \A k \in FoldsOf(q) : k < p => k <= j

(* There is one such width.                                                *)
LEMMA OneWidth ==
    ASSUME NEW q \in Seq(Message), NEW p \in Nat, NEW low, NEW w, NEW v,
           WidthAt(q, p, low, w), WidthAt(q, p, low, v)
    PROVE  w = v
  <1>1. FoldsOf(q) \subseteq Nat
    BY LenProperties DEF FoldsOf
  <1>2. CASE \A j \in FoldsOf(q) : j >= p
    BY <1>1, <1>2 DEF WidthAt
  <1>3. CASE ~(\A j \in FoldsOf(q) : j >= p)
    <2>1. PICK j \in FoldsOf(q) : /\ j < p /\ w = q[j].width
                                  /\ \A k \in FoldsOf(q) : k < p => k <= j
      BY <1>3 DEF WidthAt
    <2>2. PICK i \in FoldsOf(q) : /\ i < p /\ v = q[i].width
                                  /\ \A k \in FoldsOf(q) : k < p => k <= i
      BY <1>3 DEF WidthAt
    <2>3. i = j
      BY <1>1, <2>1, <2>2
    <2> QED
      BY <2>1, <2>2, <2>3
  <1> QED
    BY <1>2, <1>3

(* The folds of two sequences of messages.                                 *)
LEMMA FoldsAppend ==
    ASSUME NEW q \in Seq(Message), NEW r \in Seq(Message)
    PROVE  /\ \A i \in FoldsOf(q) : i \in 1 .. Len(q) /\ i \in FoldsOf(q \o r) /\ (q \o r)[i] = q[i]
           /\ \A i \in FoldsOf(r) : /\ i \in 1 .. Len(r) /\ Len(q) + i \in FoldsOf(q \o r)
                                    /\ (q \o r)[Len(q) + i] = r[i]
           /\ \A i \in FoldsOf(q \o r) :
                  i \in Nat /\ (i \in FoldsOf(q) \/ (i > Len(q) /\ i - Len(q) \in FoldsOf(r)))
  <1>1. /\ q \o r \in Seq(Message) /\ Len(q) \in Nat /\ Len(r) \in Nat
        /\ DOMAIN q = 1 .. Len(q) /\ DOMAIN r = 1 .. Len(r)
        /\ DOMAIN (q \o r) = 1 .. Len(q) + Len(r)
        /\ \A i \in 1 .. Len(q) : (q \o r)[i] = q[i]
        /\ \A i \in 1 .. Len(r) : (q \o r)[Len(q) + i] = r[i]
        /\ \A i \in 1 .. Len(q) + Len(r) : i \in 1 .. Len(q) \/ i - Len(q) \in 1 .. Len(r)
    BY Positions
  <1>2. PICK a \in Nat, b \in Nat : a = Len(q) /\ b = Len(r)
    BY <1>1
  <1>3. PICK s : s = q \o r
    OBVIOUS
  <1>4. ASSUME NEW i \in FoldsOf(q) PROVE i \in 1 .. a /\ i \in FoldsOf(s) /\ s[i] = q[i]
    <2>1. i \in 1 .. a /\ i \in 1 .. a + b /\ q[i].kind = "fold"
      BY <1>1, <1>2 DEF FoldsOf
    <2> QED
      BY <1>1, <1>2, <1>3, <2>1 DEF FoldsOf
  <1>5. ASSUME NEW i \in FoldsOf(r)
        PROVE i \in 1 .. b /\ a + i \in FoldsOf(s) /\ s[a + i] = r[i]
    <2>1. i \in 1 .. b /\ a + i \in 1 .. a + b /\ r[i].kind = "fold"
      BY <1>1, <1>2 DEF FoldsOf
    <2> QED
      BY <1>1, <1>2, <1>3, <2>1 DEF FoldsOf
  <1>6. ASSUME NEW i \in FoldsOf(s)
        PROVE i \in Nat /\ (i \in FoldsOf(q) \/ (i > a /\ i - a \in FoldsOf(r)))
    <2>1. i \in 1 .. a + b /\ s[i].kind = "fold"
      BY <1>1, <1>2, <1>3 DEF FoldsOf
    <2>2. CASE i \in 1 .. a
      BY <1>1, <1>2, <1>3, <2>1, <2>2 DEF FoldsOf
    <2>3. CASE i - a \in 1 .. b
      <3>1. a + (i - a) = i /\ i > a
        BY <2>1, <2>3
      <3>2. s[i] = r[i - a]
        BY <1>1, <1>2, <1>3, <2>3, <3>1
      <3> QED
        BY <1>1, <1>2, <2>1, <2>3, <3>1, <3>2 DEF FoldsOf
    <2> QED
      BY <1>1, <1>2, <2>1, <2>2, <2>3
  <1> QED
    BY <1>2, <1>3, <1>4, <1>5, <1>6

(* Messages that follow do not change a width; their own follow on.        *)
LEMMA AppendWidth ==
    ASSUME NEW q \in Seq(Message), NEW r \in Seq(Message), NEW low, NEW mid,
           WidthAt(q, Len(q) + 1, low, mid)
    PROVE  /\ \A p \in 1 .. Len(q) + 1 : \A w :
                  WidthAt(q \o r, p, low, w) <=> WidthAt(q, p, low, w)
           /\ \A i \in 1 .. Len(r) + 1 : \A w :
                  WidthAt(q \o r, Len(q) + i, low, w) <=> WidthAt(r, i, mid, w)
  <1>1. /\ \A i \in FoldsOf(q) : i \in 1 .. Len(q) /\ i \in FoldsOf(q \o r) /\ (q \o r)[i] = q[i]
        /\ \A i \in FoldsOf(r) : /\ i \in 1 .. Len(r) /\ Len(q) + i \in FoldsOf(q \o r)
                                 /\ (q \o r)[Len(q) + i] = r[i]
        /\ \A i \in FoldsOf(q \o r) :
               i \in Nat /\ (i \in FoldsOf(q) \/ (i > Len(q) /\ i - Len(q) \in FoldsOf(r)))
    BY FoldsAppend
  <1>2. PICK a \in Nat, b \in Nat : a = Len(q) /\ b = Len(r)
    BY LenProperties
  <1>3. PICK s : s = q \o r
    OBVIOUS
  <1>4. /\ \A i \in FoldsOf(q) : i \in 1 .. a /\ i \in FoldsOf(s) /\ s[i] = q[i]
        /\ \A i \in FoldsOf(r) : i \in 1 .. b /\ a + i \in FoldsOf(s) /\ s[a + i] = r[i]
        /\ \A i \in FoldsOf(s) : i \in Nat /\ (i \in FoldsOf(q) \/ (i > a /\ i - a \in FoldsOf(r)))
    BY <1>1, <1>2, <1>3
  <1>5. ASSUME NEW p \in 1 .. a + 1, NEW w PROVE WidthAt(s, p, low, w) <=> WidthAt(q, p, low, w)
    <2>1. \A i \in FoldsOf(s) : i < p => i \in FoldsOf(q)
      BY <1>4
    <2>2. (\A j \in FoldsOf(s) : j >= p) <=> (\A j \in FoldsOf(q) : j >= p)
      BY <1>4, <2>1
    <2>3. ASSUME NEW j \in FoldsOf(q)
          PROVE (\A k \in FoldsOf(s) : k < p => k <= j) <=> (\A k \in FoldsOf(q) : k < p => k <= j)
      BY <1>4, <2>1
    <2> QED
      BY <1>4, <2>1, <2>2, <2>3 DEF WidthAt
  <1>6. ASSUME NEW i \in 1 .. b + 1, NEW w
        PROVE WidthAt(s, a + i, low, w) <=> WidthAt(r, i, mid, w)
    <2>1. CASE \A j \in FoldsOf(r) : j >= i
      <3>1. \A j \in FoldsOf(s) : j < a + i => j \in FoldsOf(q)
        BY <1>4, <2>1
      <3>2. \A j \in FoldsOf(q) : j < a + i /\ j < a + 1
        BY <1>4
      <3>3. WidthAt(r, i, mid, w) <=> w = mid
        BY <1>4, <2>1 DEF WidthAt
      <3>4. WidthAt(s, a + i, low, w) <=> WidthAt(q, a + 1, low, w)
        <4>1. (\A j \in FoldsOf(s) : j >= a + i) <=> (\A j \in FoldsOf(q) : j >= a + 1)
          BY <1>4, <3>1, <3>2
        <4>2. ASSUME NEW j \in FoldsOf(q)
              PROVE (\A k \in FoldsOf(s) : k < a + i => k <= j)
                    <=> (\A k \in FoldsOf(q) : k < a + 1 => k <= j)
          BY <1>4, <3>1, <3>2
        <4> QED
          BY <1>4, <3>1, <3>2, <4>1, <4>2 DEF WidthAt
      <3>5. WidthAt(q, a + 1, low, w) <=> w = mid
        <4>1. WidthAt(q, a + 1, low, mid) /\ a + 1 \in Nat
          BY <1>2
        <4> QED
          BY <4>1, OneWidth
      <3> QED
        BY <3>3, <3>4, <3>5
    <2>2. CASE ~(\A j \in FoldsOf(r) : j >= i)
      <3>1. PICK f \in FoldsOf(r) : f < i
        BY <1>4, <2>2
      <3>2. a + f \in FoldsOf(s) /\ a + f < a + i /\ f \in 1 .. b
        BY <1>4, <3>1
      <3>3. ASSUME WidthAt(r, i, mid, w) PROVE WidthAt(s, a + i, low, w)
        <4>1. PICK j \in FoldsOf(r) : /\ j < i /\ w = r[j].width
                                      /\ \A k \in FoldsOf(r) : k < i => k <= j
          BY <2>2, <3>3 DEF WidthAt
        <4>2. a + j \in FoldsOf(s) /\ a + j < a + i /\ w = s[a + j].width
          BY <1>4, <4>1
        <4>3. ASSUME NEW k \in FoldsOf(s), k < a + i PROVE k <= a + j
          <5>1. CASE k \in FoldsOf(q)
            BY <1>4, <4>1, <5>1
          <5>2. CASE k > a /\ k - a \in FoldsOf(r)
            <6>1. k - a < i /\ k \in Nat
              BY <1>4, <4>3, <5>2
            <6>2. k - a <= j
              BY <4>1, <5>2, <6>1
            <6> QED
              BY <1>4, <4>1, <6>1, <6>2
          <5> QED
            BY <1>4, <5>1, <5>2
        <4> QED
          BY <4>2, <4>3 DEF WidthAt
      <3>4. ASSUME WidthAt(s, a + i, low, w) PROVE WidthAt(r, i, mid, w)
        <4>0. ~(\A j \in FoldsOf(s) : j >= a + i)
          BY <1>4, <3>2
        <4>1. PICK j \in FoldsOf(s) : /\ j < a + i /\ w = s[j].width
                                      /\ \A k \in FoldsOf(s) : k < a + i => k <= j
          BY <3>4, <4>0 DEF WidthAt
        <4>2. a + f <= j
          BY <3>2, <4>1
        <4>3. j > a /\ j - a \in FoldsOf(r) /\ j \in Nat
          BY <1>4, <3>2, <4>2
        <4>4. a + (j - a) = j /\ j - a < i
          BY <4>1, <4>3
        <4>5. s[j] = r[j - a]
          BY <1>4, <4>3, <4>4
        <4>6. ASSUME NEW k \in FoldsOf(r), k < i PROVE k <= j - a
          <5>1. a + k \in FoldsOf(s) /\ a + k < a + i /\ k \in Nat
            BY <1>4, <4>6
          <5>2. a + k <= j
            BY <4>1, <5>1
          <5> QED
            BY <4>3, <5>1, <5>2
        <4> QED
          BY <4>1, <4>3, <4>4, <4>5, <4>6 DEF WidthAt
      <3> QED
        BY <3>3, <3>4
    <2> QED
      BY <2>1, <2>2
  <1> QED
    BY <1>2, <1>3, <1>5, <1>6

(* The width that the first message leaves.                                *)
Next1(q, low) == IF Head(q).kind = "fold" THEN Head(q).width ELSE low

(* Taking the first message changes no width of those that follow.         *)
LEMMA TailWidth ==
    ASSUME NEW q \in Seq(Message), q # <<>>, NEW low
    PROVE  \A p \in Nat \ {0} : \A w :
               WidthAt(Tail(q), p, Next1(q, low), w) <=> WidthAt(q, p + 1, low, w)
  <1>1. PICK t : t = Tail(q)
    OBVIOUS
  <1>2. /\ t \in Seq(Message) /\ Head(q) = q[1]
        /\ 1 \in DOMAIN q /\ DOMAIN q \subseteq Nat \ {0}
        /\ \A i \in DOMAIN t : i \in Nat /\ i + 1 \in DOMAIN q /\ t[i] = q[i + 1]
        /\ \A i \in DOMAIN q : i # 1 => i - 1 \in DOMAIN t /\ t[i - 1] = q[i]
    BY <1>1, TailPositions
  <1>3. DOMAIN t \subseteq Nat \ {0}
    BY <1>2, LenProperties
  <1>4. \A i \in FoldsOf(t) : i \in Nat \ {0} /\ i + 1 \in FoldsOf(q) /\ t[i] = q[i + 1]
    BY <1>2, <1>3 DEF FoldsOf
  <1>5. \A i \in FoldsOf(q) : i \in Nat \ {0} /\ (i # 1 => i - 1 \in FoldsOf(t) /\ t[i - 1] = q[i])
    BY <1>2 DEF FoldsOf
  <1>6. 1 \in FoldsOf(q) <=> Head(q).kind = "fold"
    BY <1>2 DEF FoldsOf
  <1>7. ASSUME NEW p \in Nat \ {0}, NEW w, WidthAt(t, p, Next1(q, low), w)
        PROVE WidthAt(q, p + 1, low, w)
    <2>1. CASE \A j \in FoldsOf(t) : j >= p
      <3>1. w = Next1(q, low)
        BY <1>4, <1>7, <2>1 DEF WidthAt
      <3>2. \A j \in FoldsOf(q) : j # 1 => j >= p + 1
        BY <1>5, <2>1
      <3>3. CASE Head(q).kind = "fold"
        <4>1. 1 \in FoldsOf(q) /\ 1 < p + 1 /\ w = q[1].width
          BY <1>2, <1>6, <3>1, <3>3 DEF Next1
        <4>2. \A k \in FoldsOf(q) : k < p + 1 => k <= 1
          BY <1>5, <3>2
        <4> QED
          BY <4>1, <4>2 DEF WidthAt
      <3>4. CASE Head(q).kind # "fold"
        <4>1. w = low /\ \A j \in FoldsOf(q) : j >= p + 1
          BY <1>6, <3>1, <3>2, <3>4 DEF Next1
        <4> QED
          BY <4>1 DEF WidthAt
      <3> QED
        BY <3>3, <3>4
    <2>2. CASE ~(\A j \in FoldsOf(t) : j >= p)
      <3>1. PICK j \in FoldsOf(t) : /\ j < p /\ w = t[j].width
                                    /\ \A k \in FoldsOf(t) : k < p => k <= j
        BY <1>7, <2>2 DEF WidthAt
      <3>2. j + 1 \in FoldsOf(q) /\ j + 1 < p + 1 /\ w = q[j + 1].width
        BY <1>4, <3>1
      <3>3. ASSUME NEW k \in FoldsOf(q), k < p + 1 PROVE k <= j + 1
        <4>1. CASE k = 1
          BY <1>4, <4>1
        <4>2. CASE k # 1
          <5>1. k - 1 \in FoldsOf(t) /\ k - 1 < p /\ k \in Nat
            BY <1>5, <3>3, <4>2
          <5>2. k - 1 <= j
            BY <3>1, <5>1
          <5> QED
            BY <1>4, <5>1, <5>2
        <4> QED
          BY <4>1, <4>2
      <3> QED
        BY <3>2, <3>3 DEF WidthAt
    <2> QED
      BY <2>1, <2>2
  <1>8. ASSUME NEW p \in Nat \ {0}, NEW w, WidthAt(q, p + 1, low, w)
        PROVE WidthAt(t, p, Next1(q, low), w)
    <2>1. CASE \A j \in FoldsOf(t) : j >= p
      <3>1. \A j \in FoldsOf(q) : j # 1 => j >= p + 1
        BY <1>5, <2>1
      <3>2. w = Next1(q, low)
        <4>1. CASE Head(q).kind = "fold"
          <5>1. 1 \in FoldsOf(q) /\ 1 < p + 1
            BY <1>6, <4>1
          <5>2. ~(\A j \in FoldsOf(q) : j >= p + 1)
            BY <5>1
          <5>3. PICK j \in FoldsOf(q) : j < p + 1 /\ w = q[j].width
            BY <1>8, <5>2 DEF WidthAt
          <5>4. j = 1
            BY <1>5, <3>1, <5>3
          <5> QED
            BY <1>2, <4>1, <5>3, <5>4 DEF Next1
        <4>2. CASE Head(q).kind # "fold"
          <5>1. \A j \in FoldsOf(q) : j >= p + 1
            BY <1>6, <3>1, <4>2
          <5>2. w = low
            BY <1>5, <1>8, <5>1 DEF WidthAt
          <5> QED
            BY <4>2, <5>2 DEF Next1
        <4> QED
          BY <4>1, <4>2
      <3> QED
        BY <2>1, <3>2 DEF WidthAt
    <2>2. CASE ~(\A j \in FoldsOf(t) : j >= p)
      <3>1. PICK f \in FoldsOf(t) : f < p
        BY <1>4, <2>2
      <3>2. f + 1 \in FoldsOf(q) /\ f + 1 < p + 1
        BY <1>4, <3>1
      <3>3. PICK j \in FoldsOf(q) : /\ j < p + 1 /\ w = q[j].width
                                    /\ \A k \in FoldsOf(q) : k < p + 1 => k <= j
        <4>1. ~(\A j \in FoldsOf(q) : j >= p + 1)
          BY <1>4, <3>1, <3>2
        <4> QED
          BY <1>8, <4>1 DEF WidthAt
      <3>4. j \in Nat /\ f + 1 <= j /\ f \in Nat \ {0}
        BY <1>4, <1>5, <3>2, <3>3
      <3>5. j - 1 \in FoldsOf(t) /\ j - 1 < p /\ w = t[j - 1].width
        BY <1>5, <3>3, <3>4
      <3>6. ASSUME NEW k \in FoldsOf(t), k < p PROVE k <= j - 1
        <4>1. k + 1 \in FoldsOf(q) /\ k + 1 < p + 1 /\ k \in Nat
          BY <1>4, <3>6
        <4>2. k + 1 <= j
          BY <3>3, <4>1
        <4> QED
          BY <3>4, <4>1, <4>2
      <3> QED
        BY <3>5, <3>6 DEF WidthAt
    <2> QED
      BY <2>1, <2>2
  <1> QED
    BY <1>1, <1>7, <1>8

(* Values of instances that the visi has.                                  *)
MyEntry == {e \in VEntry : e.mi \in mrlist}

(* The types of what the visi thread and the visi have.  What an instance  *)
(* showed is gone with it, and the old bins are of one instance.           *)
GridInv ==
    /\ grid \in Grids
    /\ vbuffer \in Seq(MyEntry)
    /\ vsize = Cardinality(mrlist) /\ (vbuffer # <<>> => Len(vbuffer) < vsize)
    /\ bulk \in Seq(SUBSET (0 .. MaxTime)) /\ Len(bulk) <= numBins
    /\ bulk # <<>> => fetching # {}
    /\ \A i, j \in fetching : i = j
    /\ \A m \in MI \ mrlist : \A b \in Bin : grid[m].value[b].units = NaN
    /\ opened \in 0 .. MaxOpen

(* A grid gets the values of a set, each in its place.                     *)
LEMMA DataFrom ==
    ASSUME NEW g \in Grids, NEW Y \in SUBSET VEntry, NEW es \in Seq(Y)
    PROVE  /\ Data(g, es) \in Grids
           /\ \A m \in MI, b \in Bin :
                  \/ Data(g, es)[m].value[b] = g[m].value[b]
                  \/ \E e \in Y : /\ e.mi = m /\ e.bin = b
                                  /\ Data(g, es)[m].value[b] = e.v
  <1>1. es \in Seq(VEntry)
    BY LargerSeq
  <1>2. \A i \in DOMAIN es : es[i] \in Y
    BY LenProperties, ElementOfSeq
  <1>3. PICK d : d = Data(g, es)
    OBVIOUS
  <1>4. /\ d \in Grids
        /\ \A m \in MI, b \in Bin :
               \/ d[m].value[b] = g[m].value[b]
               \/ \E i \in DOMAIN es : es[i].mi = m /\ es[i].bin = b /\ d[m].value[b] = es[i].v
    BY <1>1, <1>3, DataIs
  <1> QED
    BY <1>2, <1>3, <1>4

(* A cell that folds has in a bin what two bins of the one before had.     *)
LEMMA FoldCellIs ==
    ASSUME NEW g \in Grids
    PROVE  LET h == [m \in MI |-> FoldCell(g[m])]
           IN  /\ h \in Grids
               /\ \A m \in MI, b \in Bin : h[m].value[b].units # NaN =>
                      /\ 2 * b \in Bin /\ 2 * b + 1 \in Bin
                      /\ h[m].value[b].units \subseteq
                             g[m].value[2 * b].units \union g[m].value[2 * b + 1].units
  <1> DEFINE h == [m \in MI |-> FoldCell(g[m])]
  <1>1. /\ g \in [MI -> CellType]
        /\ \A m \in MI : ~g[m].valid => \A b \in Bin : g[m].value[b].units = NaN
    BY DEF Grids
  <1>2. ASSUME NEW m \in MI
        PROVE  /\ FoldCell(g[m]) \in CellType
               /\ ~FoldCell(g[m]).valid => \A b \in Bin : FoldCell(g[m]).value[b].units = NaN
               /\ \A b \in Bin : FoldCell(g[m]).value[b].units # NaN =>
                      /\ 2 * b \in Bin /\ 2 * b + 1 \in Bin
                      /\ FoldCell(g[m]).value[b].units \subseteq
                             g[m].value[2 * b].units \union g[m].value[2 * b + 1].units
    <2>1. PICK c \in CellType : c = g[m]
      BY <1>1
    <2>2. CASE ~c.valid
      BY <1>1, <2>1, <2>2 DEF FoldCell
    <2>3. CASE c.valid
      <3> DEFINE n == (c.lastBucketFilled + 1) \div 2
                 val(b) == IF b < n THEN Mean(c.value[2 * b], c.value[2 * b + 1]) ELSE NoValue
                 v == [b \in Bin |-> val(b)]
      <3>1. c.lastBucketFilled \in Int /\ -1 <= c.lastBucketFilled
            /\ c.lastBucketFilled < numBins /\ c.value \in [Bin -> Value]
        BY NumBins DEF CellType, Bin
      <3>2. PICK lbf \in Int : lbf = c.lastBucketFilled
        BY <3>1
      <3>3. n \in Nat /\ 2 * n <= lbf + 1 /\ 2 * n <= numBins
        BY <3>1, <3>2, NumBins
      <3>4. n - 1 \in Bin \union {-1}
        BY <3>3, NumBins DEF Bin
      <3>5. FoldCell(c) = [c EXCEPT !.lastBucketFilled = n - 1, !.value = v]
        BY <2>3 DEF FoldCell
      <3> HIDE DEF n
      <3>6. ASSUME NEW b \in Bin, b < n PROVE 2 * b \in Bin /\ 2 * b + 1 \in Bin
        BY <3>3, <3>6, NumBins DEF Bin
      <3>7. ASSUME NEW x \in Value, NEW y \in Value
            PROVE Mean(x, y) \in Value /\ Mean(x, y).units \subseteq x.units \union y.units
        <4>1. /\ x = [units |-> x.units, per |-> x.per] /\ x.units \in SUBSET (0 .. MaxTime)
              /\ y = [units |-> y.units, per |-> y.per] /\ y.units \in SUBSET (0 .. MaxTime)
              /\ x.per \in Nat /\ y.per \in Nat
          BY DEF Value
        <4>2. MeanPer(x, y) \in Nat /\ 2 * x.per \in Nat /\ 2 * y.per \in Nat
          BY <4>1 DEF MeanPer
        <4>3. CASE x.units = NaN
          <5>1. Mean(x, y) = [y EXCEPT !.per = 2 * y.per]
            BY <4>3 DEF Mean
          <5> QED
            BY <4>1, <4>2, <5>1 DEF Value
        <4>4. CASE x.units # NaN /\ y.units = NaN
          <5>1. Mean(x, y) = [x EXCEPT !.per = 2 * x.per]
            BY <4>4 DEF Mean
          <5> QED
            BY <4>1, <4>2, <5>1 DEF Value
        <4>5. CASE x.units # NaN /\ y.units # NaN
          <5>1. Mean(x, y) = [units |-> x.units \union y.units, per |-> MeanPer(x, y)]
            BY <4>5 DEF Mean
          <5> QED
            BY <4>1, <4>2, <5>1 DEF Value
        <4> QED
          BY <4>3, <4>4, <4>5
      <3>8. NoValue \in Value /\ NoValue.units = NaN
        BY DEF NoValue, Value, NaN
      <3>9. ASSUME NEW b \in Bin
            PROVE  /\ val(b) \in Value
                   /\ val(b).units # NaN =>
                          /\ 2 * b \in Bin /\ 2 * b + 1 \in Bin
                          /\ val(b).units \subseteq
                                 c.value[2 * b].units \union c.value[2 * b + 1].units
        <4>1. CASE b < n
          BY <3>1, <3>6, <3>7, <4>1
        <4>2. CASE ~(b < n)
          BY <3>8, <4>2
        <4> QED
          BY <4>1, <4>2
      <3> HIDE DEF val
      <3>10. v \in [Bin -> Value] /\ \A b \in Bin : v[b] = val(b)
        BY <3>9
      <3> HIDE DEF v
      <3>11. FoldCell(c) \in CellType /\ FoldCell(c).value = v /\ FoldCell(c).valid
        BY <2>3, <3>4, <3>5, <3>10 DEF CellType
      <3> QED
        BY <2>1, <3>9, <3>10, <3>11
    <2> QED
      BY <2>2, <2>3
  <1>3. \A m \in MI : h[m] = FoldCell(g[m])
    OBVIOUS
  <1>4. h \in [MI -> CellType]
    BY <1>2
  <1> HIDE DEF h
  <1>5. h \in Grids
    BY <1>2, <1>3, <1>4 DEF Grids
  <1>6. \A m \in MI, b \in Bin : h[m].value[b].units # NaN =>
                      /\ 2 * b \in Bin /\ 2 * b + 1 \in Bin
                      /\ h[m].value[b].units \subseteq
                             g[m].value[2 * b].units \union g[m].value[2 * b + 1].units
    BY <1>2, <1>3
  <1> QED
    BY <1>5, <1>6 DEF h

(* The value that the visi thread makes of a sample.                       *)
ValueOf(e) == [mi |-> e.mi, bin |-> e.bin, v |-> [units |-> e.units, per |-> Divisor(e.mi)]]

(* The elements of a part of a sequence are elements of it.                *)
LEMMA PartOf ==
    ASSUME NEW S, NEW s \in Seq(S), NEW a \in Nat, NEW b \in Nat, b <= Len(s)
    PROVE  /\ SubSeq(s, a + 1, b) \in Seq(S)
           /\ Len(SubSeq(s, a + 1, b)) = IF a < b THEN b - a ELSE 0
  <1>1. PICK n \in Nat : n = Len(s)
    BY LenProperties
  <1>2. \A j \in a + 1 .. b : s[j] \in S
    <2>1. ASSUME NEW j \in a + 1 .. b PROVE j \in 1 .. n
      BY <1>1
    <2> QED
      BY <1>1, <2>1, ElementOfSeq
  <1>3. a + 1 \in Int /\ b \in Int
    OBVIOUS
  <1>4. /\ SubSeq(s, a + 1, b) \in Seq(S)
        /\ Len(SubSeq(s, a + 1, b)) = IF a + 1 <= b THEN b - (a + 1) + 1 ELSE 0
    BY <1>2, <1>3, SubSeqProperties
  <1>5. (a + 1 <= b) <=> (a < b)
    OBVIOUS
  <1> QED
    BY <1>4, <1>5

(* Data that arrives goes to the visi as soon as the buffer is full: what  *)
(* is sent and what stays are values of the buffer and of the message.     *)
LEMMA DataCallbackDoes ==
    ASSUME FlowInv, GridInv, DataCallback, NEW Y \in SUBSET MyEntry, vbuffer \in Seq(Y),
           \A i \in DOMAIN Head(mail).entries :
               Head(mail).entries[i].mi \in mrlist => ValueOf(Head(mail).entries[i]) \in Y
    PROVE  /\ \E front \in Seq(Y) : grid' = Data(grid, front)
           /\ vbuffer' \in Seq(Y) /\ (vbuffer' # <<>> => Len(vbuffer') < vsize)
           /\ Head(mail).entries \in Seq(Entry)
  <1> DEFINE sent == Head(mail).entries
             R == {i \in DOMAIN sent : sent[i].mi \in mrlist}
             known == Selected(sent, R)
             more == [i \in DOMAIN known |->
                     [mi |-> known[i].mi, bin |-> known[i].bin,
                      v |-> [units |-> known[i].units, per |-> Divisor(known[i].mi)]]]
             es == vbuffer \o more
             full == IF vsize = 0 THEN 0 ELSE (Len(es) \div vsize) * vsize
  <1>1. /\ mail # <<>> /\ Head(mail).kind = "data"
        /\ grid' = Data(grid, SubSeq(es, 1, full))
        /\ vbuffer' = SubSeq(es, full + 1, Len(es))
    BY DEF DataCallback
  <1>2. mail \in Seq(Message) /\ mrlist \subseteq MI
    BY FlowFacts
  <1>3. sent \in Seq(Entry)
    <2>1. Head(mail) \in Message
      BY <1>1, <1>2, TailPositions
    <2> QED
      BY <1>1, <2>1 DEF Message
  <1>4. known \in Seq(Entry)
        /\ \A i \in 1 .. Len(known) : \E j \in R \intersect DOMAIN sent : known[i] = sent[j]
    <2> HIDE DEF sent, R
    <2> QED
      BY <1>3, SelectedIs
  <1>5. PICK n \in Nat : n = Len(known) /\ DOMAIN known = 1 .. n
    BY <1>4, LenProperties
  <1>6. ASSUME NEW i \in 1 .. n PROVE more[i] \in Y
    <2>1. PICK j \in DOMAIN sent : sent[j].mi \in mrlist /\ known[i] = sent[j]
      BY <1>4, <1>5
    <2>2. ValueOf(sent[j]) \in Y
      BY <2>1
    <2>3. more[i] = ValueOf(sent[j])
      <3> HIDE DEF known, sent
      <3> QED
        BY <1>5, <2>1 DEF ValueOf
    <2> QED
      BY <2>2, <2>3
  <1>7. more \in Seq(Y) /\ Len(more) = n
    <2>1. more = [i \in 1 .. n |-> more[i]]
      BY <1>5
    <2> HIDE DEF more
    <2> QED
      BY <1>6, <2>1, IsASeq
  <1> HIDE DEF more
  <1>8. es \in Seq(Y) /\ Len(es) = Len(vbuffer) + n
    BY <1>7, ConcatProperties
  <1>9. PICK k \in Nat : k = Len(es)
    BY <1>8, LenProperties
  <1>10. vsize \in Nat /\ (vsize = 0 => mrlist = {})
    <2>1. IsFiniteSet(mrlist)
      BY <1>2, NumBins, FS_Subset
    <2> QED
      BY <2>1, FS_CardinalityType, FS_EmptySet DEF GridInv
  <1>11. vsize = 0 => k = 0
    <2>1. ASSUME vsize = 0 PROVE k = 0
      <3>1. mrlist = {}
        BY <1>10, <2>1
      <3>2. R = {}
        BY <3>1
      <3>3. ~(1 \in 1 .. n)
        BY <1>4, <1>5, <3>2
      <3>4. n = 0
        BY <3>3
      <3>5. Len(vbuffer) = 0
        BY <2>1, LenProperties, EmptySeq DEF GridInv
      <3> QED
        BY <1>8, <1>9, <3>4, <3>5
    <2> QED
      BY <2>1
  <1> HIDE DEF es, R, known, sent
  <1>12. full \in Nat /\ full <= k /\ (vsize # 0 => k < full + vsize) /\ (vsize = 0 => full = k)
    <2>1. CASE vsize = 0
      BY <1>11, <2>1
    <2>2. CASE vsize # 0
      <3>1. vsize \in Nat \ {0}
        BY <1>10, <2>2
      <3>2. k \div vsize \in Nat /\ (k \div vsize) * vsize <= k
            /\ k < ((k \div vsize) + 1) * vsize
        BY <3>1, Quotient
      <3>3. PICK c \in Nat : c = k \div vsize
        BY <3>2
      <3>4. full = c * vsize /\ c * vsize \in Nat /\ (c + 1) * vsize = c * vsize + vsize
        BY <1>9, <2>2, <3>1, <3>3
      <3> QED
        BY <2>2, <3>2, <3>3, <3>4
    <2> QED
      BY <2>1, <2>2
  <1> HIDE DEF full
  <1>13. SubSeq(es, 1, full) \in Seq(Y)
    <2>1. SubSeq(es, 0 + 1, full) \in Seq(Y)
      BY <1>8, <1>9, <1>12, PartOf
    <2> QED
      BY <2>1
  <1>14. /\ SubSeq(es, full + 1, Len(es)) \in Seq(Y)
         /\ Len(SubSeq(es, full + 1, Len(es))) = IF full < k THEN k - full ELSE 0
    BY <1>8, <1>9, <1>12, PartOf
  <1>15. vbuffer' # <<>> => Len(vbuffer') < vsize
    <2>1. ASSUME vsize = 0 PROVE vbuffer' = <<>>
      BY <1>1, <1>12, <1>14, <2>1, EmptySeq
    <2>2. ASSUME vsize # 0 PROVE Len(vbuffer') < vsize
      BY <1>1, <1>10, <1>12, <1>14, <2>2
    <2> QED
      BY <2>1, <2>2
  <1> QED
    BY <1>1, <1>3, <1>13, <1>14, <1>15 DEF sent

(* Bins that were fetched go to the visi.                                  *)
LEMMA BulkDataTransferDoes ==
    ASSUME FlowInv, GridInv, NEW m \in MI, BulkDataTransfer(m), NEW Y,
           \A b \in DOMAIN bulk :
               [mi |-> m, bin |-> b - 1, v |-> [units |-> bulk[b], per |-> hist[m].width]] \in Y
    PROVE  \E front \in Seq(Y) : grid' = Data(grid, front)
  <1> DEFINE es == [b \in 1 .. Len(bulk) |->
                  [mi |-> m, bin |-> b - 1, v |-> [units |-> bulk[b], per |-> hist[m].width]]]
             R == {b \in DOMAIN es : es[b].v.units # NaN}
  <1>1. grid' = Data(grid, Selected(es, R))
    BY DEF BulkDataTransfer
  <1>2. PICK n \in Nat : n = Len(bulk) /\ DOMAIN bulk = 1 .. n
    BY LenProperties DEF GridInv
  <1>3. \A b \in 1 .. n : es[b] \in Y
    BY <1>2
  <1>4. es = [b \in 1 .. n |-> es[b]]
    BY <1>2
  <1> HIDE DEF es
  <1>5. es \in Seq(Y)
    BY <1>3, <1>4, IsASeq
  <1> HIDE DEF R
  <1>6. Selected(es, R) \in Seq(Y)
    BY <1>5, SelectedIs
  <1> QED
    BY <1>1, <1>6

(* The bins that were fetched are values.                                  *)
LEMMA BulkValues ==
    ASSUME FlowInv, GridInv, NEW m \in MI, m \in mrlist, NEW b \in DOMAIN bulk
    PROVE  [mi |-> m, bin |-> b - 1, v |-> [units |-> bulk[b], per |-> hist[m].width]] \in MyEntry
  <1>1. PICK n \in Nat : n = Len(bulk) /\ DOMAIN bulk = 1 .. n /\ n <= numBins
    BY LenProperties DEF GridInv
  <1>2. bulk[b] \in SUBSET (0 .. MaxTime)
    BY <1>1, ElementOfSeq DEF GridInv
  <1>3. b - 1 \in Bin
    BY <1>1, NumBins DEF Bin
  <1>4. hist[m].width \in Nat
    <2>1. hist[m] \in HistType
      BY FlowFacts DEF DMInv, DMTypeOK
    <2> QED
      BY <2>1 DEF HistType
  <1> QED
    BY <1>2, <1>3, <1>4 DEF MyEntry, VEntry, Value

(* A sample of an instance that the visi has becomes a value of it.        *)
LEMMA SampleValues ==
    ASSUME FlowInv, NEW e \in Entry, e.mi \in mrlist
    PROVE  ValueOf(e) \in MyEntry
  <1>1. e.mi \in MI /\ e.bin \in Bin /\ e.units \in SUBSET (0 .. MaxTime)
    BY DEF Entry
  <1>2. hist[e.mi].width \in Nat
    <2>1. hist[e.mi] \in HistType
      BY <1>1, FlowFacts DEF DMInv, DMTypeOK
    <2> QED
      BY <2>1 DEF HistType
  <1> QED
    BY <1>1, <1>2 DEF ValueOf, Divisor, MyEntry, VEntry, Value

(* Values of the visi's instances leave the other cells empty.             *)
LEMMA OthersEmpty ==
    ASSUME GridInv, NEW Y \in SUBSET MyEntry, NEW es \in Seq(Y)
    PROVE  /\ Data(grid, es) \in Grids
           /\ \A m \in MI \ mrlist : \A b \in Bin : Data(grid, es)[m].value[b].units = NaN
  <1>1. grid \in Grids /\ \A m \in MI \ mrlist : \A b \in Bin : grid[m].value[b].units = NaN
    BY DEF GridInv
  <1>2. Y \in SUBSET VEntry /\ \A e \in Y : e.mi \in mrlist
    BY DEF MyEntry
  <1>3. /\ Data(grid, es) \in Grids
        /\ \A m \in MI, b \in Bin :
               \/ Data(grid, es)[m].value[b] = grid[m].value[b]
               \/ \E e \in Y : /\ e.mi = m /\ e.bin = b
                               /\ Data(grid, es)[m].value[b] = e.v
    BY <1>1, <1>2, DataFrom
  <1> QED
    BY <1>1, <1>2, <1>3

(* A step that leaves the visi's side alone.                               *)
LEMMA GridUnchanged ==
    ASSUME GridInv, opened' \in 0 .. MaxOpen,
           UNCHANGED <<grid, vbuffer, vsize, mrlist, bulk, fetching>>
    PROVE  GridInv'
  BY DEF GridInv, MyEntry

(* A fetch of old bins gets those that the histogram has.                  *)
LEMMA FetchGrid ==
    ASSUME FlowInv, GridInv, NEW m \in MI, GetSampleValues(m)
    PROVE  GridInv'
  <1>1. /\ m \in fetching
        /\ bulk' = [b \in 1 .. hist[m].lastBin + 1 |-> hist[m].bins[b - 1]]
        /\ IF hist[m].lastBin = -1 THEN fetching' = {} ELSE UNCHANGED fetching
        /\ UNCHANGED <<opened, grid, vbuffer, vsize, mrlist>>
    BY DEF GetSampleValues, subscribers, visi
  <1>2. PICK h \in HistType : h = hist[m]
    BY FlowFacts DEF DMInv, DMTypeOK
  <1>3. PICK n \in Int : n = h.lastBin + 1 /\ n \in Nat /\ n <= numBins
    BY NumBins DEF HistType, Bin
  <1>4. \A b \in 1 .. n : h.bins[b - 1] \in SUBSET (0 .. MaxTime)
    <2>1. \A b \in 1 .. n : b - 1 \in Bin
      BY <1>3, NumBins DEF Bin
    <2> QED
      BY <2>1 DEF HistType
  <1>5. bulk' = [b \in 1 .. n |-> h.bins[b - 1]]
    BY <1>1, <1>2, <1>3
  <1>6. bulk' \in Seq(SUBSET (0 .. MaxTime)) /\ Len(bulk') = n
    BY <1>3, <1>4, <1>5, IsASeq
  <1>7. bulk' # <<>> => fetching' # {}
    <2>1. CASE h.lastBin = -1
      BY <1>2, <1>3, <1>6, <2>1, EmptySeq
    <2>2. CASE h.lastBin # -1
      BY <1>1, <1>2, <2>2
    <2> QED
      BY <2>1, <2>2
  <1>8. \A i, j \in fetching' : i = j
    BY <1>1 DEF GridInv
  <1>9. MyEntry' = MyEntry
    BY <1>1 DEF MyEntry
  <1> QED
    BY <1>1, <1>3, <1>6, <1>7, <1>8, <1>9 DEF GridInv

(* Fetched bins go to the cell of their instance.                          *)
LEMMA TransferGrid ==
    ASSUME FlowInv, GridInv, NEW m \in MI, BulkDataTransfer(m)
    PROVE  GridInv'
  <1>1. /\ fetching' = {} /\ bulk' = <<>> /\ m \in fetching
        /\ UNCHANGED <<opened, vbuffer, vsize, mrlist>>
    BY DEF BulkDataTransfer, subscribers
  <1>2. m \in mrlist
    BY <1>1, FlowFacts
  <1>3. PICK front \in Seq(MyEntry) : grid' = Data(grid, front)
    BY <1>2, BulkValues, BulkDataTransferDoes
  <1>4. /\ grid' \in Grids
        /\ \A i \in MI \ mrlist : \A b \in Bin : grid'[i].value[b].units = NaN
    BY <1>3, OthersEmpty
  <1>5. MyEntry' = MyEntry
    BY <1>1 DEF MyEntry
  <1>6. <<>> \in Seq(SUBSET (0 .. MaxTime)) /\ Len(<<>>) = 0
    OBVIOUS
  <1> QED
    BY <1>1, <1>4, <1>5, <1>6, NumBins DEF GridInv

(* Data goes to the cells of the visi's instances.                         *)
LEMMA DataGrid ==
    ASSUME FlowInv, GridInv, DataCallback
    PROVE  GridInv'
  <1>1. UNCHANGED <<opened, vsize, mrlist, bulk, fetching>>
    BY DEF DataCallback, subscribers
  <1>2. vbuffer \in Seq(MyEntry)
    BY DEF GridInv
  <1>3. \A i \in DOMAIN Head(mail).entries :
            Head(mail).entries[i].mi \in mrlist => ValueOf(Head(mail).entries[i]) \in MyEntry
    <2>1. mail \in Seq(Message) /\ mail # <<>> /\ Head(mail).kind = "data"
      BY FlowFacts DEF DataCallback
    <2>2. Head(mail) \in Message
      BY <2>1, TailPositions
    <2>3. Head(mail).entries \in Seq(Entry)
      BY <2>1, <2>2 DEF Message
    <2>4. \A i \in DOMAIN Head(mail).entries : Head(mail).entries[i] \in Entry
      BY <2>3, LenProperties, ElementOfSeq
    <2> QED
      BY <2>4, SampleValues
  <1>4. /\ \E front \in Seq(MyEntry) : grid' = Data(grid, front)
        /\ vbuffer' \in Seq(MyEntry) /\ (vbuffer' # <<>> => Len(vbuffer') < vsize)
    BY <1>2, <1>3, DataCallbackDoes
  <1>5. /\ grid' \in Grids
        /\ \A i \in MI \ mrlist : \A b \in Bin : grid'[i].value[b].units = NaN
    BY <1>4, OthersEmpty
  <1>6. MyEntry' = MyEntry
    BY <1>1 DEF MyEntry
  <1> QED
    BY <1>1, <1>4, <1>5, <1>6 DEF GridInv

(* An instance that the visi gets is empty there, and its buffer larger.   *)
LEMMA EnableGrid ==
    ASSUME FlowInv, GridInv, EnableCallback
    PROVE  GridInv'
  <1> DEFINE m == Head(mail).entries[1].mi
  <1>1. /\ fetching = {} /\ mail # <<>> /\ Head(mail).kind = "enabled"
        /\ mrlist' = mrlist \union {m} /\ fetching' = {m} /\ grid' = Data(grid, vbuffer)
        /\ vbuffer' = <<>> /\ vsize' = vsize + 1 /\ UNCHANGED <<opened, bulk>>
    BY DEF EnableCallback, Flushed, Idle, subscribers
  <1>2. m \in users \ mrlist
    BY <1>1, FlowFacts, TailEnabled DEF VisiInv
  <1> HIDE DEF m
  <1>3. vbuffer \in Seq(MyEntry) /\ vsize = Cardinality(mrlist)
    BY DEF GridInv
  <1>4. /\ grid' \in Grids
        /\ \A i \in MI \ mrlist : \A b \in Bin : grid'[i].value[b].units = NaN
    BY <1>1, <1>3, OthersEmpty
  <1>5. vsize' = Cardinality(mrlist')
    <2>1. IsFiniteSet(mrlist)
      BY FlowFacts, NumBins, FS_Subset
    <2> QED
      BY <1>1, <1>2, <1>3, <2>1, FS_AddElement
  <1>6. <<>> \in Seq(MyEntry')
    OBVIOUS
  <1> QED
    BY <1>1, <1>4, <1>5, <1>6 DEF GridInv

(* A fold halves the cells that there are.                                 *)
LEMMA FoldGrid ==
    ASSUME FlowInv, GridInv, FoldCallback
    PROVE  GridInv'
  <1>1. UNCHANGED <<opened, vsize, mrlist, bulk, fetching>>
    BY DEF FoldCallback, subscribers
  <1>2. MyEntry' = MyEntry
    BY <1>1 DEF MyEntry
  <1>3. vbuffer \in Seq(MyEntry)
    BY DEF GridInv
  <1>4. \/ grid' = [m \in MI |-> FoldCell(Data(grid, vbuffer)[m])] /\ vbuffer' = <<>>
        \/ UNCHANGED <<grid, vbuffer>>
    BY DEF FoldCallback, Flushed
  <1>5. CASE UNCHANGED <<grid, vbuffer>>
    BY <1>1, <1>2, <1>5 DEF GridInv
  <1>6. CASE grid' = [m \in MI |-> FoldCell(Data(grid, vbuffer)[m])] /\ vbuffer' = <<>>
    <2>1. PICK g \in Grids : g = Data(grid, vbuffer)
      BY <1>3, OthersEmpty
    <2>2. \A i \in MI \ mrlist : \A b \in Bin : g[i].value[b].units = NaN
      BY <1>3, <2>1, OthersEmpty
    <2>3. /\ grid' \in Grids
          /\ \A i \in MI, b \in Bin : grid'[i].value[b].units # NaN =>
                 /\ 2 * b \in Bin /\ 2 * b + 1 \in Bin
                 /\ grid'[i].value[b].units \subseteq
                        g[i].value[2 * b].units \union g[i].value[2 * b + 1].units
      BY <1>6, <2>1, FoldCellIs
    <2>4. \A i \in MI \ mrlist : \A b \in Bin : grid'[i].value[b].units = NaN
      BY <2>2, <2>3 DEF NaN
    <2>5. <<>> \in Seq(MyEntry)
      OBVIOUS
    <2> QED
      BY <1>1, <1>2, <1>6, <2>3, <2>4, <2>5 DEF GridInv
  <1> QED
    BY <1>4, <1>5, <1>6

(* An instance that the visi gives up is forgotten.                        *)
LEMMA StopGrid ==
    ASSUME FlowInv, GridInv, NEW m \in MI, StopMetricResource(m)
    PROVE  GridInv'
  <1>1. /\ m \in mrlist /\ fetching = {} /\ mrlist' = mrlist \ {m}
        /\ grid' = [Data(grid, vbuffer) EXCEPT ![m] = NoCell]
        /\ vbuffer' = <<>> /\ vsize' = vsize - 1 /\ UNCHANGED <<opened, bulk, fetching>>
    BY DEF StopMetricResource, Flushed, Idle
  <1>2. vbuffer \in Seq(MyEntry) /\ vsize = Cardinality(mrlist)
    BY DEF GridInv
  <1>3. PICK g \in Grids : g = Data(grid, vbuffer)
    BY <1>2, OthersEmpty
  <1>4. \A i \in MI \ mrlist : \A b \in Bin : g[i].value[b].units = NaN
    BY <1>2, <1>3, OthersEmpty
  <1>5. NoCell \in CellType /\ \A b \in Bin : NoCell.value[b].units = NaN
    <2>1. NoValue \in Value /\ NoValue.units = NaN
      BY DEF NoValue, Value, NaN
    <2> QED
      BY <2>1 DEF NoCell, CellType
  <1>6. /\ g \in [MI -> CellType]
        /\ \A i \in MI : ~g[i].valid => \A b \in Bin : g[i].value[b].units = NaN
    BY DEF Grids
  <1>7. grid' \in [MI -> CellType] /\ grid'[m] = NoCell /\ \A i \in MI : i # m => grid'[i] = g[i]
    BY <1>1, <1>3, <1>5, <1>6
  <1>8. grid' \in Grids
    BY <1>5, <1>6, <1>7 DEF Grids
  <1>9. \A i \in MI \ mrlist' : \A b \in Bin : grid'[i].value[b].units = NaN
    BY <1>1, <1>4, <1>5, <1>7
  <1>10. vsize' = Cardinality(mrlist')
    <2>1. IsFiniteSet(mrlist)
      BY FlowFacts, NumBins, FS_Subset
    <2> QED
      BY <1>1, <1>2, <2>1, FS_RemoveElement
  <1>11. <<>> \in Seq(MyEntry')
    OBVIOUS
  <1> QED
    BY <1>1, <1>8, <1>9, <1>10, <1>11 DEF GridInv

(* The types of the visi's side hold at the start.                         *)
LEMMA GridInvInit == Init => GridInv
  <1> SUFFICES ASSUME Init PROVE GridInv
    OBVIOUS
  <1>1. NoCell \in CellType /\ \A b \in Bin : NoCell.value[b].units = NaN
    <2>1. NoValue \in Value /\ NoValue.units = NaN
      BY DEF NoValue, Value, NaN
    <2> QED
      BY <2>1 DEF NoCell, CellType
  <1>2. grid = [m \in MI |-> NoCell]
    BY DEF Init
  <1>3. grid \in Grids /\ \A m \in MI : \A b \in Bin : grid[m].value[b].units = NaN
    BY <1>1, <1>2 DEF Grids
  <1>4. /\ mrlist = {} /\ vbuffer = <<>> /\ vsize = 0 /\ fetching = {} /\ bulk = <<>> /\ opened = 0
    BY DEF Init
  <1>5. Cardinality({}) = 0
    BY FS_EmptySet
  <1>6. <<>> \in Seq(MyEntry) /\ <<>> \in Seq(SUBSET (0 .. MaxTime)) /\ Len(<<>>) = 0
    OBVIOUS
  <1> QED
    BY <1>3, <1>4, <1>5, <1>6, NumBins, DataPathAssumption DEF GridInv

(* Every step keeps the types of the visi's side.                          *)
LEMMA GridInvNext ==
    ASSUME FlowInv, GridInv, [Next]_vars
    PROVE  GridInv'
  <1>0. opened \in 0 .. MaxOpen /\ MaxOpen \in Nat
    BY DataPathAssumption DEF GridInv
  <1>1. ASSUME NEW m \in MI, OpenOther(m) PROVE GridInv'
    <2>1. opened < MaxOpen /\ opened' = opened + 1
          /\ UNCHANGED <<grid, vbuffer, vsize, mrlist, bulk, fetching>>
      BY <1>1 DEF OpenOther, Open, thread, visi
    <2>2. opened' \in 0 .. MaxOpen
      BY <1>0, <2>1
    <2> QED
      BY <2>1, <2>2, GridUnchanged
  <1>2. ASSUME NEW m \in MI, Subscribe(m) PROVE GridInv'
    <2>1. opened < MaxOpen /\ opened' = opened + 1
          /\ UNCHANGED <<grid, vbuffer, vsize, mrlist, bulk, fetching>>
      BY <1>2 DEF Subscribe, Open, thread, visi
    <2>2. opened' \in 0 .. MaxOpen
      BY <1>0, <2>1
    <2> QED
      BY <2>1, <2>2, GridUnchanged
  <1>3. ASSUME NEW m \in MI, CloseOther(m) PROVE GridInv'
    <2>1. UNCHANGED <<opened, grid, vbuffer, vsize, mrlist, bulk, fetching>>
      BY <1>3 DEF CloseOther, thread, visi
    <2> QED
      BY <1>0, <2>1, GridUnchanged
  <1>4. ASSUME NEW m \in MI, Aggregate(m) PROVE GridInv'
    <2>1. UNCHANGED <<opened, grid, vbuffer, vsize, mrlist, bulk, fetching>>
      BY <1>4 DEF Aggregate, subscribers, thread, visi
    <2> QED
      BY <1>0, <2>1, GridUnchanged
  <1>5. ASSUME UNCHANGED vars PROVE GridInv'
    <2>1. UNCHANGED <<opened, grid, vbuffer, vsize, mrlist, bulk, fetching>>
      BY <1>5 DEF vars, subscribers, thread, visi
    <2> QED
      BY <1>0, <2>1, GridUnchanged
  <1> QED
    BY <1>1, <1>2, <1>3, <1>4, <1>5, FetchGrid, TransferGrid, StopGrid, EnableGrid,
       DataGrid, FoldGrid DEF Next

(* What the visi thread has buffered and the visi shows is of instances of *)
(* the visi and in bins that there are, in every behaviour.                *)
THEOREM GridInvariant == Spec => []GridInv
  <1>1. Init => GridInv
    BY GridInvInit
  <1>2. FlowInv /\ GridInv /\ [Next]_vars => GridInv'
    BY GridInvNext
  <1> QED
    BY <1>1, <1>2, FlowInvariant, PTL DEF Spec

(* Every variable keeps its type: the last bin of a histogram and of a     *)
(* cell exists, and both buffers are sent before they are full.            *)
THEOREM DataTypes == Spec => []TypeOK
  <1>1. FlowInv /\ GridInv => TypeOK
    <2> SUFFICES ASSUME FlowInv, GridInv PROVE TypeOK
      OBVIOUS
    <2>1. /\ DMTypeOK /\ FlowTypeOK
          /\ mrlist \subseteq users /\ fetching \subseteq mrlist
          /\ users \in SUBSET MI /\ others \in SUBSET MI
      BY FlowFacts DEF DMInv
    <2>2. hist \in [MI -> [exists : BOOLEAN, active : BOOLEAN, foldOnInactive : BOOLEAN,
                       width : Nat \ {0}, bins : [Bin -> SUBSET (0 .. MaxTime)],
                       lastBin : Bin \union {-1}]]
          /\ globalBucketSize \in Nat /\ lastGlobalBin \in Bin /\ globalWidth \in Nat
      BY <2>1 DEF DMTypeOK, HistType
    <2>3. intvl \in [MI -> [start : 0 .. MaxTime, width : Nat, since : Nat]]
      <3>1. IntvlType \subseteq [start : 0 .. MaxTime, width : Nat, since : Nat]
        BY NumBins DEF IntvlType
      <3> QED
        BY <2>1, <3>1 DEF DMTypeOK
    <2>4. buffer # <<>> => Len(buffer) < Cardinality(users)
      BY <2>1 DEF FlowTypeOK
    <2>5. \A m \in MI : grid[m].lastBucketFilled \in Bin \union {-1}
      BY DEF GridInv, Grids, CellType
    <2>6. /\ opened \in 0 .. MaxOpen
          /\ vsize = Cardinality(mrlist) /\ (vbuffer # <<>> => Len(vbuffer) < vsize)
      BY DEF GridInv
    <2> QED
      BY <2>1, <2>2, <2>3, <2>4, <2>5, <2>6 DEF TypeOK
  <1> QED
    BY <1>1, FlowInvariant, GridInvariant, PTL

(* Data units for bin b of width w are of the span of the bin, and the     *)
(* histogram of instance m got them: K[m] is what it got.                  *)
InBin(K, m, units, b, w) == units \ {0} \subseteq K[m] \intersect Span(b, w)

(* A visi that has width w and the instances S gets message x: a fold      *)
(* doubles the width, and data of its instances are for bins of w.         *)
SoundMessage(x, w, K, S) ==
    /\ x.kind = "fold" => x.width = 2 * w
    /\ x.kind = "data" => \A i \in DOMAIN x.entries : x.entries[i].mi \in S =>
           InBin(K, x.entries[i].mi, x.entries[i].units, x.entries[i].bin, w)

(* The instances of a visi that has S when it gets to position p of q.     *)
KnownAt(q, p, S) == S \union {q[j].entries[1].mi : j \in {i \in EnabledOf(q) : i < p}}

(* Each message of q finds the visi with the width that it is for, when    *)
(* the visi has the width low and the instances S now.                     *)
WaySound(q, low, K, S) ==
    \A p \in DOMAIN q : \A w \in Nat :
        WidthAt(q, p, low, w) => SoundMessage(q[p], w, K, KnownAt(q, p, S))

(* A message that is sound when all instances are known is sound.          *)
LEMMA SoundForFewer ==
    ASSUME NEW x \in Message, NEW w, NEW K, NEW S, NEW T, MI \subseteq S, SoundMessage(x, w, K, S)
    PROVE  SoundMessage(x, w, K, T)
  <1>1. x.kind = "data" => \A i \in DOMAIN x.entries : x.entries[i].mi \in MI
    <2>1. ASSUME x.kind = "data", NEW i \in DOMAIN x.entries PROVE x.entries[i].mi \in MI
      <3>1. x.entries \in Seq(Entry)
        BY <2>1 DEF Message
      <3>2. x.entries[i] \in Entry
        BY <3>1, LenProperties, ElementOfSeq
      <3> QED
        BY <3>2 DEF Entry
    <2> QED
      BY <2>1
  <1> QED
    BY <1>1 DEF SoundMessage

(* Messages that are sound stay so when the visi has fewer instances and   *)
(* the histograms of those it has or will have get more data.              *)
LEMMA WayKeeps ==
    ASSUME NEW q, NEW low, NEW K, NEW L, NEW S, NEW T \in SUBSET S, NEW U,
           WaySound(q, low, K, S), T \subseteq U,
           \A j \in EnabledOf(q) : q[j].entries[1].mi \in U,
           \A m \in U : K[m] \subseteq L[m]
    PROVE  WaySound(q, low, L, T)
  <1> SUFFICES ASSUME NEW p \in DOMAIN q, NEW w \in Nat, WidthAt(q, p, low, w)
               PROVE  SoundMessage(q[p], w, L, KnownAt(q, p, T))
    BY DEF WaySound
  <1>1. SoundMessage(q[p], w, K, KnownAt(q, p, S))
    BY DEF WaySound
  <1>2. KnownAt(q, p, T) \subseteq KnownAt(q, p, S) /\ KnownAt(q, p, T) \subseteq U
    BY DEF KnownAt
  <1>3. ASSUME NEW m \in U, NEW units, NEW b, InBin(K, m, units, b, w)
        PROVE  InBin(L, m, units, b, w)
    BY <1>3 DEF InBin
  <1> QED
    BY <1>1, <1>2, <1>3 DEF SoundMessage

(* Sound messages for whoever gets them can follow sound messages.         *)
LEMMA WayAppend ==
    ASSUME NEW q \in Seq(Message), NEW r \in Seq(Message), NEW low, NEW mid, NEW K, NEW S,
           WidthAt(q, Len(q) + 1, low, mid),
           WaySound(q, low, K, S), WaySound(r, mid, K, MI)
    PROVE  /\ WaySound(q \o r, low, K, S)
           /\ \A w : WidthAt(r, Len(r) + 1, mid, w) => WidthAt(q \o r, Len(q \o r) + 1, low, w)
  <1>1. /\ q \o r \in Seq(Message) /\ Len(q) \in Nat /\ Len(r) \in Nat
        /\ DOMAIN q = 1 .. Len(q) /\ DOMAIN r = 1 .. Len(r)
        /\ DOMAIN (q \o r) = 1 .. Len(q) + Len(r)
        /\ \A i \in 1 .. Len(q) : (q \o r)[i] = q[i]
        /\ \A i \in 1 .. Len(r) : (q \o r)[Len(q) + i] = r[i]
        /\ \A i \in 1 .. Len(q) + Len(r) : i \in 1 .. Len(q) \/ i - Len(q) \in 1 .. Len(r)
    BY Positions
  <1>2. PICK a \in Nat, b \in Nat : a = Len(q) /\ b = Len(r)
    BY <1>1
  <1>3. PICK s : s = q \o r
    OBVIOUS
  <1>4. /\ \A p \in 1 .. a + 1 : \A w : WidthAt(s, p, low, w) <=> WidthAt(q, p, low, w)
        /\ \A i \in 1 .. b + 1 : \A w : WidthAt(s, a + i, low, w) <=> WidthAt(r, i, mid, w)
    BY <1>2, <1>3, AppendWidth
  <1>5. /\ DOMAIN q = 1 .. a /\ DOMAIN r = 1 .. b /\ DOMAIN s = 1 .. a + b
        /\ \A i \in 1 .. a : s[i] = q[i]
        /\ \A i \in 1 .. b : s[a + i] = r[i]
        /\ \A i \in 1 .. a + b : i \in 1 .. a \/ i - a \in 1 .. b
    BY <1>1, <1>2, <1>3
  <1>6. ASSUME NEW p \in 1 .. a, NEW w \in Nat, WidthAt(s, p, low, w)
        PROVE  SoundMessage(s[p], w, K, KnownAt(s, p, S))
    <2>1. {i \in EnabledOf(s) : i < p} = {i \in EnabledOf(q) : i < p}
      <3>1. ASSUME NEW i, i \in EnabledOf(s), i < p PROVE i \in EnabledOf(q)
        <4>1. i \in 1 .. a + b /\ s[i].kind = "enabled"
          BY <1>5, <3>1 DEF EnabledOf
        <4>2. i \in 1 .. a
          BY <3>1, <4>1
        <4> QED
          BY <1>5, <4>1, <4>2 DEF EnabledOf
      <3>2. ASSUME NEW i, i \in EnabledOf(q) PROVE i \in EnabledOf(s)
        <4>1. i \in 1 .. a /\ i \in 1 .. a + b /\ q[i].kind = "enabled"
          BY <1>5, <3>2 DEF EnabledOf
        <4> QED
          BY <1>5, <4>1 DEF EnabledOf
      <3> QED
        BY <3>1, <3>2
    <2>2. \A i \in EnabledOf(q) : s[i] = q[i]
      BY <1>5 DEF EnabledOf
    <2>3. KnownAt(s, p, S) = KnownAt(q, p, S)
      BY <2>1, <2>2 DEF KnownAt
    <2>4. WidthAt(q, p, low, w)
      BY <1>4, <1>6
    <2>5. SoundMessage(q[p], w, K, KnownAt(q, p, S))
      BY <1>5, <2>4 DEF WaySound
    <2> QED
      BY <1>5, <2>3, <2>5
  <1>7. ASSUME NEW i \in 1 .. b, NEW w \in Nat, WidthAt(s, a + i, low, w), NEW T
        PROVE  SoundMessage(s[a + i], w, K, T)
    <2>1. WidthAt(r, i, mid, w)
      BY <1>4, <1>7
    <2>2. SoundMessage(r[i], w, K, KnownAt(r, i, MI))
      BY <1>5, <2>1 DEF WaySound
    <2>3. MI \subseteq KnownAt(r, i, MI)
      BY DEF KnownAt
    <2>4. r[i] \in Message
      BY <1>2, ElementOfSeq
    <2>5. SoundMessage(r[i], w, K, T)
      BY <2>2, <2>3, <2>4, SoundForFewer
    <2> QED
      BY <1>5, <2>5
  <1>8. WaySound(s, low, K, S)
    <2> SUFFICES ASSUME NEW p \in DOMAIN s, NEW w \in Nat, WidthAt(s, p, low, w)
                 PROVE  SoundMessage(s[p], w, K, KnownAt(s, p, S))
      BY DEF WaySound
    <2>1. p \in 1 .. a + b
      BY <1>5
    <2>2. CASE p \in 1 .. a
      BY <1>6, <2>2
    <2>3. CASE p - a \in 1 .. b
      <3>1. PICK i \in 1 .. b : i = p - a
        BY <2>3
      <3>2. p = a + i
        BY <2>1, <3>1
      <3> QED
        BY <1>7, <3>2
    <2> QED
      BY <1>5, <2>1, <2>2, <2>3
  <1>9. \A w : WidthAt(r, b + 1, mid, w) => WidthAt(s, Len(s) + 1, low, w)
    <2>1. Len(s) = a + b
      BY <1>2, <1>3, ConcatProperties
    <2>2. Len(s) + 1 = a + (b + 1) /\ b + 1 \in 1 .. b + 1
      BY <2>1
    <2> QED
      BY <1>4, <2>2
  <1> QED
    BY <1>2, <1>3, <1>8, <1>9

(* The first of sound messages is one for the width that the visi has, and *)
(* those that follow are sound for what it leaves.                         *)
LEMMA WayTail ==
    ASSUME NEW q \in Seq(Message), q # <<>>, NEW low \in Nat, NEW K, NEW S,
           WaySound(q, low, K, S)
    PROVE  /\ SoundMessage(Head(q), low, K, S)
           /\ WaySound(Tail(q), Next1(q, low), K,
                       IF Head(q).kind = "enabled" THEN S \union {Head(q).entries[1].mi} ELSE S)
           /\ \A w : WidthAt(q, Len(q) + 1, low, w) =>
                         WidthAt(Tail(q), Len(Tail(q)) + 1, Next1(q, low), w)
  <1> DEFINE T == IF Head(q).kind = "enabled" THEN S \union {Head(q).entries[1].mi} ELSE S
  <1>1. PICK t : t = Tail(q)
    OBVIOUS
  <1>2. /\ t \in Seq(Message) /\ Head(q) = q[1]
        /\ 1 \in DOMAIN q /\ DOMAIN q \subseteq Nat \ {0}
        /\ \A i \in DOMAIN t : i \in Nat /\ i + 1 \in DOMAIN q /\ t[i] = q[i + 1]
        /\ \A i \in DOMAIN q : i # 1 => i - 1 \in DOMAIN t /\ t[i - 1] = q[i]
    BY <1>1, TailPositions
  <1>3. DOMAIN t \subseteq Nat \ {0}
    BY <1>2, LenProperties
  <1>4. \A p \in Nat \ {0} : \A w : WidthAt(t, p, Next1(q, low), w) <=> WidthAt(q, p + 1, low, w)
    BY <1>1, TailWidth
  <1>5. SoundMessage(Head(q), low, K, S)
    <2>1. WidthAt(q, 1, low, low)
      <3>1. \A j \in FoldsOf(q) : j >= 1
        BY <1>2 DEF FoldsOf
      <3> QED
        BY <3>1 DEF WidthAt
    <2>2. KnownAt(q, 1, S) = S
      <3>1. {i \in EnabledOf(q) : i < 1} = {}
        BY <1>2 DEF EnabledOf
      <3> QED
        BY <3>1 DEF KnownAt
    <2>3. SoundMessage(q[1], low, K, KnownAt(q, 1, S))
      BY <1>2, <2>1 DEF WaySound
    <2> QED
      BY <1>2, <2>2, <2>3
  <1>6. ASSUME NEW p \in DOMAIN t, NEW w \in Nat, WidthAt(t, p, Next1(q, low), w)
        PROVE  SoundMessage(t[p], w, K, KnownAt(t, p, T))
    <2>1. p \in Nat \ {0} /\ p + 1 \in DOMAIN q /\ t[p] = q[p + 1]
      BY <1>2, <1>3
    <2>2. WidthAt(q, p + 1, low, w)
      BY <1>4, <1>6, <2>1
    <2>3. SoundMessage(q[p + 1], w, K, KnownAt(q, p + 1, S))
      BY <2>1, <2>2 DEF WaySound
    <2>4. KnownAt(t, p, T) \subseteq KnownAt(q, p + 1, S)
      <3> SUFFICES ASSUME NEW m \in KnownAt(t, p, T) PROVE m \in KnownAt(q, p + 1, S)
        OBVIOUS
      <3>1. CASE m \in S
        BY <3>1 DEF KnownAt
      <3>2. CASE Head(q).kind = "enabled" /\ m = Head(q).entries[1].mi
        <4>1. 1 \in EnabledOf(q) /\ 1 < p + 1 /\ m = q[1].entries[1].mi
          BY <1>2, <2>1, <3>2 DEF EnabledOf
        <4> QED
          BY <4>1 DEF KnownAt
      <3>3. CASE \E j \in EnabledOf(t) : j < p /\ m = t[j].entries[1].mi
        <4>1. PICK j \in EnabledOf(t) : j < p /\ m = t[j].entries[1].mi
          BY <3>3
        <4>2. j \in DOMAIN t /\ t[j].kind = "enabled"
          BY DEF EnabledOf
        <4>3. j \in Nat /\ j + 1 \in DOMAIN q /\ t[j] = q[j + 1]
          BY <1>2, <4>2
        <4>4. j + 1 \in EnabledOf(q) /\ j + 1 < p + 1 /\ m = q[j + 1].entries[1].mi
          BY <2>1, <4>1, <4>2, <4>3 DEF EnabledOf
        <4> QED
          BY <4>4 DEF KnownAt
      <3> QED
        BY <3>1, <3>2, <3>3 DEF KnownAt
    <2> HIDE DEF T
    <2> QED
      BY <2>1, <2>3, <2>4 DEF SoundMessage
  <1>7. Len(t) + 1 \in Nat \ {0} /\ Len(t) + 1 = Len(q)
    BY <1>1, <1>2, HeadTailProperties, LenProperties
  <1>8. \A w : WidthAt(q, Len(q) + 1, low, w) => WidthAt(t, Len(t) + 1, Next1(q, low), w)
    <2>1. Len(q) + 1 = (Len(t) + 1) + 1
      BY <1>7
    <2> QED
      BY <1>4, <1>7, <2>1
  <1>9. WaySound(t, Next1(q, low), K, T)
    BY <1>6 DEF WaySound
  <1> QED
    BY <1>1, <1>5, <1>8, <1>9

(* Samples of the instances U that are of bins of width w.                 *)
SoundEntries(K, U, w) == {e \in Entry : e.mi \in U /\ InBin(K, e.mi, e.units, e.bin, w)}

(* Messages that are no folds and have sound samples are sound.            *)
LEMMA NoFoldsWay ==
    ASSUME NEW r \in Seq(Message), NEW w \in Nat, NEW K, FoldsOf(r) = {},
           \A i \in DOMAIN r : r[i].kind = "data" => r[i].entries \in Seq(SoundEntries(K, MI, w))
    PROVE  WaySound(r, w, K, MI) /\ WidthAt(r, Len(r) + 1, w, w)
  <1>1. \A p : WidthAt(r, p, w, w) /\ \A v : WidthAt(r, p, w, v) => v = w
    BY DEF WidthAt
  <1>2. ASSUME NEW p \in DOMAIN r PROVE SoundMessage(r[p], w, K, KnownAt(r, p, MI))
    <2>1. r[p].kind # "fold"
      BY DEF FoldsOf
    <2>2. ASSUME r[p].kind = "data", NEW i \in DOMAIN r[p].entries
          PROVE  InBin(K, r[p].entries[i].mi, r[p].entries[i].units, r[p].entries[i].bin, w)
      <3>1. r[p].entries[i] \in SoundEntries(K, MI, w)
        BY <2>2, LenProperties, ElementOfSeq
      <3> QED
        BY <3>1 DEF SoundEntries
    <2> QED
      BY <2>1, <2>2 DEF SoundMessage
  <1> QED
    BY <1>1, <1>2 DEF WaySound

(* What is in the buffer, if it is sound, can be sent at any time.         *)
LEMMA NonemptyWay ==
    ASSUME NEW w \in Nat, NEW K, NEW es \in Seq(SoundEntries(K, MI, w))
    PROVE  /\ Nonempty(es) \in Seq(Message)
           /\ WaySound(Nonempty(es), w, K, MI) /\ WidthAt(Nonempty(es), Len(Nonempty(es)) + 1, w, w)
  <1>1. SoundEntries(K, MI, w) \subseteq Entry
    BY DEF SoundEntries
  <1>2. es \in Seq(Entry)
    BY <1>1, LargerSeq
  <1>3. Nonempty(es) \in Seq(Message) /\ FoldsOf(Nonempty(es)) = {}
    BY <1>2, DataMessages
  <1>4. \A i \in DOMAIN Nonempty(es) : Nonempty(es)[i].entries = es
    BY DEF Nonempty, DataMessage
  <1> QED
    BY <1>3, <1>4, NoFoldsWay

(* So can what is sent when the buffer is full, and the rest later.        *)
LEMMA SentWay ==
    ASSUME NEW w \in Nat, NEW K, NEW U \in SUBSET MI, NEW es \in Seq(SoundEntries(K, U, w)),
           NEW size \in Nat \ {0}
    PROVE  /\ Sent(es, size) \in Seq(Message)
           /\ WaySound(Sent(es, size), w, K, MI)
           /\ WidthAt(Sent(es, size), Len(Sent(es, size)) + 1, w, w)
           /\ Left(es, size) \in Seq(SoundEntries(K, U, w))
  <1>1. /\ SoundEntries(K, U, w) \in SUBSET Entry
        /\ SoundEntries(K, U, w) \subseteq SoundEntries(K, MI, w)
    BY DEF SoundEntries
  <1>2. /\ Sent(es, size) \in Seq(Message)
        /\ \A i \in DOMAIN Sent(es, size) :
               /\ Sent(es, size)[i].kind = "data"
               /\ Sent(es, size)[i].entries \in Seq(SoundEntries(K, U, w))
        /\ FoldsOf(Sent(es, size)) = {} /\ Left(es, size) \in Seq(SoundEntries(K, U, w))
    BY <1>1, SentIs
  <1>3. \A i \in DOMAIN Sent(es, size) :
            Sent(es, size)[i].entries \in Seq(SoundEntries(K, MI, w))
    BY <1>1, <1>2, LargerSeq
  <1> QED
    BY <1>2, <1>3, NoFoldsWay

(* A response is no fold and has no samples.                               *)
LEMMA EnabledWay ==
    ASSUME NEW w \in Nat, NEW K, NEW m \in MI
    PROVE  /\ <<EnabledMessage(m)>> \in Seq(Message)
           /\ WaySound(<<EnabledMessage(m)>>, w, K, MI)
           /\ WidthAt(<<EnabledMessage(m)>>, Len(<<EnabledMessage(m)>>) + 1, w, w)
  <1>1. <<EnabledMessage(m)>> \in Seq(Message) /\ FoldsOf(<<EnabledMessage(m)>>) = {}
    <2>1. EnabledOK(<<>>, {}) /\ <<>> \in Seq(Message)
      BY EmptyMail DEF EnabledOK
    <2> QED
      BY <2>1, AppendEnabled
  <1>2. PICK r : r = <<EnabledMessage(m)>>
    OBVIOUS
  <1>3. \A i \in DOMAIN r : r[i].kind = "enabled"
    BY <1>2 DEF EnabledMessage
  <1>4. WaySound(r, w, K, MI) /\ WidthAt(r, Len(r) + 1, w, w)
    BY <1>1, <1>2, <1>3, NoFoldsWay
  <1> QED
    BY <1>1, <1>2, <1>4

(* No message at all changes nothing.                                      *)
LEMMA EmptyWay ==
    ASSUME NEW w \in Nat, NEW K
    PROVE  <<>> \in Seq(Message) /\ WaySound(<<>>, w, K, MI) /\ WidthAt(<<>>, Len(<<>>) + 1, w, w)
  <1>1. PICK r \in Seq(Message) : r = <<>> /\ FoldsOf(r) = {}
    BY EmptyMail
  <1>2. DOMAIN r = {}
    BY <1>1
  <1>3. WaySound(r, w, K, MI) /\ WidthAt(r, Len(r) + 1, w, w)
    BY <1>1, <1>2, NoFoldsWay
  <1> QED
    BY <1>1, <1>3

(* Folds that double a width w0 one after the other.                       *)
LEMMA DoublingWay ==
    ASSUME NEW n \in Nat, NEW f \in [0 .. n -> Nat], \A i \in 1 .. n : f[i] = 2 * f[i - 1],
           NEW r \in Seq(Message), Len(r) = n,
           \A i \in 1 .. n : r[i].kind = "fold" /\ r[i].width = f[i], NEW K
    PROVE  WaySound(r, f[0], K, MI) /\ WidthAt(r, Len(r) + 1, f[0], f[n])
  <1>1. FoldsOf(r) = 1 .. n /\ DOMAIN r = 1 .. n
    <2>1. DOMAIN r = 1 .. n
      BY LenProperties
    <2> QED
      BY <2>1 DEF FoldsOf
  <1>2. ASSUME NEW p \in 1 .. n + 1 PROVE WidthAt(r, p, f[0], f[p - 1])
    <2>1. CASE p = 1
      BY <1>1, <2>1 DEF WidthAt
    <2>2. CASE p # 1
      <3>0. PICK i \in 1 .. n : i = p - 1
        BY <2>2
      <3>1. p - 1 \in FoldsOf(r) /\ p - 1 < p /\ f[p - 1] = r[p - 1].width
        BY <1>1, <3>0
      <3>2. \A k \in FoldsOf(r) : k < p => k <= p - 1
        BY <1>1
      <3> QED
        BY <3>1, <3>2 DEF WidthAt
    <2> QED
      BY <2>1, <2>2
  <1>3. ASSUME NEW p \in 1 .. n, NEW w, WidthAt(r, p, f[0], w)
        PROVE  SoundMessage(r[p], w, K, KnownAt(r, p, MI))
    <2>1. WidthAt(r, p, f[0], f[p - 1]) /\ p \in Nat
      BY <1>2
    <2>2. w = f[p - 1]
      BY <1>3, <2>1, OneWidth
    <2>3. r[p].kind = "fold" /\ r[p].width = 2 * w
      BY <2>2
    <2> QED
      BY <2>3 DEF SoundMessage
  <1>4. n + 1 \in 1 .. n + 1 /\ (n + 1) - 1 = n
    OBVIOUS
  <1>5. WidthAt(r, n + 1, f[0], f[n])
    BY <1>2, <1>4
  <1> QED
    BY <1>1, <1>3, <1>5 DEF WaySound

(* What the streams are told at folds: sound samples in the buffer go      *)
(* before the first fold, and each fold doubles the width.                 *)
LEMMA FoldsWay ==
    ASSUME FlowTypeOK, NEW w \in Nat, NEW K, buffer \in Seq(SoundEntries(K, MI, w)),
           NEW n \in Nat \ {0}, NEW told \in Seq(Nat), Len(told) = n, told[1] = 2 * w,
           \A i \in 1 .. n - 1 : told[i + 1] = 2 * told[i]
    PROVE  /\ FoldMessages(told) \in Seq(Message)
           /\ WaySound(FoldMessages(told), w, K, MI)
           /\ WidthAt(FoldMessages(told), Len(FoldMessages(told)) + 1, w, told[n])
  <1> DEFINE a == Nonempty(buffer)
             b == <<FoldMessage(told[1])>>
             c == [i \in 1 .. n - 1 |-> FoldMessage(told[i + 1])]
  <1>1. \A i \in 1 .. n : told[i] \in Nat
    BY ElementOfSeq
  <1>2. a \in Seq(Message) /\ WaySound(a, w, K, MI) /\ WidthAt(a, Len(a) + 1, w, w)
    BY NonemptyWay
  <1>3. \A x \in Nat : FoldMessage(x) \in Message /\ FoldMessage(x).kind = "fold"
                       /\ FoldMessage(x).width = x
    BY DEF FoldMessage, Message
  <1>4. b \in Seq(Message) /\ WaySound(b, w, K, MI) /\ WidthAt(b, Len(b) + 1, w, told[1])
    <2> DEFINE f == [i \in 0 .. 1 |-> IF i = 0 THEN w ELSE told[1]]
    <2>1. told[1] \in Nat
      BY <1>1
    <2>2. f \in [0 .. 1 -> Nat] /\ f[0] = w /\ f[1] = told[1] /\ f[1] = 2 * f[1 - 1]
      BY <2>1
    <2>3. b \in Seq(Message) /\ Len(b) = 1 /\ b[1] = FoldMessage(told[1])
      BY <1>3, <2>1
    <2> HIDE DEF f, b
    <2>4. \A i \in 1 .. 1 : f[i] = 2 * f[i - 1] /\ b[i].kind = "fold" /\ b[i].width = f[i]
      BY <1>3, <2>1, <2>2, <2>3
    <2>5. WaySound(b, f[0], K, MI) /\ WidthAt(b, Len(b) + 1, f[0], f[1])
      BY <2>2, <2>3, <2>4, DoublingWay
    <2> QED
      BY <2>2, <2>3, <2>5
  <1>5. c \in Seq(Message) /\ WaySound(c, told[1], K, MI) /\ WidthAt(c, Len(c) + 1, told[1], told[n])
    <2> DEFINE f == [i \in 0 .. n - 1 |-> told[i + 1]]
    <2>0. n - 1 \in Nat
      OBVIOUS
    <2>1. ASSUME NEW i \in 0 .. n - 1 PROVE told[i + 1] \in Nat
      BY <1>1
    <2>2. f \in [0 .. n - 1 -> Nat] /\ f[0] = told[1] /\ f[n - 1] = told[n]
      BY <2>1
    <2>3. \A i \in 1 .. n - 1 : f[i] = 2 * f[i - 1]
      <3>1. ASSUME NEW i \in 1 .. n - 1 PROVE f[i] = 2 * f[i - 1]
        <4>1. told[i + 1] = 2 * told[i]
          OBVIOUS
        <4>2. i \in 0 .. n - 1 /\ i - 1 \in 0 .. n - 1 /\ (i - 1) + 1 = i
          OBVIOUS
        <4>3. f[i] = told[i + 1] /\ f[i - 1] = told[i]
          BY <4>2
        <4> QED
          BY <4>1, <4>3
      <3> QED
        BY <3>1
    <2>4. ASSUME NEW i \in 1 .. n - 1
          PROVE  /\ FoldMessage(told[i + 1]) \in Message
                 /\ FoldMessage(told[i + 1]).kind = "fold"
                 /\ FoldMessage(told[i + 1]).width = f[i]
      <3>1. told[i + 1] \in Nat /\ f[i] = told[i + 1]
        BY <2>1
      <3> QED
        BY <1>3, <3>1
    <2> HIDE DEF f
    <2>5. c \in Seq(Message) /\ Len(c) = n - 1
      BY <2>0, <2>4, IsASeq
    <2>6. \A i \in 1 .. n - 1 : c[i].kind = "fold" /\ c[i].width = f[i]
      BY <2>4
    <2> HIDE DEF c
    <2>7. WaySound(c, f[0], K, MI) /\ WidthAt(c, Len(c) + 1, f[0], f[n - 1])
      BY <2>0, <2>2, <2>3, <2>5, <2>6, DoublingWay
    <2> QED
      BY <2>2, <2>5, <2>7
  <1>6. FoldMessages(told) = (a \o b) \o c
    BY DEF FoldMessages, FoldStream
  <1> HIDE DEF a, b, c
  <1>7. /\ a \o b \in Seq(Message) /\ WaySound(a \o b, w, K, MI)
        /\ WidthAt(a \o b, Len(a \o b) + 1, w, told[1])
    <2>1. a \o b \in Seq(Message)
      BY <1>2, <1>4, Positions
    <2> QED
      BY <1>2, <1>4, <2>1, WayAppend
  <1>8. PICK d \in Seq(Message) : d = a \o b
    BY <1>7
  <1>9. /\ d \o c \in Seq(Message) /\ WaySound(d \o c, w, K, MI)
        /\ WidthAt(d \o c, Len(d \o c) + 1, w, told[n])
    <2>1. d \o c \in Seq(Message)
      BY <1>5, <1>8, Positions
    <2> QED
      BY <1>5, <1>7, <1>8, <2>1, WayAppend
  <1> QED
    BY <1>6, <1>8, <1>9

(* A visi is told of each doubling of the width and of nothing else.       *)
LEMMA ToldDoubles ==
    ASSUME DMInv, MinWidth <= globalWidth,
           \A i \in MI : hist[i].exists => hist[i].width = globalWidth,
           NEW m \in MI, hist[m].active, NEW count \in Nat, Told(m, count) # <<>>
    PROVE  LET told == Told(m, count)
           IN  /\ told \in Seq(Nat) /\ Len(told) \in Nat \ {0} /\ told[1] = 2 * globalWidth
               /\ \A i \in 1 .. Len(told) - 1 : told[i + 1] = 2 * told[i]
  <1> DEFINE folded == Folded(m, count)
             T == Wider(m, count)
             D == [k \in 0 .. count |-> globalWidth * Doubled[k]]
  <1>0. PICK told : told = Told(m, count)
    OBVIOUS
  <1>1. DMTypeOK /\ HistInv /\ globalWidth \in Nat \ {0}
    BY DEF DMInv, DMTypeOK
  <1>2. /\ told \in Seq(T) /\ T \in SUBSET Nat /\ Ascending(told, Len(told))
        /\ \A w \in T : \E i \in 1 .. Len(told) : told[i] = w
    BY <1>0, <1>1, ToldIs
  <1>3. \A k \in 0 .. count : \A i \in MI :
               IF hist[i].exists THEN folded[k][i].width = globalWidth * Doubled[k]
               ELSE folded[k][i].width = MinWidth
    BY <1>1, FoldedSame
  <1>4. T = {w \in {folded[k][i].width : k \in 1 .. count, i \in MI} : w > globalWidth}
    BY DEF Wider
  <1>5. hist[m].exists
    BY <1>1 DEF HistInv, HistOK
  <1> HIDE DEF folded, T
  <1>6. PICK n \in Nat \ {0} : n = Len(told)
    BY <1>0, <1>2, EmptySeq, LenProperties
  <1>7. /\ D \in [0 .. count -> Nat \ {0}] /\ D[0] = globalWidth
        /\ \A k \in 1 .. count : D[k] = 2 * D[k - 1]
    <2>1. ASSUME NEW k \in 0 .. count PROVE globalWidth * Doubled[k] \in Nat \ {0}
      <3>1. Doubled[k] \in Nat \ {0}
        BY DoubledIs
      <3> QED
        BY <1>1, <3>1
    <2>2. D[0] = globalWidth
      BY <1>1, DoubledIs
    <2>3. ASSUME NEW k \in 1 .. count PROVE D[k] = 2 * D[k - 1]
      <3>1. k \in Nat \ {0} /\ k - 1 \in Nat /\ k \in 0 .. count /\ k - 1 \in 0 .. count
        OBVIOUS
      <3>2. Doubled[k] = 2 * Doubled[k - 1] /\ Doubled[k - 1] \in Nat
        BY <3>1, DoubledIs
      <3>3. globalWidth * (2 * Doubled[k - 1]) = 2 * (globalWidth * Doubled[k - 1])
        BY <1>1, <3>2
      <3> QED
        BY <3>1, <3>2, <3>3
    <2> QED
      BY <2>1, <2>2, <2>3
  <1>8. \A j, k \in 0 .. count : j <= k => D[j] <= D[k]
    <2>1. ASSUME NEW j \in 0 .. count, NEW k \in 0 .. count, j <= k PROVE D[j] <= D[k]
      <3>1. Doubled[j] <= Doubled[k] /\ Doubled[j] \in Nat /\ Doubled[k] \in Nat
        <4>1. k \in Nat /\ j \in 0 .. k /\ j \in Nat
          BY <2>1
        <4> QED
          BY <4>1, DoubledGrows, DoubledIs
      <3>2. Doubled[j] * globalWidth <= Doubled[k] * globalWidth
        BY <1>1, <3>1, TimesOrder
      <3>3. D[j] = Doubled[j] * globalWidth /\ D[k] = Doubled[k] * globalWidth
        BY <1>1, <3>1
      <3> QED
        BY <3>2, <3>3
    <2> QED
      BY <2>1
  <1>9. \A k \in 0 .. count : \A i \in MI :
            folded[k][i].width = D[k] \/ folded[k][i].width = MinWidth
    BY <1>3
  <1>10. \A k \in 0 .. count : folded[k][m].width = D[k]
    BY <1>3, <1>5
  <1> HIDE DEF D
  <1>11. T = {D[k] : k \in 1 .. count}
    <2>1. ASSUME NEW w \in T PROVE \E k \in 1 .. count : w = D[k]
      <3>1. PICK k \in 1 .. count, i \in MI : w = folded[k][i].width /\ w > globalWidth
        BY <1>4
      <3>2. k \in 0 .. count /\ w # MinWidth
        BY <1>1, <3>1, NumBins
      <3> QED
        BY <1>9, <3>1, <3>2
    <2>2. ASSUME NEW k \in 1 .. count PROVE D[k] \in T
      <3>1. D[k] = folded[k][m].width
        BY <1>10
      <3>2. D[0] <= D[k - 1] /\ D[k] = 2 * D[k - 1] /\ D[k - 1] \in Nat \ {0}
        <4>1. k - 1 \in 0 .. count /\ 0 \in 0 .. count /\ 0 <= k - 1
          OBVIOUS
        <4> QED
          BY <1>7, <1>8, <4>1
      <3>3. D[k] > globalWidth
        BY <1>1, <1>7, <3>2
      <3> QED
        BY <1>4, <3>1, <3>3
    <2> QED
      BY <2>1, <2>2
  <1>12. ASSUME NEW i \in 1 .. n PROVE \E k \in 1 .. count : told[i] = D[k]
    <2>1. told[i] \in T
      BY <1>2, <1>6, ElementOfSeq
    <2> QED
      BY <1>11, <2>1
  <1>13. \A k \in 1 .. count : \E i \in 1 .. n : told[i] = D[k]
    BY <1>2, <1>6, <1>11
  <1>14. \A i, j \in 1 .. n : i < j => told[i] < told[j]
    BY <1>2, <1>6 DEF Ascending
  <1>15. \A i \in 1 .. n : told[i] \in Nat
    BY <1>2, <1>6, ElementOfSeq
  <1>16. ASSUME NEW i \in 1 .. n, NEW j \in 1 .. n, told[i] < told[j] PROVE i < j
    <2>1. CASE i = j
      BY <1>15, <1>16, <2>1
    <2>2. CASE j < i
      <3>1. told[j] < told[i]
        BY <1>14, <2>2
      <3>2. told[i] \in Nat /\ told[j] \in Nat
        BY <1>15
      <3> QED
        BY <1>16, <3>1, <3>2
    <2> QED
      BY <2>1, <2>2
  <1>17. ASSUME NEW i \in 1 .. n, NEW j \in 0 .. count, D[j] < told[i],
                \A l \in 1 .. n : D[j] < told[l] => i <= l
         PROVE  told[i] = 2 * D[j]
    <2>1. PICK k \in 1 .. count : told[i] = D[k]
      BY <1>12
    <2>2. D[j] \in Nat \ {0} /\ D[k] \in Nat \ {0}
      BY <1>7
    <2>3. j < k
      <3>1. ASSUME k <= j PROVE FALSE
        <4>1. D[k] <= D[j]
          BY <1>8, <3>1
        <4> QED
          BY <1>17, <2>1, <2>2, <4>1
      <3> QED
        BY <3>1
    <2>4. j + 1 \in 1 .. count /\ D[j + 1] = 2 * D[j]
      <3>1. PICK l \in 1 .. count : l = j + 1
        BY <2>3
      <3>2. D[l] = 2 * D[l - 1] /\ l - 1 = j
        BY <1>7, <3>1
      <3> QED
        BY <3>1, <3>2
    <2>5. PICK l \in 1 .. n : told[l] = D[j + 1]
      BY <1>13, <2>4
    <2>6. i <= l
      BY <1>17, <2>2, <2>4, <2>5
    <2>7. D[j + 1] <= D[k]
      BY <1>8, <2>3, <2>4
    <2>8. ~(told[l] < told[i])
      BY <1>16, <2>6
    <2> QED
      BY <1>15, <2>1, <2>2, <2>4, <2>5, <2>7, <2>8
  <1>18. told[1] = 2 * globalWidth
    <2>1. PICK k \in 1 .. count : told[1] = D[k]
      BY <1>6, <1>12
    <2>2. D[0] < told[1]
      <3>1. D[0] <= D[k - 1] /\ D[k] = 2 * D[k - 1] /\ D[k - 1] \in Nat \ {0}
        <4>1. k - 1 \in 0 .. count /\ 0 \in 0 .. count /\ 0 <= k - 1
          OBVIOUS
        <4> QED
          BY <1>7, <1>8, <4>1
      <3> QED
        BY <1>1, <1>7, <2>1, <3>1
    <2>3. told[1] = 2 * D[0]
      BY <1>6, <1>17, <2>2
    <2> QED
      BY <1>7, <2>3
  <1>19. ASSUME NEW i \in 1 .. n - 1 PROVE told[i + 1] = 2 * told[i]
    <2>1. PICK a \in 1 .. n, b \in 1 .. n : a = i /\ b = i + 1
      OBVIOUS
    <2>2. PICK j \in 1 .. count : told[a] = D[j]
      BY <1>12
    <2>3. told[a] < told[b]
      BY <1>14, <2>1
    <2>4. \A l \in 1 .. n : told[a] < told[l] => b <= l
      BY <1>16, <2>1
    <2>5. told[b] = 2 * D[j]
      BY <1>17, <2>2, <2>3, <2>4
    <2> QED
      BY <2>1, <2>2, <2>5
  <1>20. told \in Seq(Nat)
    BY <1>2, LargerSeq
  <1> QED
    BY <1>0, <1>6, <1>18, <1>19, <1>20

(* Values of the instances S for bins of width w.                          *)
SoundValues(K, S, w) == {e \in VEntry : e.mi \in S /\ InBin(K, e.mi, e.v.units, e.bin, w)}

(* A visi that has width low and all that is on its way to it: each thing  *)
(* is for the width that the visi will have when it gets there.            *)
CellsAt(low) ==
    /\ WidthAt(mail, Len(mail) + 1, low, globalWidth)
    /\ WaySound(mail, low, kept, mrlist)
    /\ buffer \in Seq(SoundEntries(kept, users, globalWidth))
    /\ vbuffer \in Seq(SoundValues(kept, mrlist, low))
    /\ \A m \in mrlist \ torn, b \in Bin : InBin(kept, m, grid[m].value[b].units, b, low)
    /\ FoldsOf(mail) = {} =>
           \A m \in fetching : \A b \in DOMAIN bulk : InBin(kept, m, bulk[b], b - 1, globalWidth)

(* The invariant of the cells: while widths are as they should be the visi *)
(* has a width that everything fits.                                       *)
CellsInv == ~odd => \E low \in Nat : CellsAt(low)

(* A step of the data manager that sends sound messages.                   *)
LEMMA ManagerCells ==
    ASSUME FlowInv, NEW low \in Nat, CellsAt(low), NEW r \in Seq(Message), mail' = mail \o r,
           \A m \in users : kept[m] \subseteq kept'[m],
           WaySound(r, globalWidth, kept', MI),
           WidthAt(r, Len(r) + 1, globalWidth, globalWidth'),
           buffer' \in Seq(SoundEntries(kept', users', globalWidth')),
           UNCHANGED <<mrlist, vbuffer, grid, torn, fetching, bulk>>
    PROVE  CellsAt(low)'
  <1>1. /\ mail \in Seq(Message) /\ mrlist \subseteq users /\ fetching \subseteq mrlist
        /\ EnabledOK(mail, users \ mrlist)
    BY FlowFacts DEF VisiInv
  <1>2. /\ WidthAt(mail, Len(mail) + 1, low, globalWidth)
        /\ WaySound(mail, low, kept, mrlist)
        /\ vbuffer \in Seq(SoundValues(kept, mrlist, low))
        /\ \A m \in mrlist \ torn, b \in Bin : InBin(kept, m, grid[m].value[b].units, b, low)
        /\ FoldsOf(mail) = {} =>
              \A m \in fetching : \A b \in DOMAIN bulk :
                  InBin(kept, m, bulk[b], b - 1, globalWidth)
    BY DEF CellsAt
  <1>3. WaySound(mail, low, kept', mrlist)
    <2>1. \A j \in EnabledOf(mail) : mail[j].entries[1].mi \in users
      BY <1>1 DEF EnabledOK
    <2> QED
      BY <1>1, <1>2, <2>1, WayKeeps
  <1>4. /\ WaySound(mail', low, kept', mrlist')
        /\ WidthAt(mail', Len(mail') + 1, low, globalWidth')
    BY <1>1, <1>2, <1>3, WayAppend
  <1>5. ASSUME NEW m \in users, NEW units, NEW b, NEW w, InBin(kept, m, units, b, w)
        PROVE  InBin(kept', m, units, b, w)
    BY <1>5 DEF InBin
  <1>6. vbuffer' \in Seq(SoundValues(kept', mrlist', low))
    <2>1. SoundValues(kept, mrlist, low) \subseteq SoundValues(kept', mrlist, low)
      BY <1>1, <1>5 DEF SoundValues
    <2> QED
      BY <1>2, <2>1, LargerSeq
  <1>7. \A m \in mrlist' \ torn', b \in Bin : InBin(kept', m, grid'[m].value[b].units, b, low)
    BY <1>1, <1>2, <1>5
  <1>8. ASSUME FoldsOf(mail') = {}, NEW m \in fetching', NEW b \in DOMAIN bulk'
        PROVE  InBin(kept', m, bulk'[b], b - 1, globalWidth')
    <2>1. FoldsOf(mail) = {} /\ FoldsOf(r) = {}
      BY <1>1, <1>8, FoldsAppend
    <2>2. globalWidth' = globalWidth
      BY <2>1 DEF WidthAt
    <2> QED
      BY <1>1, <1>2, <1>5, <2>1, <2>2
  <1> QED
    BY <1>4, <1>6, <1>7, <1>8 DEF CellsAt

(* A step of the data manager that sends nothing of use to the visi.       *)
LEMMA QuietCells ==
    ASSUME FlowInv, CellsInv, odd => odd', mail' = mail, buffer' = buffer,
           \A m \in users : kept[m] \subseteq kept'[m],
           UNCHANGED <<globalWidth, users, mrlist, vbuffer, grid, torn, fetching, bulk>>
    PROVE  CellsInv'
  <1> SUFFICES ASSUME ~odd' PROVE \E low \in Nat : CellsAt(low)'
    BY DEF CellsInv
  <1>1. PICK low \in Nat : CellsAt(low)
    BY DEF CellsInv
  <1>2. globalWidth \in Nat /\ mail \in Seq(Message)
    BY FlowFacts
  <1>3. PICK r \in Seq(Message) : r = <<>> /\ WaySound(r, globalWidth, kept', MI)
                                  /\ WidthAt(r, Len(r) + 1, globalWidth, globalWidth)
    BY <1>2, EmptyWay
  <1>4. mail' = mail \o r
    BY <1>2, <1>3, ConcatEmptySeq
  <1>5. buffer' \in Seq(SoundEntries(kept', users', globalWidth'))
    <2>1. SoundEntries(kept, users, globalWidth) \subseteq SoundEntries(kept', users, globalWidth)
      BY DEF SoundEntries, InBin
    <2>2. buffer \in Seq(SoundEntries(kept, users, globalWidth))
      BY <1>1 DEF CellsAt
    <2> QED
      BY <2>1, <2>2, LargerSeq
  <1>6. CellsAt(low)'
    BY <1>1, <1>3, <1>4, <1>5, ManagerCells
  <1> QED
    BY <1>6

(* What an open does to what the data manager has.                         *)
LEMMA OpenDoes ==
    ASSUME FlowInv, NEW m \in MI, NEW since, Open(m, since)
    PROVE  /\ globalWidth' = globalWidth /\ (odd => odd')
           /\ \A i \in users : kept'[i] = kept[i]
  <1>1. /\ globalWidth' = globalWidth /\ (odd => odd')
        /\ kept' = [kept EXCEPT ![m] = IF ~hist[m].exists THEN {} ELSE @]
    BY DEF Open
  <1>2. kept \in [MI -> SUBSET (0 .. MaxTime)] /\ users \in SUBSET MI
    BY FlowFacts DEF DMInv, DMTypeOK
  <1>3. m \in users => hist[m].exists
    BY FlowFacts DEF DMInv, HistInv, HistOK, Used
  <1> QED
    BY <1>1, <1>2, <1>3

(* Messages may be appended one after another or together.                 *)
LEMMA Rejoined ==
    ASSUME NEW s \in Seq(Message), NEW t \in Seq(Message), NEW u \in Seq(Message)
    PROVE  (s \o t) \o u = s \o (t \o u)
  BY ConcatAssociative

(* What is sent before the response to a subscription was for users before.*)
LEMMA SubscribeCells ==
    ASSUME FlowInv, CellsInv, NEW m \in MI, Subscribe(m)
    PROVE  CellsInv'
  <1>1. PICK since : Open(m, since)
    BY DEF Subscribe
  <1>2. globalWidth' = globalWidth /\ (odd => odd') /\ \A i \in users : kept'[i] = kept[i]
    BY <1>1, OpenDoes
  <1>3. /\ users' = users \union {m} /\ buffer' = <<>>
        /\ mail' = mail \o Nonempty(buffer) \o <<EnabledMessage(m)>>
        /\ UNCHANGED <<mrlist, vbuffer, grid, torn, fetching, bulk>>
    BY DEF Subscribe, thread, visi
  <1> SUFFICES ASSUME ~odd' PROVE \E low \in Nat : CellsAt(low)'
    BY DEF CellsInv
  <1>4. PICK low \in Nat : CellsAt(low)
    BY <1>2 DEF CellsInv
  <1>5. globalWidth \in Nat /\ mail \in Seq(Message) /\ users \in SUBSET MI
    BY FlowFacts
  <1>6. buffer \in Seq(SoundEntries(kept', MI, globalWidth))
    <2>1. SoundEntries(kept, users, globalWidth) \subseteq SoundEntries(kept', MI, globalWidth)
      BY <1>2, <1>5 DEF SoundEntries, InBin
    <2>2. buffer \in Seq(SoundEntries(kept, users, globalWidth))
      BY <1>4 DEF CellsAt
    <2> QED
      BY <2>1, <2>2, LargerSeq
  <1>7. PICK a \in Seq(Message) : /\ a = Nonempty(buffer) /\ WaySound(a, globalWidth, kept', MI)
                                  /\ WidthAt(a, Len(a) + 1, globalWidth, globalWidth)
    BY <1>5, <1>6, NonemptyWay
  <1>8. PICK b \in Seq(Message) : /\ b = <<EnabledMessage(m)>>
                                  /\ WaySound(b, globalWidth, kept', MI)
                                  /\ WidthAt(b, Len(b) + 1, globalWidth, globalWidth)
    BY <1>5, EnabledWay
  <1>9. /\ a \o b \in Seq(Message) /\ WaySound(a \o b, globalWidth, kept', MI)
        /\ WidthAt(a \o b, Len(a \o b) + 1, globalWidth, globalWidth)
    <2>1. a \o b \in Seq(Message)
      BY Positions
    <2> QED
      BY <1>7, <1>8, <2>1, WayAppend
  <1>10. mail' = mail \o (a \o b)
    <2>1. mail' = mail \o a \o b
      BY <1>3, <1>7, <1>8
    <2>2. (mail \o a) \o b = mail \o (a \o b)
      BY <1>5, Rejoined
    <2> QED
      BY <2>1, <2>2
  <1>11. buffer' \in Seq(SoundEntries(kept', users', globalWidth'))
    BY <1>3
  <1>12. CellsAt(low)'
    BY <1>2, <1>3, <1>4, <1>9, <1>10, <1>11, ManagerCells
  <1> QED
    BY <1>12

(* The samples of a histogram are sound.                                   *)
LEMMA SampleSound ==
    ASSUME NEW h \in HistType, NEW K, NEW m \in MI, BinsOK(h, K[m]), NEW b \in Bin,
           NEW U, m \in U
    PROVE  Sample(m, h, b) \in SoundEntries(K, U, h.width)
  <1>1. Sample(m, h, b) \in Entry
    BY SampleType
  <1>2. h.bins[b] \ {0} = K[m] \intersect Span(b, h.width)
    BY DEF BinsOK
  <1>3. InBin(K, m, h.bins[b], b, h.width)
    BY <1>2 DEF InBin
  <1> QED
    BY <1>1, <1>3 DEF SoundEntries, Sample

(* Folds are told after what was in the buffer, and the samples that       *)
(* follow are of the histogram as it is then.                              *)
LEMMA AggregateCells ==
    ASSUME FlowInv, FlowInv', CellsInv, NEW m \in MI, Aggregate(m)
    PROVE  CellsInv'
  <1> DEFINE count == FoldCount(m, EndOf(m))
             told == ToldOf(m)
             h == hist'[m]
             folds == IF told = <<>> THEN <<>> ELSE FoldMessages(told)
             rest == IF told = <<>> THEN buffer ELSE <<>>
             first == intvl[m].start \div h.width
             last == h.lastBin - 1
             es == Sampled(m, h)
             size == Cardinality(users)
             w == globalWidth'
             T == SoundEntries(kept', users, w)
  <1>0. DMInv /\ SameWidth /\ FlowTypeOK /\ DMInv' /\ SameWidth'
    BY FlowFacts DEF FlowInv
  <1>1. /\ hist[m].active /\ count \in Nat /\ h \in HistType
        /\ hist'[m].exists = hist[m].exists
        /\ first \in Nat /\ last < numBins /\ first <= last + 1
        /\ UNCHANGED <<subscribers, thread, visi, torn, odd>>
        /\ \A i \in MI : kept[i] \subseteq kept'[i]
    BY <1>0, AggregateSends
  <1>2. /\ globalWidth' = IF told = <<>> THEN globalWidth ELSE told[Len(told)]
        /\ IF m \in users
           THEN mail' = mail \o folds \o Sent(es, size) /\ buffer' = Left(es, size)
           ELSE mail' = mail \o folds /\ buffer' = rest
    BY <1>0, AggregateSends
  <1>3. /\ UNCHANGED <<users, mrlist, vbuffer, grid, torn, fetching, bulk>> /\ odd' = odd
    BY <1>1 DEF subscribers, thread, visi
  <1> SUFFICES ASSUME ~odd' PROVE \E low \in Nat : CellsAt(low)'
    BY DEF CellsInv
  <1>4. PICK low \in Nat : CellsAt(low)
    BY <1>3 DEF CellsInv
  <1>5. /\ globalWidth \in Nat /\ w \in Nat /\ mail \in Seq(Message) /\ users \in SUBSET MI
        /\ buffer \in Seq(SoundEntries(kept, users, globalWidth))
    <2>1. globalWidth' \in Nat
      BY <1>0 DEF DMInv, DMTypeOK
    <2> QED
      BY <1>4, <2>1, FlowFacts DEF CellsAt
  <1>6. buffer \in Seq(SoundEntries(kept', users, globalWidth))
    <2>1. SoundEntries(kept, users, globalWidth) \subseteq SoundEntries(kept', users, globalWidth)
      BY <1>1, <1>5 DEF SoundEntries, InBin
    <2> QED
      BY <1>5, <2>1, LargerSeq
  <1>7. buffer \in Seq(SoundEntries(kept', MI, globalWidth))
    <2>1. SoundEntries(kept', users, globalWidth) \subseteq SoundEntries(kept', MI, globalWidth)
      BY <1>5 DEF SoundEntries
    <2> QED
      BY <1>6, <2>1, LargerSeq
  <1>8. /\ folds \in Seq(Message) /\ WaySound(folds, globalWidth, kept', MI)
        /\ WidthAt(folds, Len(folds) + 1, globalWidth, w)
        /\ rest \in Seq(T)
    <2>1. CASE told = <<>>
      <3>1. folds = <<>> /\ rest = buffer /\ w = globalWidth
        BY <1>2, <2>1
      <3> HIDE DEF folds, rest, w
      <3> QED
        BY <1>5, <1>6, <3>1, EmptyWay
    <2>2. CASE told # <<>>
      <3>1. /\ MinWidth <= globalWidth
            /\ \A i \in MI : hist[i].exists => hist[i].width = globalWidth
        BY <1>0, <1>3 DEF SameWidth
      <3>2. told = Told(m, count)
        BY DEF ToldOf
      <3>3. PICK q \in Seq(Nat) : q = told
        BY <1>0, <1>1, <2>2, <3>1, <3>2, ToldDoubles
      <3>4. /\ Len(q) \in Nat \ {0} /\ q[1] = 2 * globalWidth
            /\ \A i \in 1 .. Len(q) - 1 : q[i + 1] = 2 * q[i]
        BY <1>0, <1>1, <2>2, <3>1, <3>2, <3>3, ToldDoubles
      <3>5. folds = FoldMessages(q) /\ rest = <<>> /\ w = q[Len(q)]
        BY <1>2, <2>2, <3>3
      <3> HIDE DEF folds, rest, w, told
      <3>6. /\ FoldMessages(q) \in Seq(Message)
            /\ WaySound(FoldMessages(q), globalWidth, kept', MI)
            /\ WidthAt(FoldMessages(q), Len(FoldMessages(q)) + 1, globalWidth, q[Len(q)])
        <4>1. PICK n \in Nat \ {0} : n = Len(q)
          BY <3>4
        <4>2. \A i \in 1 .. n - 1 : q[i + 1] = 2 * q[i]
          BY <3>4, <4>1
        <4> QED
          BY <1>0, <1>5, <1>7, <3>4, <4>1, <4>2, FoldsWay
      <3> QED
        BY <3>5, <3>6
    <2> QED
      BY <2>1, <2>2
  <1>9. m \in users => es \in Seq(T)
    <2> SUFFICES ASSUME m \in users PROVE es \in Seq(T)
      OBVIOUS
    <2>1. hist[m].exists /\ hist'[m].exists
      BY <1>0, <1>1 DEF DMInv, HistInv, HistOK
    <2>2. h.width = w
      BY <1>0, <2>1 DEF SameWidth
    <2>3. BinsOK(h, kept'[m])
      BY <1>0, <2>1 DEF DMInv, HistInv, HistOK
    <2>4. h.lastBin \in Int
      BY <1>1 DEF HistType, Bin
    <2>5. PICK fi \in Nat, la \in Int : fi = first /\ la = last /\ la < numBins /\ fi <= la + 1
      BY <1>1, <2>4
    <2>6. ASSUME NEW b \in fi .. la PROVE Sample(m, h, b) \in T
      <3>1. b \in Bin
        BY <2>5, NumBins DEF Bin
      <3>2. PICK g \in HistType : g = h
        BY <1>1
      <3> HIDE DEF h
      <3>3. Sample(m, g, b) \in SoundEntries(kept', users, g.width)
        BY <2>3, <3>1, <3>2, SampleSound
      <3> QED
        BY <2>2, <3>2, <3>3
    <2>7. Entries(m, h, fi, la) \in Seq(T)
      <3> HIDE DEF h, T
      <3> QED
        BY <2>5, <2>6, EntriesIs
    <2>8. es = rest \o Entries(m, h, fi, la)
      BY <2>5 DEF Sampled
    <2> HIDE DEF es, rest, T
    <2> QED
      BY <1>8, <2>7, <2>8, ConcatProperties
  <1> HIDE DEF es, folds, rest, told, w, h
  <1>10. \E r \in Seq(Message) :
             /\ mail' = mail \o r /\ WaySound(r, globalWidth, kept', MI)
             /\ WidthAt(r, Len(r) + 1, globalWidth, w)
             /\ buffer' \in Seq(T)
    <2>1. CASE m \in users
      <3>1. size \in Nat \ {0}
        <4>1. IsFiniteSet(users)
          BY <1>5, NumBins, FS_Subset
        <4> QED
          BY <2>1, <4>1, FS_CardinalityType, FS_EmptySet
      <3> HIDE DEF size
      <3>2. PICK s \in Seq(Message) : /\ s = Sent(es, size) /\ WaySound(s, w, kept', MI)
                                      /\ WidthAt(s, Len(s) + 1, w, w)
                                      /\ Left(es, size) \in Seq(T)
        BY <1>5, <1>9, <2>1, <3>1, SentWay
      <3>3. /\ folds \o s \in Seq(Message) /\ WaySound(folds \o s, globalWidth, kept', MI)
            /\ WidthAt(folds \o s, Len(folds \o s) + 1, globalWidth, w)
        <4>1. folds \o s \in Seq(Message)
          BY <1>8, Positions
        <4> QED
          BY <1>8, <3>2, <4>1, WayAppend
      <3>4. mail' = mail \o (folds \o s)
        <4>1. mail' = mail \o folds \o s
          BY <1>2, <2>1, <3>2
        <4>2. (mail \o folds) \o s = mail \o (folds \o s)
          BY <1>5, <1>8, <3>2, Rejoined
        <4> QED
          BY <4>1, <4>2
      <3> QED
        BY <1>2, <2>1, <3>2, <3>3, <3>4
    <2>2. CASE m \notin users
      BY <1>2, <1>8, <2>2
    <2> QED
      BY <2>1, <2>2
  <1>11. CellsAt(low)'
    <2>1. T = SoundEntries(kept', users', w)
      BY <1>3
    <2>2. \A i \in users : kept[i] \subseteq kept'[i]
      BY <1>1, <1>5
    <2> QED
      BY <1>3, <1>4, <1>10, <2>1, <2>2, ManagerCells DEF w
  <1> QED
    BY <1>11

(* What the visi shows when it has got all that the visi thread buffers.   *)
LEMMA FlushedIs ==
    ASSUME FlowInv, GridInv, NEW low \in Nat, CellsAt(low)
    PROVE  \A m \in mrlist \ torn, b \in Bin :
               InBin(kept, m, Data(grid, vbuffer)[m].value[b].units, b, low)
  <1>1. grid \in Grids
    BY DEF GridInv
  <1> DEFINE Y == SoundValues(kept, mrlist, low)
  <1>2. Y \in SUBSET VEntry /\ vbuffer \in Seq(Y)
    BY DEF SoundValues, CellsAt
  <1>3. \A e \in Y : InBin(kept, e.mi, e.v.units, e.bin, low)
    BY DEF SoundValues
  <1>4. \A m \in mrlist \ torn, b \in Bin : InBin(kept, m, grid[m].value[b].units, b, low)
    BY DEF CellsAt
  <1>5. mrlist \subseteq MI
    BY FlowFacts
  <1> HIDE DEF Y
  <1>6. ASSUME NEW m \in MI, m \in mrlist \ torn, NEW b \in Bin
        PROVE  InBin(kept, m, Data(grid, vbuffer)[m].value[b].units, b, low)
    <2>1. \/ Data(grid, vbuffer)[m].value[b] = grid[m].value[b]
          \/ \E e \in Y : /\ e.mi = m /\ e.bin = b
                          /\ Data(grid, vbuffer)[m].value[b] = e.v
      BY <1>1, <1>2, DataFrom
    <2> QED
      BY <1>3, <1>4, <1>6, <2>1
  <1> QED
    BY <1>5, <1>6

(* When an instance is given up the visi gets what is buffered, and then   *)
(* forgets the instance.                                                   *)
LEMMA StopCells ==
    ASSUME FlowInv, GridInv, CellsInv, NEW m \in MI, StopMetricResource(m)
    PROVE  CellsInv'
  <1>1. /\ fetching = {} /\ m \in mrlist /\ users' = users \ {m}
        /\ mail' = mail \o Nonempty(buffer) /\ buffer' = <<>>
        /\ grid' = [Data(grid, vbuffer) EXCEPT ![m] = NoCell]
        /\ vbuffer' = <<>> /\ mrlist' = mrlist \ {m} /\ torn' = torn \ {m}
        /\ UNCHANGED <<fetching, bulk, kept, odd>>
    BY DEF StopMetricResource, Flushed, Idle
  <1>2. globalWidth' = globalWidth
    BY DEF StopMetricResource, dm, Close
  <1>3. /\ globalWidth \in Nat /\ mail \in Seq(Message) /\ users \in SUBSET MI
        /\ mrlist \subseteq users /\ EnabledOK(mail, users \ mrlist)
    BY FlowFacts DEF VisiInv
  <1> SUFFICES ASSUME ~odd' PROVE \E low \in Nat : CellsAt(low)'
    BY DEF CellsInv
  <1>4. PICK low \in Nat : CellsAt(low)
    BY <1>1 DEF CellsInv
  <1>5. /\ WidthAt(mail, Len(mail) + 1, low, globalWidth)
        /\ WaySound(mail, low, kept, mrlist)
        /\ buffer \in Seq(SoundEntries(kept, users, globalWidth))
    BY <1>4 DEF CellsAt
  <1>6. buffer \in Seq(SoundEntries(kept, MI, globalWidth))
    <2>1. SoundEntries(kept, users, globalWidth) \subseteq SoundEntries(kept, MI, globalWidth)
      BY <1>3 DEF SoundEntries
    <2> QED
      BY <1>5, <2>1, LargerSeq
  <1>7. PICK a \in Seq(Message) : /\ a = Nonempty(buffer) /\ WaySound(a, globalWidth, kept, MI)
                                  /\ WidthAt(a, Len(a) + 1, globalWidth, globalWidth)
    BY <1>3, <1>6, NonemptyWay
  <1>8. WaySound(mail, low, kept, mrlist')
    <2>1. mrlist' \in SUBSET mrlist /\ mrlist' \subseteq users
          /\ \A j \in EnabledOf(mail) : mail[j].entries[1].mi \in users
          /\ \A i \in users : kept[i] \subseteq kept[i]
      BY <1>1, <1>3 DEF EnabledOK
    <2> QED
      BY <1>5, <2>1, WayKeeps
  <1>9. /\ WaySound(mail', low, kept', mrlist')
        /\ WidthAt(mail', Len(mail') + 1, low, globalWidth')
    <2>1. mail' = mail \o a
      BY <1>1, <1>7
    <2>2. /\ WaySound(mail \o a, low, kept, mrlist')
          /\ WidthAt(mail \o a, Len(mail \o a) + 1, low, globalWidth)
      BY <1>3, <1>5, <1>7, <1>8, WayAppend
    <2> QED
      BY <1>1, <1>2, <2>1, <2>2
  <1>10. \A i \in mrlist' \ torn', b \in Bin : InBin(kept', i, grid'[i].value[b].units, b, low)
    <2> SUFFICES ASSUME NEW i \in mrlist' \ torn', NEW b \in Bin
                 PROVE  InBin(kept', i, grid'[i].value[b].units, b, low)
      OBVIOUS
    <2>1. i \in mrlist \ torn /\ i # m
      BY <1>1
    <2>2. grid'[i] = Data(grid, vbuffer)[i]
      <3>1. Data(grid, vbuffer) \in Grids
        <4>1. grid \in Grids /\ vbuffer \in Seq(MyEntry) /\ MyEntry \in SUBSET VEntry
          BY DEF GridInv, MyEntry
        <4> QED
          BY <4>1, DataFrom
      <3>2. i \in MI
        BY <1>3, <2>1
      <3> QED
        BY <1>1, <2>1, <3>1, <3>2 DEF Grids
    <2> QED
      BY <1>1, <1>4, <2>1, <2>2, FlushedIs
  <1>11. CellsAt(low)'
    BY <1>1, <1>9, <1>10 DEF CellsAt
  <1> QED
    BY <1>11

(* The bins that are fetched are the histogram's, of the data manager's    *)
(* width.                                                                  *)
LEMMA FetchCells ==
    ASSUME FlowInv, GridInv, CellsInv, NEW m \in MI, GetSampleValues(m)
    PROVE  CellsInv'
  <1>1. /\ m \in fetching
        /\ bulk' = [b \in 1 .. hist[m].lastBin + 1 |-> hist[m].bins[b - 1]]
        /\ fetching' \subseteq fetching
        /\ UNCHANGED <<globalWidth, users, buffer, mail, mrlist, vbuffer, grid, kept, torn, odd>>
    BY DEF GetSampleValues, dm, subscribers, visi
  <1> SUFFICES ASSUME ~odd' PROVE \E low \in Nat : CellsAt(low)'
    BY DEF CellsInv
  <1>2. PICK low \in Nat : CellsAt(low)
    BY <1>1 DEF CellsInv
  <1>3. hist[m].exists
    <2>1. m \in users
      BY <1>1, FlowFacts
    <2> QED
      BY <2>1, FlowFacts DEF DMInv, HistInv, HistOK, Used
  <1>4. PICK h \in HistType : h = hist[m]
    BY FlowFacts DEF DMInv, DMTypeOK
  <1>5. h.width = globalWidth /\ BinsOK(h, kept[m])
    BY <1>1, <1>3, <1>4, FlowFacts DEF SameWidth, DMInv, HistInv, HistOK
  <1>6. ASSUME NEW i \in fetching', NEW b \in DOMAIN bulk'
        PROVE  InBin(kept', i, bulk'[b], b - 1, globalWidth')
    <2>1. b \in 1 .. h.lastBin + 1 /\ h.lastBin \in Bin \union {-1}
      BY <1>1, <1>4 DEF HistType
    <2>2. b - 1 \in Bin /\ bulk'[b] = h.bins[b - 1]
      <3>1. b - 1 \in Bin
        BY <2>1, NumBins DEF Bin
      <3>2. bulk'[b] = h.bins[b - 1]
        BY <1>1, <1>4, <2>1
      <3> QED
        BY <3>1, <3>2
    <2>3. InBin(kept, m, h.bins[b - 1], b - 1, h.width)
      BY <1>5, <2>2 DEF InBin, BinsOK
    <2>4. i = m
      BY <1>1 DEF GridInv
    <2> QED
      BY <1>1, <1>5, <2>2, <2>3, <2>4
  <1>7. CellsAt(low)'
    BY <1>1, <1>2, <1>6 DEF CellsAt
  <1> QED
    BY <1>7

(* Fetched bins fit when no fold came in between; otherwise the instance   *)
(* counts as torn.                                                         *)
LEMMA TransferCells ==
    ASSUME FlowInv, GridInv, CellsInv, NEW m \in MI, BulkDataTransfer(m)
    PROVE  CellsInv'
  <1>1. /\ m \in fetching /\ fetching' = {} /\ bulk' = <<>>
        /\ torn' = IF FoldsOf(mail) = {} THEN torn ELSE torn \union {m}
        /\ UNCHANGED <<globalWidth, users, buffer, mail, mrlist, vbuffer, kept, odd>>
    BY DEF BulkDataTransfer, dm, subscribers, pendingFolds, FoldsOf
  <1> SUFFICES ASSUME ~odd' PROVE \E low \in Nat : CellsAt(low)'
    BY DEF CellsInv
  <1>2. PICK low \in Nat : CellsAt(low)
    BY <1>1 DEF CellsInv
  <1>3. mrlist \subseteq MI /\ m \in mrlist /\ grid \in Grids
    BY <1>1, FlowFacts DEF GridInv
  <1> DEFINE e(b) == [mi |-> m, bin |-> b - 1, v |-> [units |-> bulk[b], per |-> hist[m].width]]
             Y == {x \in VEntry : \E b \in DOMAIN bulk : x = e(b)}
  <1>4. \A b \in DOMAIN bulk : e(b) \in Y
    BY <1>3, BulkValues DEF MyEntry
  <1>5. PICK front \in Seq(Y) : grid' = Data(grid, front)
    BY <1>4, BulkDataTransferDoes
  <1>6. Y \in SUBSET VEntry
    OBVIOUS
  <1>7. \A x \in Y : x.mi = m /\ \E b \in DOMAIN bulk : x.bin = b - 1 /\ x.v.units = bulk[b]
    OBVIOUS
  <1> HIDE DEF Y, e
  <1>8. ASSUME NEW i \in mrlist' \ torn', NEW b \in Bin
        PROVE  InBin(kept', i, grid'[i].value[b].units, b, low)
    <2>1. i \in mrlist \ torn /\ i \in MI
      BY <1>1, <1>3
    <2>2. InBin(kept, i, grid[i].value[b].units, b, low)
      BY <1>2, <2>1 DEF CellsAt
    <2>3. \/ grid'[i].value[b] = grid[i].value[b]
          \/ \E x \in Y : x.mi = i /\ x.bin = b /\ grid'[i].value[b] = x.v
      BY <1>3, <1>5, <1>6, <2>1, DataFrom
    <2>4. ASSUME NEW x \in Y, x.mi = i, x.bin = b, grid'[i].value[b] = x.v
          PROVE  InBin(kept', i, grid'[i].value[b].units, b, low)
      <3>1. i = m /\ FoldsOf(mail) = {}
        BY <1>1, <1>7, <1>8, <2>4
      <3>2. low = globalWidth
        BY <1>2, <3>1 DEF CellsAt, WidthAt
      <3>3. PICK c \in DOMAIN bulk : x.bin = c - 1 /\ x.v.units = bulk[c]
        BY <1>7
      <3>4. InBin(kept, m, bulk[c], c - 1, globalWidth)
        BY <1>1, <1>2, <3>1 DEF CellsAt
      <3> QED
        BY <1>1, <2>4, <3>1, <3>2, <3>3, <3>4
    <2> QED
      BY <1>1, <2>2, <2>3, <2>4
  <1>9. CellsAt(low)'
    BY <1>1, <1>2, <1>8 DEF CellsAt
  <1> QED
    BY <1>9

(* The first message of the mail is handled: what follows is for the width *)
(* that it leaves.                                                         *)
LEMMA TakeCells ==
    ASSUME FlowInv, NEW low \in Nat, CellsAt(low), mail # <<>>,
           mail' = Tail(mail), UNCHANGED <<globalWidth, users, buffer, kept>>,
           mrlist' = IF Head(mail).kind = "enabled"
                     THEN mrlist \union {Head(mail).entries[1].mi} ELSE mrlist,
           vbuffer' \in Seq(SoundValues(kept, mrlist', Next1(mail, low))),
           \A m \in mrlist' \ torn', b \in Bin :
               InBin(kept, m, grid'[m].value[b].units, b, Next1(mail, low)),
           bulk' = <<>> \/ fetching' = {}
    PROVE  \E w \in Nat : CellsAt(w)'
  <1>1. mail \in Seq(Message)
    BY FlowFacts
  <1>2. /\ WidthAt(mail, Len(mail) + 1, low, globalWidth)
        /\ WaySound(mail, low, kept, mrlist)
        /\ buffer \in Seq(SoundEntries(kept, users, globalWidth))
    BY DEF CellsAt
  <1>3. PICK w : w = Next1(mail, low)
    OBVIOUS
  <1>4. /\ WaySound(mail', w, kept', mrlist')
        /\ WidthAt(mail', Len(mail') + 1, w, globalWidth')
    BY <1>1, <1>2, <1>3, WayTail
  <1>5. w \in Nat
    <2>1. Head(mail) \in Message
      BY <1>1, TailPositions
    <2> QED
      BY <1>3, <2>1, MessageWidth DEF Next1
  <1>6. CellsAt(w)'
    <2>1. buffer' \in Seq(SoundEntries(kept', users', globalWidth'))
      BY <1>2
    <2>2. vbuffer' \in Seq(SoundValues(kept', mrlist', w))
      BY <1>3
    <2>3. \A m \in mrlist' \ torn', b \in Bin : InBin(kept', m, grid'[m].value[b].units, b, w)
      BY <1>3
    <2>4. \A m \in fetching' : \A b \in DOMAIN bulk' :
              InBin(kept', m, bulk'[b], b - 1, globalWidth')
      OBVIOUS
    <2> QED
      BY <1>4, <2>1, <2>2, <2>3, <2>4 DEF CellsAt
  <1> QED
    BY <1>5, <1>6

(* A new instance starts with an empty cell, and the others with all that  *)
(* was buffered.                                                           *)
LEMMA EnableCells ==
    ASSUME FlowInv, GridInv, CellsInv, EnableCallback
    PROVE  CellsInv'
  <1> DEFINE m == Head(mail).entries[1].mi
  <1>1. /\ fetching = {} /\ mail # <<>> /\ Head(mail).kind = "enabled"
        /\ mrlist' = mrlist \union {m} /\ grid' = Data(grid, vbuffer)
        /\ vbuffer' = <<>> /\ mail' = Tail(mail) /\ (odd => odd')
        /\ UNCHANGED <<globalWidth, users, buffer, bulk, kept, torn>>
    BY DEF EnableCallback, Flushed, Idle, dm, subscribers
  <1> SUFFICES ASSUME ~odd' PROVE \E low \in Nat : CellsAt(low)'
    BY DEF CellsInv
  <1>2. PICK low \in Nat : CellsAt(low)
    BY <1>1 DEF CellsInv
  <1>3. m \in MI \ mrlist
    BY <1>1, FlowFacts, TailEnabled DEF VisiInv
  <1> HIDE DEF m
  <1>4. Next1(mail, low) = low
    BY <1>1 DEF Next1
  <1>5. bulk' = <<>>
    BY <1>1 DEF GridInv
  <1>6. ASSUME NEW i \in mrlist' \ torn', NEW b \in Bin
        PROVE  InBin(kept', i, grid'[i].value[b].units, b, low)
    <2>1. CASE i \in mrlist
      BY <1>1, <1>2, <2>1, FlushedIs
    <2>2. CASE i = m
      <3>1. Data(grid, vbuffer)[m].value[b].units = NaN
        <4>1. vbuffer \in Seq(MyEntry)
          BY DEF GridInv
        <4> QED
          BY <1>3, <4>1, OthersEmpty
      <3>2. grid'[i].value[b].units = {}
        BY <1>1, <2>2, <3>1 DEF NaN
      <3> QED
        BY <3>2 DEF InBin
    <2> QED
      BY <1>1, <2>1, <2>2
  <1>7. vbuffer' \in Seq(SoundValues(kept, mrlist', low))
    BY <1>1
  <1>8. mrlist' = IF Head(mail).kind = "enabled"
                  THEN mrlist \union {Head(mail).entries[1].mi} ELSE mrlist
    BY <1>1 DEF m
  <1>9. \A i \in mrlist' \ torn', b \in Bin : InBin(kept, i, grid'[i].value[b].units, b, low)
    BY <1>1, <1>6
  <1> QED
    BY <1>1, <1>2, <1>4, <1>5, <1>7, <1>8, <1>9, TakeCells

(* Data that arrives is for the width that the visi has.                   *)
LEMMA DataCells ==
    ASSUME FlowInv, GridInv, CellsInv, DataCallback
    PROVE  CellsInv'
  <1>1. /\ fetching = {} /\ mail # <<>> /\ Head(mail).kind = "data" /\ mail' = Tail(mail)
        /\ UNCHANGED <<globalWidth, users, buffer, mrlist, bulk, fetching, kept, torn, odd>>
    BY DEF DataCallback, Idle, dm, subscribers
  <1> SUFFICES ASSUME ~odd' PROVE \E low \in Nat : CellsAt(low)'
    BY DEF CellsInv
  <1>2. PICK low \in Nat : CellsAt(low)
    BY <1>1 DEF CellsInv
  <1> DEFINE Y == SoundValues(kept, mrlist, low)
  <1>3. Y \in SUBSET MyEntry /\ Y \in SUBSET VEntry /\ vbuffer \in Seq(Y)
    BY <1>2 DEF SoundValues, MyEntry, CellsAt
  <1>4. /\ mail \in Seq(Message) /\ WaySound(mail, low, kept, mrlist)
        /\ mrlist \subseteq MI /\ grid \in Grids
    BY <1>2, FlowFacts DEF CellsAt, GridInv
  <1>5. SoundMessage(Head(mail), low, kept, mrlist)
    BY <1>1, <1>4, WayTail
  <1>6. Head(mail).entries \in Seq(Entry)
    <2>1. Head(mail) \in Message
      BY <1>1, <1>4, TailPositions
    <2> QED
      BY <1>1, <2>1 DEF Message
  <1>7. ASSUME NEW i \in DOMAIN Head(mail).entries, Head(mail).entries[i].mi \in mrlist
        PROVE  ValueOf(Head(mail).entries[i]) \in Y
    <2>1. PICK e \in Entry : e = Head(mail).entries[i]
      BY <1>6, LenProperties, ElementOfSeq
    <2>2. InBin(kept, e.mi, e.units, e.bin, low)
      BY <1>1, <1>5, <1>7, <2>1 DEF SoundMessage
    <2>3. ValueOf(e) \in MyEntry
      BY <1>7, <2>1, SampleValues
    <2>4. ValueOf(e).mi = e.mi /\ ValueOf(e).bin = e.bin /\ ValueOf(e).v.units = e.units
      BY DEF ValueOf
    <2> QED
      BY <2>1, <2>2, <2>3, <2>4 DEF SoundValues, MyEntry
  <1>8. \A e \in Y : InBin(kept, e.mi, e.v.units, e.bin, low)
    BY DEF SoundValues
  <1> HIDE DEF Y
  <1>9. (\E front \in Seq(Y) : grid' = Data(grid, front)) /\ vbuffer' \in Seq(Y)
    BY <1>3, <1>7, DataCallbackDoes
  <1>10. PICK front \in Seq(Y) : grid' = Data(grid, front)
    BY <1>9
  <1>11. ASSUME NEW m \in mrlist' \ torn', NEW b \in Bin
         PROVE  InBin(kept, m, grid'[m].value[b].units, b, low)
    <2>1. m \in MI /\ m \in mrlist \ torn
      BY <1>1, <1>4
    <2>2. \/ grid'[m].value[b] = grid[m].value[b]
          \/ \E e \in Y : e.mi = m /\ e.bin = b /\ grid'[m].value[b] = e.v
      BY <1>3, <1>4, <1>10, <2>1, DataFrom
    <2>3. InBin(kept, m, grid[m].value[b].units, b, low)
      BY <1>2, <2>1 DEF CellsAt
    <2> QED
      BY <1>8, <2>2, <2>3
  <1>12. Next1(mail, low) = low
    BY <1>1 DEF Next1
  <1>13. bulk' = <<>> \/ fetching' = {}
    BY <1>1
  <1>14. vbuffer' \in Seq(SoundValues(kept, mrlist', low))
    BY <1>1, <1>9 DEF Y
  <1>15. mrlist' = IF Head(mail).kind = "enabled"
                   THEN mrlist \union {Head(mail).entries[1].mi} ELSE mrlist
    BY <1>1
  <1>16. \A m \in mrlist' \ torn', b \in Bin : InBin(kept, m, grid'[m].value[b].units, b, low)
    BY <1>11
  <1> QED
    BY <1>1, <1>2, <1>12, <1>13, <1>14, <1>15, <1>16, TakeCells

(* A fold doubles the width of a visi that has bins, and halves its cells. *)
LEMMA FoldCells ==
    ASSUME FlowInv, GridInv, CellsInv, FoldCallback
    PROVE  CellsInv'
  <1> DEFINE width == Head(mail).width
  <1>1. /\ fetching = {} /\ mail # <<>> /\ Head(mail).kind = "fold" /\ mail' = Tail(mail)
        /\ UNCHANGED <<globalWidth, users, buffer, mrlist, bulk, fetching, kept, torn, odd>>
    BY DEF FoldCallback, Idle, dm, subscribers
  <1>2. IF binWidth # 0 /\ vwidth # width
        THEN grid' = [m \in MI |-> FoldCell(Data(grid, vbuffer)[m])] /\ vbuffer' = <<>>
        ELSE UNCHANGED <<grid, vbuffer>>
    BY DEF FoldCallback, Flushed, started
  <1> SUFFICES ASSUME ~odd' PROVE \E low \in Nat : CellsAt(low)'
    BY DEF CellsInv
  <1>3. PICK low \in Nat : CellsAt(low)
    BY <1>1 DEF CellsInv
  <1>4. /\ mail \in Seq(Message) /\ WaySound(mail, low, kept, mrlist)
        /\ mrlist \subseteq MI /\ vwidth \in Nat /\ globalWidth \in Nat
        /\ OrderedFolds(mail, vwidth, globalWidth)
    BY <1>3, FlowFacts DEF CellsAt, FoldsInv
  <1>5. width = 2 * low
    <2>1. SoundMessage(Head(mail), low, kept, mrlist)
      BY <1>1, <1>4, WayTail
    <2> QED
      BY <1>1, <2>1 DEF SoundMessage
  <1>6. Next1(mail, low) = 2 * low
    BY <1>1, <1>5 DEF Next1
  <1>7. vwidth < width
    BY <1>1, <1>4, TailFolds
  <1>8. binWidth = 0 => mrlist = {}
    BY FlowFacts DEF VisiInv
  <1> HIDE DEF width
  <1>9. vbuffer' = <<>>
    <2>1. CASE binWidth = 0
      <3>1. vbuffer \in Seq(MyEntry) /\ MyEntry = {}
        BY <1>8, <2>1 DEF GridInv, MyEntry
      <3>2. PICK n \in Nat : n = Len(vbuffer)
        BY <3>1, LenProperties
      <3>3. \A i \in 1 .. n : vbuffer[i] \in {}
        BY <3>1, <3>2, ElementOfSeq
      <3>4. n = 0
        <4>1. CASE n # 0
          <5>1. 1 \in 1 .. n
            BY <4>1
          <5> QED
            BY <3>3, <5>1
        <4> QED
          BY <4>1
      <3>5. vbuffer = <<>>
        BY <3>1, <3>2, <3>4, EmptySeq
      <3> QED
        BY <1>2, <2>1, <3>5
    <2>2. CASE binWidth # 0
      BY <1>2, <1>4, <1>7, <2>2
    <2> QED
      BY <2>1, <2>2
  <1>10. ASSUME NEW m \in mrlist' \ torn', NEW b \in Bin
         PROVE  InBin(kept, m, grid'[m].value[b].units, b, 2 * low)
    <2>1. m \in mrlist \ torn /\ m \in MI /\ binWidth # 0
      BY <1>1, <1>4, <1>8
    <2>2. grid' = [i \in MI |-> FoldCell(Data(grid, vbuffer)[i])]
      BY <1>2, <1>4, <1>7, <2>1
    <2>3. PICK g \in Grids : g = Data(grid, vbuffer)
      <3>1. grid \in Grids /\ vbuffer \in Seq(MyEntry) /\ MyEntry \in SUBSET VEntry
        BY DEF GridInv, MyEntry
      <3> QED
        BY <3>1, DataFrom
    <2>4. grid'[m].value[b].units # NaN =>
              /\ 2 * b \in Bin /\ 2 * b + 1 \in Bin
              /\ grid'[m].value[b].units \subseteq
                     g[m].value[2 * b].units \union g[m].value[2 * b + 1].units
      BY <2>1, <2>2, <2>3, FoldCellIs
    <2>5. CASE grid'[m].value[b].units = NaN
      BY <2>5 DEF InBin, NaN
    <2>6. CASE grid'[m].value[b].units # NaN
      <3>1. 2 * b \in Bin /\ 2 * b + 1 \in Bin
        BY <2>4, <2>6
      <3>2. /\ InBin(kept, m, g[m].value[2 * b].units, 2 * b, low)
            /\ InBin(kept, m, g[m].value[2 * b + 1].units, 2 * b + 1, low)
        BY <1>3, <2>1, <2>3, <3>1, FlushedIs
      <3>3. Span(b, 2 * low) = Span(2 * b, low) \union Span(2 * b + 1, low)
        <4>1. b \in Nat
          BY NumBins DEF Bin
        <4> QED
          BY <4>1, SpanHalves
      <3> QED
        BY <2>4, <2>6, <3>2, <3>3 DEF InBin
    <2> QED
      BY <2>5, <2>6
  <1>11. vbuffer' \in Seq(SoundValues(kept, mrlist', 2 * low))
    BY <1>9
  <1>12. mrlist' = IF Head(mail).kind = "enabled"
                   THEN mrlist \union {Head(mail).entries[1].mi} ELSE mrlist
    BY <1>1
  <1>13. bulk' = <<>> \/ fetching' = {}
    BY <1>1
  <1>14. \A m \in mrlist' \ torn', b \in Bin :
             InBin(kept, m, grid'[m].value[b].units, b, Next1(mail, low))
    BY <1>6, <1>10
  <1>15. vbuffer' \in Seq(SoundValues(kept, mrlist', Next1(mail, low)))
    BY <1>6, <1>11
  <1> HIDE <1>2
  <1> QED
    BY <1>1, <1>3, <1>12, <1>13, <1>14, <1>15, TakeCells

(* At the start nothing is on its way.                                     *)
LEMMA CellsInvInit == Init => CellsInv
  <1> SUFFICES ASSUME Init PROVE CellsInv
    OBVIOUS
  <1>1. /\ mail = <<>> /\ buffer = <<>> /\ vbuffer = <<>> /\ mrlist = {} /\ fetching = {}
        /\ globalWidth = MinWidth
    BY DEF Init
  <1>2. WidthAt(mail, Len(mail) + 1, globalWidth, globalWidth)
    <2>1. FoldsOf(mail) = {}
      BY <1>1, EmptyMail
    <2> QED
      BY <2>1 DEF WidthAt
  <1>3. WaySound(mail, globalWidth, kept, mrlist)
    <2>1. DOMAIN mail = {}
      BY <1>1
    <2> QED
      BY <2>1 DEF WaySound
  <1>4. CellsAt(globalWidth)
    BY <1>1, <1>2, <1>3 DEF CellsAt
  <1>5. globalWidth \in Nat
    BY <1>1, NumBins
  <1> QED
    BY <1>4, <1>5 DEF CellsInv

(* Every step keeps everything fit for the width it will be used with.     *)
LEMMA CellsInvNext ==
    ASSUME FlowInv, FlowInv', GridInv, CellsInv, [Next]_vars
    PROVE  CellsInv'
  <1>1. ASSUME NEW m \in MI, OpenOther(m) PROVE CellsInv'
    <2>1. PICK since : Open(m, since)
      BY <1>1 DEF OpenOther
    <2>2. globalWidth' = globalWidth /\ (odd => odd') /\ \A i \in users : kept'[i] = kept[i]
      BY <2>1, OpenDoes
    <2>3. UNCHANGED <<users, buffer, mail, mrlist, vbuffer, grid, torn, fetching, bulk>>
      BY <1>1 DEF OpenOther, thread, visi
    <2> QED
      BY <2>2, <2>3, QuietCells
  <1>2. ASSUME NEW m \in MI, CloseOther(m) PROVE CellsInv'
    <2>1. UNCHANGED <<globalWidth, users, buffer, mail, mrlist, vbuffer, grid, torn, fetching,
                      bulk, kept, odd>>
      BY <1>2 DEF CloseOther, Close, dm, thread, visi
    <2> QED
      BY <2>1, QuietCells
  <1>3. ASSUME UNCHANGED vars PROVE CellsInv'
    <2>1. UNCHANGED <<globalWidth, users, buffer, mail, mrlist, vbuffer, grid, torn, fetching,
                      bulk, kept, odd>>
      BY <1>3 DEF vars, dm, subscribers, thread, visi
    <2> QED
      BY <2>1, QuietCells
  <1> QED
    BY <1>1, <1>2, <1>3, SubscribeCells, AggregateCells, FetchCells, TransferCells, StopCells,
       EnableCells, DataCells, FoldCells DEF Next

(* While no histogram was created with a wrong width, everything that is   *)
(* buffered or on its way will find the visi with the width that it is     *)
(* for, and so does what the visi has already.                             *)
THEOREM CellsInvariant == Spec => []CellsInv
  <1>1. Init => CellsInv
    BY CellsInvInit
  <1>2. FlowInv /\ FlowInv' /\ GridInv /\ CellsInv /\ [Next]_vars => CellsInv'
    BY CellsInvNext
  <1> QED
    BY <1>1, <1>2, FlowInvariant, GridInvariant, PTL DEF Spec

(* What a visi shows is data of the histogram, and in the bin of its time: *)
(* also while folds are under way each bin of the grid has data only of    *)
(* the span that it will be labelled with.                                 *)
THEOREM CellsAreSound == Spec => []CellsSound
  <1>1. FlowInv /\ CellsInv => CellsSound
    <2> SUFFICES ASSUME FlowInv, CellsInv, NEW m \in mrlist \ torn, ~odd, NEW b \in Bin
                 PROVE  grid[m].value[b].units \ {0} \subseteq
                            kept[m] \intersect Span(b, toldWidth)
      BY DEF CellsSound
    <2>1. PICK low \in Nat : CellsAt(low)
      BY DEF CellsInv
    <2>2. toldWidth = low
      <3>1. pendingFolds = FoldsOf(mail)
        BY DEF pendingFolds, FoldsOf
      <3>2. CASE FoldsOf(mail) = {}
        BY <2>1, <3>1, <3>2 DEF toldWidth, CellsAt, WidthAt
      <3>3. CASE FoldsOf(mail) # {}
        <4>1. mail \in Seq(Message)
          BY FlowFacts
        <4>2. FoldsOf(mail) \in SUBSET Nat
          BY <4>1, LenProperties DEF FoldsOf
        <4>3. PICK j \in FoldsOf(mail) : j = Min(FoldsOf(mail)) /\ \A k \in FoldsOf(mail) : j <= k
          BY <3>3, <4>2, MinIs
        <4>4. WidthAt(mail, j, low, low)
          BY <4>2, <4>3 DEF WidthAt
        <4>5. mail[j].kind = "fold" /\ j \in DOMAIN mail
          BY DEF FoldsOf
        <4>6. mail[j].width = 2 * low
          BY <2>1, <4>4, <4>5 DEF CellsAt, WaySound, SoundMessage
        <4>7. toldWidth = mail[j].width \div 2
          BY <3>1, <3>3, <4>3 DEF toldWidth
        <4> QED
          BY <4>6, <4>7
      <3> QED
        BY <3>2, <3>3
    <2> QED
      BY <2>1, <2>2 DEF CellsAt, InBin
  <1> QED
    BY <1>1, FlowInvariant, CellsInvariant, PTL
=============================================================================
