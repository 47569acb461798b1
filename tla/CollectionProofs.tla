-------------------------- MODULE CollectionProofs --------------------------
(***************************************************************************)
(* Proofs about the data of a metric instance, Collection.tla: none is     *)
(* lost or counted twice on its way, and the daemons and the front end     *)
(* agree, for any number of daemons and processes.                         *)
(*                                                                         *)
(* The invariant, CollectionInv, has these parts.  An aggregator is sound  *)
(* (AggOK): the samples of a component ascend from the time it has samples *)
(* up to, and none begins before the interval the aggregator is at, unless *)
(* it has finished.  FeInv is about the front end, NodesInv and            *)
(* MeasuredInv about the nodes of the daemons, whose processes each have a *)
(* component of their own; the component has got what the process gave     *)
(* away, up to where the process has got (ProcOK).  LinkInv is about what  *)
(* crosses: a daemon is in one of five states as the front end sees it     *)
(* (Component to Refused), each of which says what may be on the way in    *)
(* either direction.  Follows is the heart of it: the intervals on the way *)
(* follow what the component was given, and lead without a gap to where    *)
(* the node is now, if there is still one.                                 *)
(*                                                                         *)
(* Aggregation is described by what it does to these (Aggregated, Fed,     *)
(* EntriesFed): a sample is given to its component and to no other, the    *)
(* intervals that come out continue those before, and their values are by  *)
(* how much the actual value of the aggregator has grown (Emits).  A loop  *)
(* of the model, which is a recursive function, is reached by induction    *)
(* over the numbers (LoopExists, LoopKeeps): S[i] has the states that are  *)
(* sound after i rounds.                                                   *)
(***************************************************************************)
EXTENDS Collection, FiniteSetTheorems, SequenceTheorems, WellFoundedInduction, TLAPS

SampleType == [time : Nat, value : Int]
IntvlType == {e \in [start : Nat, end : Nat, value : Int] : e.start < e.end}
CompType == [last : Nat \union {NotSet}, actualSet : BOOLEAN,
             curIntvlVal : Int, curActualVal : Int,
             futureSamples : Seq(SampleType), bIsFinished : BOOLEAN]
AggType == [curIntvlStart : Nat \union {NotSet}, width : Nat \ {0},
            lastActualVal : Int, comps : Seq(CompType)]

(* The samples of a queue are of times that ascend from t; the last of them*)
(* is up to the time UpTo.                                                 *)
Ascending(q, t) == \A j \in 1 .. Len(q) : (IF j = 1 THEN t ELSE q[j - 1].time) < q[j].time
UpTo(q, t) == IF q = <<>> THEN t ELSE q[Len(q)].time

(* A component of an aggregator whose interval begins at start.  One that  *)
(* has finished may be behind, but then has no samples left.               *)
CompOK(c, start) ==
    /\ Ascending(c.futureSamples, c.last)
    /\ c.futureSamples # <<>> => c.last # NotSet
    /\ c.last = NotSet \/ start <= c.last \/ (c.bIsFinished /\ c.futureSamples = <<>>)

AggOK(a) == a \in AggType /\ \A i \in DOMAIN a.comps : CompOK(a.comps[i], a.curIntvlStart)

(* Where the next interval of an aggregator begins, once it can be said.   *)
FirstStart(a) ==
    IF a.curIntvlStart # NotSet THEN a.curIntvlStart
    ELSE Min({a.comps[i].last : i \in DOMAIN a.comps})

Contiguous(es) == \A i \in 2 .. Len(es) : es[i].start = es[i - 1].end

(* The last actual value of an aggregator is that of its components.       *)
Summed(a) == a.lastActualVal = SumOf([i \in DOMAIN a.comps |-> a.comps[i].curActualVal])

NodeType == [exists : BOOLEAN, agg : AggType, sentInitial : BOOLEAN]
ProcNodeType == [part : Nat, inserted : BOOLEAN, agg : AggType, since : Nat]
MsgType == [kind : {"success", "failure", "initial", "end"}]
           \union [kind : {"batch"}, entries : Seq(IntvlType)]

TypeInv ==
    /\ width \in Nat \ {0} /\ fe \in AggType /\ shown \in Int
    /\ component \in [Daemon -> Nat]
    /\ asked \subseteq Daemon /\ refused \in BOOLEAN /\ enabled \in BOOLEAN
    /\ node \in [Daemon -> NodeType] /\ procNode \in [Proc -> ProcNodeType]
    /\ toDelete \subseteq Daemon /\ live \subseteq Proc /\ waiting \subseteq Proc
    /\ measured \in [Daemon -> Seq(Int)]
    /\ clockNow \in Nat
    /\ toDaemon \in [Daemon -> Seq({"enable", "disable"})]
    /\ toFE \in [Daemon -> Seq(MsgType)]

(* The front end: what is shown is what is aggregated, and a daemon's      *)
(* component is its own and has not finished.                              *)
FeInv ==
    /\ AggOK(fe) /\ fe.width = width /\ Summed(fe) /\ shown = fe.lastActualVal
    /\ \A d \in Daemon : component[d] # 0 =>
          /\ component[d] \in 1 .. Len(fe.comps)
          /\ ~fe.comps[component[d]].bIsFinished
          /\ \A e \in Daemon : component[e] = component[d] => e = d

(* A process n whose component in the aggregator a of its node was started *)
(* has one itself; it was sampled up to its last reading, and passed on    *)
(* what it has aggregated.                                                 *)
ProcOK(a, n, now) ==
    /\ n.part \in 1 .. Len(a.comps) /\ ~a.comps[n.part].bIsFinished
    /\ a.comps[n.part].last = NotSet => n.agg.comps = <<>> /\ n.agg.lastActualVal = 0
    /\ a.comps[n.part].last # NotSet =>
          /\ AggOK(n.agg) /\ n.agg.width = width /\ Len(n.agg.comps) = 1
          /\ n.agg.comps[1].last # NotSet /\ ~n.agg.comps[1].bIsFinished
          /\ n.since <= now /\ GivenUpTo(n.agg.comps[1]) = n.since
          /\ GivenUpTo(a.comps[n.part]) = FirstStart(n.agg)

PartsOf(d, procs) == {p \in Proc : Host[p] = d /\ procs[p].part # 0}

NodeOK(d, a, procs, now) ==
    /\ AggOK(a) /\ a.width = width /\ a.curIntvlStart <= now
    /\ \A p \in PartsOf(d, procs) :
          /\ ProcOK(a, procs[p], now)
          /\ \A q \in PartsOf(d, procs) : procs[q].part = procs[p].part => q = p

NodesInv ==
    /\ live \intersect waiting = {}
    /\ \A p \in Proc : /\ procNode[p].part # 0 => p \in live /\ node[Host[p]].exists
                       /\ procNode[p].inserted => procNode[p].part # 0
    /\ \A d \in Daemon : node[d].exists => NodeOK(d, node[d].agg, procNode, clockNow)

(* What was measured is in the component or not yet passed on.             *)
MeasuredOK(a, procs, d, m) ==
    /\ Len(m) = Len(a.comps)
    /\ \A i \in 1 .. Len(a.comps) :
          (\A p \in PartsOf(d, procs) : procs[p].part # i) => m[i] = Given(a.comps[i])
    /\ \A p \in PartsOf(d, procs) :
          m[procs[p].part] = Given(a.comps[procs[p].part])
              + (SumOf([i \in DOMAIN procs[p].agg.comps |-> Given(procs[p].agg.comps[i])])
                    - procs[p].agg.lastActualVal)

MeasuredInv ==
    \A d \in Daemon : node[d].exists => MeasuredOK(node[d].agg, procNode, d, measured[d])

(* The messages from a daemon.                                             *)
NoAnswer(q) == \A i \in 1 .. Len(q) : q[i].kind \notin {"success", "failure"}
Ended(q) == \E i \in 1 .. Len(q) : q[i].kind = "end"
NextOf(es, upTo) == IF es # <<>> THEN es[Len(es)].end ELSE upTo

(* Those after it has answered that the instance is enabled: the intervals *)
(* in them follow what its component was given, and lead to where its node *)
(* has got, when there is a node still.                                    *)
Follows(n, q, given, upTo) ==
    /\ NoAnswer(q) /\ (n.exists <=> ~Ended(q))
    /\ Contiguous(EntriesIn(q))
    /\ EntriesIn(q) # <<>> /\ upTo # NotSet => EntriesIn(q)[1].start = upTo
    /\ n.exists =>
          /\ n.agg.lastActualVal = given + Values(EntriesIn(q))
          /\ NextOf(EntriesIn(q), upTo) # NotSet
                => n.agg.curIntvlStart = NextOf(EntriesIn(q), upTo)

Component(d) ==
    /\ component[d] # 0 /\ d \notin asked /\ d \notin toDelete /\ toDaemon[d] = <<>>
    /\ Follows(node[d], toFE[d], Given(fe.comps[component[d]]), GivenUpTo(fe.comps[component[d]]))

Idle(d) ==
    /\ component[d] = 0 /\ d \notin asked /\ NoAnswer(toFE[d])
    /\ toDaemon[d] \in {<<>>, <<"disable">>}
    /\ node[d].exists => d \in toDelete \/ toDaemon[d] # <<>>

Requested(d) ==
    /\ component[d] = 0 /\ d \in asked /\ NoAnswer(toFE[d])
    /\ toDaemon[d] \in {<<"enable">>, <<"disable", "enable">>}
    /\ node[d].exists => d \in toDelete \/ toDaemon[d] = <<"disable", "enable">>

(* An answer is under way, with messages before and after it.              *)
AnswerIn(q, kind, pre, rest) ==
    /\ q = pre \o (<<[kind |-> kind]>> \o rest)
    /\ NoAnswer(pre)

Succeeded(d) ==
    /\ component[d] = 0 /\ d \in asked /\ d \notin toDelete /\ toDaemon[d] = <<>>
    /\ \E pre, rest \in Seq(MsgType) :
          AnswerIn(toFE[d], "success", pre, rest) /\ Follows(node[d], rest, 0, NotSet)

Refused(d) ==
    /\ component[d] = 0 /\ d \in asked /\ toDaemon[d] = <<>> /\ ~node[d].exists
    /\ \E pre \in Seq(MsgType) : AnswerIn(toFE[d], "failure", pre, <<>>)

Link(d) == Component(d) \/ Idle(d) \/ Requested(d) \/ Succeeded(d) \/ Refused(d)
LinkInv == \A d \in Daemon : Link(d)

EnabledInv ==
    /\ enabled => asked = {} /\ ~refused
    /\ (enabled \/ asked # {}) /\ ~refused
          => \A d \in Daemon \ asked : component[d] # 0 \/ ~node[d].exists

DataInv == TypeInv /\ FeInv /\ NodesInv /\ MeasuredInv /\ LinkInv /\ EnabledInv
CollectionInv == running => DataInv

-----------------------------------------------------------------------------
(* Induction, loops and sums.                                              *)

(* A set of numbers that is not empty has a least one.                     *)
LEMMA LeastOne ==
    ASSUME NEW T \in SUBSET Nat, T # {}
    PROVE  \E n \in T : \A k \in T : n <= k
  <1>1. PICK x \in T : \A y \in T : ~(<<y, x>> \in OpToRel(<, Nat))
    BY NatLessThanWellFounded, WFMin
  <1>2. ASSUME NEW y \in T PROVE x <= y
    <2>1. x \in Nat /\ y \in Nat
      OBVIOUS
    <2>2. ~(y < x)
      BY <1>1, <2>1 DEF OpToRel
    <2> QED
      BY <2>1, <2>2
  <1> QED
    BY <1>2

(* Induction over a set: a set that has 0, and the successor of each       *)
(* number it has, has all numbers.                                         *)
LEMMA NatSetInduction ==
    ASSUME NEW P, 0 \in P, \A n \in P \intersect Nat : n + 1 \in P
    PROVE  Nat \subseteq P
  <1> DEFINE T == Nat \ P
  <1>1. CASE T # {}
    <2>1. PICK n \in T : \A k \in T : n <= k
      BY <1>1, LeastOne
    <2>2. n - 1 \in Nat /\ n - 1 \in P
      BY <2>1
    <2>3. n - 1 + 1 \in P
      BY <2>2
    <2> QED
      BY <2>1, <2>2, <2>3
  <1> QED
    BY <1>1

-----------------------------------------------------------------------------
(* Loops: the operators of the model compute a sequence of states, each    *)
(* from the one before.  S[i] is a set of states the i-th of them is in.   *)

(* What each state keeps if the one before has it, all of them have.       *)
Keeps(n, S, f) == \A i \in 1 .. n : f[i - 1] \in S[i - 1] => f[i] \in S[i]

LEMMA LoopKeeps ==
    ASSUME NEW n \in Nat, NEW S, NEW f, f[0] \in S[0], Keeps(n, S, f)
    PROVE  \A i \in 0 .. n : f[i] \in S[i]
  <1> DEFINE Q == {i \in Nat : i <= n => f[i] \in S[i]}
  <1>1. 0 \in Q
    OBVIOUS
  <1>2. ASSUME NEW i \in Q \intersect Nat PROVE i + 1 \in Q
    <2>1. CASE i + 1 <= n
      <3>1. i + 1 \in 1 .. n /\ (i + 1) - 1 = i /\ f[i] \in S[i]
        BY <2>1
      <3> QED
        BY <3>1 DEF Keeps
    <2> QED
      BY <2>1
  <1>3. Nat \subseteq Q
    <2> HIDE DEF Q
    <2> QED
      BY <1>1, <1>2, NatSetInduction
  <1> QED
    BY <1>3

(* There is such a sequence of states.                                     *)
StepKeeps(n, S, step) == \A i \in 1 .. n : \A s \in S[i - 1] : step[i][s] \in S[i]
IsLoop(n, S, x, step, f) ==
    /\ f[0] = x /\ \A i \in 1 .. n : f[i] = step[i][f[i - 1]]
    /\ \A i \in 0 .. n : f[i] \in S[i]

LEMMA LoopExists ==
    ASSUME NEW n \in Nat, NEW T, NEW S \in [0 .. n -> SUBSET T], NEW x \in S[0],
           NEW step, StepKeeps(n, S, step)
    PROVE  \E f \in [0 .. n -> T] : IsLoop(n, S, x, step, f)
  <1> DEFINE Def(g, k) == [i \in 0 .. k |-> IF i = 0 THEN x ELSE step[i][g[i - 1]]]
             Q == {k \in Nat : \E g : g = Def(g, k)}
  <1>2. 0 \in Q
    <2>1. [i \in 0 .. 0 |-> x] = Def([i \in 0 .. 0 |-> x], 0)
      OBVIOUS
    <2> QED
      BY <2>1
  <1>3. ASSUME NEW k \in Q \intersect Nat PROVE k + 1 \in Q
    <2>1. PICK g : g = Def(g, k)
      OBVIOUS
    <2> DEFINE h == Def(g, k + 1)
    <2>2. \A i \in 0 .. k : h[i] = g[i]
      <3>1. \A i \in 0 .. k : i \in 0 .. k + 1 /\ Def(g, k)[i] = Def(g, k + 1)[i]
        OBVIOUS
      <3> QED
        BY <2>1, <3>1
    <2>3. h = Def(h, k + 1)
      <3>1. \A i \in 0 .. k + 1 : i # 0 => h[i - 1] = g[i - 1]
        <4>1. \A i \in 0 .. k + 1 : i # 0 => i - 1 \in 0 .. k
          OBVIOUS
        <4> HIDE DEF h
        <4> QED
          BY <2>2, <4>1
      <3>2. \A i \in 0 .. k + 1 : (IF i = 0 THEN x ELSE step[i][g[i - 1]])
                                   = IF i = 0 THEN x ELSE step[i][h[i - 1]]
        <4> HIDE DEF h
        <4> QED
          BY <3>1
      <3>3. h = [i \in 0 .. k + 1 |-> IF i = 0 THEN x ELSE step[i][g[i - 1]]]
        OBVIOUS
      <3> HIDE DEF h
      <3> QED
        BY <3>2, <3>3
    <2> HIDE DEF h, Def
    <2> QED
      BY <2>3
  <1>4. n \in Q
    <2> HIDE DEF Q
    <2> QED
      BY <1>2, <1>3, NatSetInduction
  <1>5. PICK f : f = Def(f, n)
    BY <1>4
  <1>6. f[0] = x /\ \A i \in 1 .. n : f[i] = step[i][f[i - 1]]
    <2>1. Def(f, n)[0] = x /\ \A i \in 1 .. n : Def(f, n)[i] = step[i][f[i - 1]]
      OBVIOUS
    <2> HIDE DEF Def
    <2> QED
      BY <1>5, <2>1
  <1>7. Keeps(n, S, f)
    BY <1>6 DEF StepKeeps, Keeps
  <1>8. \A i \in 0 .. n : f[i] \in S[i]
    BY <1>6, <1>7, LoopKeeps
  <1>9. f \in [0 .. n -> T]
    <2>1. f = [i \in 0 .. n |-> f[i]]
      BY <1>5
    <2> QED
      BY <1>8, <2>1
  <1> QED
    BY <1>6, <1>8, <1>9 DEF IsLoop

-----------------------------------------------------------------------------
(* Sums.                                                                   *)
PrefixSums(numbers, f) ==
    f = [i \in 0 .. Len(numbers) |-> IF i = 0 THEN 0 ELSE f[i - 1] + numbers[i]]

LEMMA SumIs ==
    ASSUME NEW s \in Seq(Int)
    PROVE  \E f : PrefixSums(s, f) /\ SumOf(s) = f[Len(s)]
  <1> DEFINE n == Len(s)
             f == CHOOSE f : f = [i \in 0 .. Len(s) |-> IF i = 0 THEN 0 ELSE f[i - 1] + s[i]]
             S == [i \in 0 .. n |-> Int]
             step == [i \in 1 .. n |-> [x \in Int |-> x + s[i]]]
  <1>1. \E g : g = [i \in 0 .. n |-> IF i = 0 THEN 0 ELSE g[i - 1] + s[i]]
    <2>1. n \in Nat /\ \A i \in 1 .. n : s[i] \in Int
      OBVIOUS
    <2>2. S \in [0 .. n -> SUBSET Int] /\ 0 \in S[0] /\ StepKeeps(n, S, step)
      BY <2>1 DEF StepKeeps
    <2>3. \A i \in 1 .. n : \A x \in S[i - 1] : step[i][x] = x + s[i]
      BY <2>1
    <2> HIDE DEF n, S, step
    <2>4. PICK g \in [0 .. n -> Int] : IsLoop(n, S, 0, step, g)
      BY <2>1, <2>2, LoopExists
    <2>5. \A i \in 0 .. n : g[i] = IF i = 0 THEN 0 ELSE g[i - 1] + s[i]
      <3>1. \A i \in 0 .. n : i # 0 => i \in 1 .. n /\ i - 1 \in 0 .. n
        BY <2>1
      <3> QED
        BY <2>3, <2>4, <3>1 DEF IsLoop, S
    <2>6. g = [i \in 0 .. n |-> IF i = 0 THEN 0 ELSE g[i - 1] + s[i]]
      BY <2>4, <2>5
    <2> QED
      BY <2>6
  <1>2. PrefixSums(s, f)
    BY <1>1 DEF PrefixSums
  <1>3. SumOf(s) = f[Len(s)]
    BY DEF SumOf
  <1> HIDE DEF f
  <1> QED
    BY <1>2, <1>3

LEMMA PrefixFacts ==
    ASSUME NEW s \in Seq(Int), NEW f, PrefixSums(s, f)
    PROVE  /\ f[0] = 0
           /\ \A i \in 1 .. Len(s) : f[i] = f[i - 1] + s[i]
           /\ \A i \in 0 .. Len(s) : f[i] \in Int
  <1> DEFINE Def == [i \in 0 .. Len(s) |-> IF i = 0 THEN 0 ELSE f[i - 1] + s[i]]
  <1>1. f = Def
    BY DEF PrefixSums
  <1>2. Def[0] = 0 /\ \A i \in 1 .. Len(s) : Def[i] = f[i - 1] + s[i]
    OBVIOUS
  <1>3. f[0] = 0 /\ \A i \in 1 .. Len(s) : f[i] = f[i - 1] + s[i]
    <2> HIDE DEF Def
    <2> QED
      BY <1>1, <1>2
  <1> DEFINE Q == {i \in Nat : i <= Len(s) => f[i] \in Int}
  <1>4. 0 \in Q
    BY <1>3
  <1>5. ASSUME NEW i \in Q \intersect Nat PROVE i + 1 \in Q
    <2>1. CASE i + 1 <= Len(s)
      <3>1. i + 1 \in 1 .. Len(s) /\ f[i] \in Int
        BY <2>1
      <3>2. f[i + 1] = f[(i + 1) - 1] + s[i + 1]
        BY <1>3, <3>1
      <3>3. s[i + 1] \in Int /\ (i + 1) - 1 = i
        BY <3>1
      <3> QED
        BY <3>1, <3>2, <3>3
    <2> QED
      BY <2>1
  <1>6. Nat \subseteq Q
    <2> HIDE DEF Q
    <2> QED
      BY <1>4, <1>5, NatSetInduction
  <1> QED
    BY <1>3, <1>6

(* The sum of a sequence is a number, that of two is the sum of theirs.    *)
LEMMA SumType == \A s \in Seq(Int) : SumOf(s) \in Int
  <1>1. ASSUME NEW s \in Seq(Int) PROVE SumOf(s) \in Int
    <2>1. PICK f : PrefixSums(s, f) /\ SumOf(s) = f[Len(s)]
      BY SumIs
    <2> QED
      BY <2>1, PrefixFacts
  <1> QED
    BY <1>1

LEMMA SumEmpty == SumOf(<<>>) = 0
  <1>1. PICK s \in Seq(Int) : s = <<>> /\ Len(s) = 0
    <2>1. <<>> \in Seq(Int)
      OBVIOUS
    <2> QED
      BY <2>1
  <1>2. PICK f : PrefixSums(s, f) /\ SumOf(s) = f[Len(s)]
    BY SumIs
  <1>3. f[0] = 0
    BY <1>2, PrefixFacts
  <1> QED
    BY <1>1, <1>2, <1>3

LEMMA SumConcat ==
    ASSUME NEW s \in Seq(Int), NEW t \in Seq(Int)
    PROVE  SumOf(s \o t) = SumOf(s) + SumOf(t)
  <1>1. PICK n \in Nat, k \in Nat : n = Len(s) /\ k = Len(t)
    OBVIOUS
  <1>2. PICK u \in Seq(Int) : u = s \o t
    <2>1. s \o t \in Seq(Int)
      BY ConcatProperties
    <2> QED
      BY <2>1
  <1>3. /\ Len(u) = n + k /\ \A i \in 1 .. n : u[i] = s[i]
        /\ \A i \in 1 .. k : u[n + i] = t[i]
    BY <1>1, <1>2, ConcatProperties
  <1>4. PICK f : PrefixSums(s, f) /\ SumOf(s) = f[n]
    BY <1>1, SumIs
  <1>5. PICK g : PrefixSums(t, g) /\ SumOf(t) = g[k]
    BY <1>1, SumIs
  <1>6. PICK h : PrefixSums(u, h) /\ SumOf(u) = h[n + k]
    BY <1>3, SumIs
  <1>7. /\ f[0] = 0 /\ \A i \in 1 .. n : f[i] = f[i - 1] + s[i]
        /\ \A i \in 0 .. n : f[i] \in Int
    BY <1>1, <1>4, PrefixFacts
  <1>8. /\ g[0] = 0 /\ \A i \in 1 .. k : g[i] = g[i - 1] + t[i]
        /\ \A i \in 0 .. k : g[i] \in Int
    BY <1>1, <1>5, PrefixFacts
  <1>9. /\ h[0] = 0 /\ \A i \in 1 .. n + k : h[i] = h[i - 1] + u[i]
    <2>1. /\ h[0] = 0 /\ \A i \in 1 .. Len(u) : h[i] = h[i - 1] + u[i]
      BY <1>6, PrefixFacts
    <2> QED
      BY <1>3, <2>1
  <1> DEFINE Q == {i \in Nat : i <= n => h[i] = f[i]}
             R == {i \in Nat : i <= k => h[n + i] = f[n] + g[i]}
  <1>10. Nat \subseteq Q
    <2>1. 0 \in Q
      BY <1>7, <1>9
    <2>2. ASSUME NEW i \in Q \intersect Nat PROVE i + 1 \in Q
      <3>1. CASE i + 1 <= n
        <4>1. i + 1 \in 1 .. n /\ i + 1 \in 1 .. n + k /\ h[i] = f[i] /\ (i + 1) - 1 = i
          BY <3>1
        <4> QED
          BY <1>3, <1>7, <1>9, <4>1
      <3> QED
        BY <3>1
    <2> HIDE DEF Q
    <2> QED
      BY <2>1, <2>2, NatSetInduction
  <1>11. h[n] = f[n]
    <2>1. n \in Q
      <3> HIDE DEF Q
      <3> QED
        BY <1>10
    <2> QED
      BY <2>1
  <1>12. Nat \subseteq R
    <2>1. 0 \in R
      BY <1>7, <1>8, <1>11
    <2>2. ASSUME NEW i \in R \intersect Nat PROVE i + 1 \in R
      <3>1. CASE i + 1 <= k
        <4>1. /\ i + 1 \in 1 .. k /\ n + (i + 1) \in 1 .. n + k /\ (i + 1) - 1 = i
              /\ (n + (i + 1)) - 1 = n + i /\ i \in 0 .. k /\ n \in 0 .. n
          BY <3>1
        <4>2. h[n + i] = f[n] + g[i]
          BY <3>1
        <4>3. h[n + (i + 1)] = h[n + i] + u[n + (i + 1)]
          BY <1>9, <4>1
        <4>4. g[i + 1] = g[i] + t[i + 1]
          BY <1>8, <4>1
        <4>5. u[n + (i + 1)] = t[i + 1]
          BY <1>3, <4>1
        <4>6. t[i + 1] \in Int /\ g[i] \in Int /\ f[n] \in Int
          BY <1>1, <1>7, <1>8, <4>1
        <4>7. h[n + (i + 1)] = f[n] + g[i + 1]
          BY <4>2, <4>3, <4>4, <4>5, <4>6
        <4> QED
          BY <4>7
      <3> QED
        BY <3>1
    <2> HIDE DEF R
    <2> QED
      BY <2>1, <2>2, NatSetInduction
  <1>13. h[n + k] = f[n] + g[k]
    BY <1>12
  <1> QED
    BY <1>2, <1>4, <1>5, <1>6, <1>13

LEMMA SumOne == \A x \in Int : SumOf(<<x>>) = x
  <1>1. ASSUME NEW x \in Int PROVE SumOf(<<x>>) = x
    <2>1. PICK s \in Seq(Int) : s = <<x>> /\ Len(s) = 1 /\ s[1] = x
      <3>1. <<x>> \in Seq(Int)
        OBVIOUS
      <3> QED
        BY <3>1
    <2>2. PICK f : PrefixSums(s, f) /\ SumOf(s) = f[Len(s)]
      BY SumIs
    <2>3. f[0] = 0 /\ f[1] = f[0] + x
      <3>1. f[0] = 0 /\ \A i \in 1 .. Len(s) : f[i] = f[i - 1] + s[i]
        BY <2>2, PrefixFacts
      <3> QED
        BY <2>1, <3>1
    <2> QED
      BY <2>1, <2>2, <2>3
  <1> QED
    BY <1>1

(* The values of samples, and of intervals, add up.                        *)
Valued(V) == \A v \in V : v.value \in Int

LEMMA ValuesIs ==
    ASSUME NEW V, Valued(V), NEW s \in Seq(V)
    PROVE  \E v \in Seq(Int) : /\ Values(s) = SumOf(v) /\ Len(v) = Len(s)
                              /\ \A i \in 1 .. Len(s) : v[i] = s[i].value
  <1> DEFINE v == [i \in DOMAIN s |-> s[i].value]
  <1>1. PICK n \in Nat : n = Len(s) /\ DOMAIN s = 1 .. n /\ \A i \in 1 .. n : s[i] \in V
    OBVIOUS
  <1>2. v \in [1 .. n -> Int]
    BY <1>1 DEF Valued
  <1>3. Values(s) = SumOf(v) /\ \A i \in 1 .. n : v[i] = s[i].value
    BY <1>1 DEF Values
  <1> HIDE DEF v
  <1>4. v \in Seq(Int) /\ Len(v) = n
    BY <1>2
  <1> QED
    BY <1>1, <1>3, <1>4

LEMMA ValuesType ==
    ASSUME NEW V, Valued(V), NEW s \in Seq(V)
    PROVE  Values(s) \in Int
  BY ValuesIs, SumType

LEMMA ValuesAdd ==
    ASSUME NEW V, Valued(V), NEW s \in Seq(V), NEW t \in Seq(V)
    PROVE  Values(s \o t) = Values(s) + Values(t)
  <1>1. PICK v \in Seq(Int) : /\ Values(s) = SumOf(v) /\ Len(v) = Len(s)
                             /\ \A i \in 1 .. Len(s) : v[i] = s[i].value
    BY ValuesIs
  <1>2. PICK w \in Seq(Int) : /\ Values(t) = SumOf(w) /\ Len(w) = Len(t)
                             /\ \A i \in 1 .. Len(t) : w[i] = t[i].value
    BY ValuesIs
  <1>3. PICK u \in Seq(V) : u = s \o t
    <2>1. s \o t \in Seq(V)
      BY ConcatProperties
    <2> QED
      BY <2>1
  <1>4. /\ Len(u) = Len(s) + Len(t)
        /\ \A i \in 1 .. Len(s) + Len(t) : u[i] = IF i <= Len(s) THEN s[i] ELSE t[i - Len(s)]
    BY <1>3, ConcatProperties
  <1>5. PICK x \in Seq(Int) : /\ Values(u) = SumOf(x) /\ Len(x) = Len(u)
                             /\ \A i \in 1 .. Len(u) : x[i] = u[i].value
    BY ValuesIs
  <1>6. PICK y \in Seq(Int) : y = v \o w
    <2>1. v \o w \in Seq(Int)
      BY ConcatProperties
    <2> QED
      BY <2>1
  <1>7. /\ Len(y) = Len(v) + Len(w)
        /\ \A i \in 1 .. Len(v) + Len(w) : y[i] = IF i <= Len(v) THEN v[i] ELSE w[i - Len(v)]
    BY <1>6, ConcatProperties
  <1>8. x = y
    <2>1. Len(s) \in Nat /\ Len(t) \in Nat
      OBVIOUS
    <2>2. ASSUME NEW i \in 1 .. Len(x) PROVE x[i] = y[i]
      <3>1. i \in 1 .. Len(s) + Len(t)
        BY <1>4, <1>5
      <3>2. CASE i <= Len(s)
        <4>1. i \in 1 .. Len(s)
          BY <2>1, <3>1, <3>2
        <4>2. x[i] = s[i].value
          BY <1>4, <1>5, <3>1, <3>2
        <4> QED
          BY <1>1, <1>2, <1>7, <3>1, <3>2, <4>1, <4>2
      <3>3. CASE ~(i <= Len(s))
        <4>1. i - Len(s) \in 1 .. Len(t)
          BY <2>1, <3>1, <3>3
        <4>2. x[i] = t[i - Len(s)].value
          BY <1>4, <1>5, <3>1, <3>3
        <4> QED
          BY <1>1, <1>2, <1>7, <3>1, <3>3, <4>1, <4>2
      <3> QED
        BY <3>2, <3>3
    <2>3. Len(x) = Len(y)
      BY <1>1, <1>2, <1>4, <1>5, <1>7
    <2> QED
      BY <2>2, <2>3, SeqEqual
  <1>9. SumOf(v \o w) = SumOf(v) + SumOf(w)
    BY SumConcat
  <1> QED
    BY <1>1, <1>2, <1>3, <1>5, <1>6, <1>8, <1>9

LEMMA ValuesEmpty == Values(<<>>) = 0
  <1>1. [i \in DOMAIN <<>> |-> <<>>[i].value] = <<>>
    OBVIOUS
  <1> QED
    BY <1>1, SumEmpty DEF Values

LEMMA ValuesOne ==
    ASSUME NEW V, Valued(V), NEW v \in V
    PROVE  Values(<<v>>) = v.value
  <1>1. PICK s \in Seq(V) : s = <<v>>
    <2>1. <<v>> \in Seq(V)
      OBVIOUS
    <2> QED
      BY <2>1
  <1>2. Len(s) = 1 /\ s[1] = v
    BY <1>1
  <1>3. PICK x \in Seq(Int) : /\ Values(s) = SumOf(x) /\ Len(x) = Len(s)
                             /\ \A i \in 1 .. Len(s) : x[i] = s[i].value
    BY ValuesIs
  <1>4. x = <<v.value>>
    <2>1. PICK y \in Seq(Int) : y = <<v.value>>
      <3>1. v.value \in Int
        BY DEF Valued
      <3>2. <<v.value>> \in Seq(Int)
        BY <3>1
      <3> QED
        BY <3>2
    <2>2. Len(y) = 1 /\ y[1] = v.value
      BY <2>1
    <2>3. x = y
      <3>1. \A i \in 1 .. Len(x) : x[i] = y[i]
        BY <1>2, <1>3, <2>2
      <3> QED
        BY <1>2, <1>3, <2>2, <3>1, SeqEqual
    <2> QED
      BY <2>1, <2>3
  <1> QED
    BY <1>1, <1>3, <1>4, SumOne DEF Valued

LEMMA ValuesAppend ==
    ASSUME NEW V, Valued(V), NEW s \in Seq(V), NEW v \in V
    PROVE  Values(Append(s, v)) = Values(s) + v.value
  <1>1. Append(s, v) = s \o <<v>> /\ <<v>> \in Seq(V)
    OBVIOUS
  <1> QED
    BY <1>1, ValuesAdd, ValuesOne

-----------------------------------------------------------------------------
(* The aggregator (aggregateSample.C).                                     *)

LEMMA AreValued == Valued(SampleType) /\ Valued(IntvlType)
  BY DEF Valued, SampleType, IntvlType

LEMMA AscendingAppend ==
    ASSUME NEW q \in Seq(SampleType), NEW t \in Int, Ascending(q, t),
           NEW s \in SampleType, UpTo(q, t) < s.time
    PROVE  /\ Append(q, s) \in Seq(SampleType) /\ Append(q, s) # <<>>
           /\ Ascending(Append(q, s), t) /\ UpTo(Append(q, s), t) = s.time
  <1>1. PICK n \in Nat : n = Len(q)
    OBVIOUS
  <1>2. PICK r \in Seq(SampleType) : r = Append(q, s)
    <2>1. Append(q, s) \in Seq(SampleType)
      BY AppendProperties
    <2> QED
      BY <2>1
  <1>3. /\ r # <<>> /\ Len(r) = n + 1 /\ r[n + 1] = s /\ \A i \in 1 .. n : r[i] = q[i]
    BY <1>1, <1>2, AppendProperties
  <1>4. ASSUME NEW j \in 1 .. Len(r)
        PROVE  (IF j = 1 THEN t ELSE r[j - 1].time) < r[j].time
    <2>1. CASE j <= n
      <3>1. j \in 1 .. n /\ (j = 1 \/ j - 1 \in 1 .. n)
        BY <2>1
      <3> QED
        BY <1>1, <1>3, <3>1 DEF Ascending
    <2>2. CASE j > n
      <3>1. j = n + 1
        BY <1>3, <2>2
      <3>2. CASE n = 0
        <4>1. q = <<>>
          BY <1>1, <3>2, EmptySeq
        <4> QED
          BY <1>3, <3>1, <3>2, <4>1 DEF UpTo
      <3>3. CASE n # 0
        <4>1. q # <<>> /\ n \in 1 .. n /\ j # 1 /\ j - 1 = n
          BY <1>1, <3>1, <3>3
        <4> QED
          BY <1>1, <1>3, <3>1, <4>1 DEF UpTo
      <3> QED
        BY <3>2, <3>3
    <2> QED
      BY <1>3, <2>1, <2>2
  <1> QED
    BY <1>2, <1>3, <1>4 DEF Ascending, UpTo

LEMMA UpToIsLater ==
    ASSUME NEW q \in Seq(SampleType), NEW t \in Int, Ascending(q, t)
    PROVE  UpTo(q, t) \in Int /\ t <= UpTo(q, t)
  <1>1. PICK n \in Nat : n = Len(q)
    OBVIOUS
  <1>2. \A i \in 1 .. n : q[i].time \in Nat
    <2>1. \A i \in 1 .. n : q[i] \in SampleType
      BY <1>1
    <2> QED
      BY <2>1 DEF SampleType
  <1> DEFINE Q == {i \in Nat : i + 1 <= n => t < q[i + 1].time}
  <1>3. Nat \subseteq Q
    <2>1. 0 \in Q
      BY <1>1 DEF Ascending
    <2>2. ASSUME NEW i \in Q \intersect Nat PROVE i + 1 \in Q
      <3>1. CASE (i + 1) + 1 <= n
        <4>1. /\ (i + 1) + 1 \in 1 .. n /\ (i + 1) + 1 # 1 /\ ((i + 1) + 1) - 1 = i + 1
              /\ i + 1 \in 1 .. n /\ t < q[i + 1].time
          BY <3>1
        <4>2. q[i + 1].time < q[(i + 1) + 1].time
          BY <1>1, <4>1 DEF Ascending
        <4> QED
          BY <1>2, <4>1, <4>2
      <3> QED
        BY <3>1
    <2> HIDE DEF Q
    <2> QED
      BY <2>1, <2>2, NatSetInduction
  <1>4. CASE q = <<>>
    BY <1>4 DEF UpTo
  <1>5. CASE q # <<>>
    <2>1. n - 1 \in Nat /\ (n - 1) + 1 = n /\ n \in 1 .. n
      BY <1>1, <1>5
    <2>2. t < q[(n - 1) + 1].time
      BY <1>3, <2>1
    <2> QED
      BY <1>1, <1>2, <1>5, <2>1, <2>2 DEF UpTo
  <1> QED
    BY <1>4, <1>5

-----------------------------------------------------------------------------
(* One sample.                                                             *)
LEMMA DivideExact ==
    ASSUME NEW v \in Int, NEW k \in Nat \ {0}
    PROVE  (v * k) \div k = v
  OBVIOUS

(* What is left for an aggregator to do and what a component was given is  *)
(* not changed by processing what is queued.                               *)
SameComp(c, d) ==
    /\ Given(d) = Given(c) /\ GivenUpTo(d) = GivenUpTo(c)
    /\ d.bIsFinished = c.bIsFinished /\ d.actualSet = c.actualSet
    /\ d.last = NotSet <=> c.last = NotSet

(* A component while its queue is gone through: complete, or none is left. *)
Underway(a, c, d) ==
    /\ d \in CompType /\ d.last # NotSet /\ a.curIntvlStart <= d.last
    /\ d.bIsFinished = c.bIsFinished /\ d.actualSet = c.actualSet
    /\ d.curActualVal = c.curActualVal
    /\ Ascending(d.futureSamples, d.last)
    /\ d.last < curIntvlEnd(a) => d.futureSamples = <<>>

LEMMA ProcessOne ==
    ASSUME NEW a \in AggType, a.curIntvlStart # NotSet,
           NEW c \in CompType, NEW d, Underway(a, c, d), d.last < curIntvlEnd(a),
           NEW s \in SampleType, GivenUpTo(d) < s.time
    PROVE  LET b == processSamplePt(a, d, s)
           IN  Underway(a, c, b) /\ GivenUpTo(b) = s.time /\ Given(b) = Given(d) + s.value
  <1> DEFINE end == curIntvlEnd(a)
             right == Earlier(s.time, end)
             left == Later(d.last, a.curIntvlStart)
             now == (s.value * (right - left)) \div (s.time - d.last)
             rest == [s EXCEPT !.value = @ - now]
             b == processSamplePt(a, d, s)
  <1>1. /\ end \in Nat /\ a.curIntvlStart \in Nat /\ d \in CompType
        /\ d.last \in Nat /\ a.curIntvlStart <= d.last /\ d.last < end
        /\ s.time \in Nat /\ s.value \in Int
        /\ d.futureSamples = <<>> /\ d.curIntvlVal \in Int /\ d.curActualVal \in Int
    BY DEF Underway, AggType, CompType, SampleType, curIntvlEnd, NotSet
  <1>2. d.last < s.time
    BY <1>1 DEF GivenUpTo
  <1> HIDE DEF end
  <1>3. left = d.last /\ right \in Nat /\ right <= end /\ right > d.last /\ right <= s.time
    BY <1>1, <1>2 DEF Earlier, Later
  <1>4. now \in Int
    <2>1. s.time - d.last \in Nat \ {0} /\ s.value * (right - left) \in Int
      BY <1>1, <1>2, <1>3
    <2> HIDE DEF left, right
    <2> QED
      BY <2>1
  <1>5. s.time <= end => now = s.value
    <2> SUFFICES ASSUME s.time <= end PROVE now = s.value
      OBVIOUS
    <2>1. right = s.time
      BY <1>1 DEF Earlier
    <2>2. s.time - d.last \in Nat \ {0}
      BY <1>1, <1>2
    <2> HIDE DEF left, right
    <2> QED
      BY <1>1, <1>3, <2>1, <2>2, DivideExact
  <1>6. b = [d EXCEPT !.curIntvlVal = @ + now, !.last = right,
                      !.futureSamples = IF s.time > end THEN Append(@, rest) ELSE @]
    BY DEF processSamplePt, end
  <1>7. rest \in SampleType /\ rest.time = s.time /\ rest.value = s.value - now
    <2> HIDE DEF now
    <2> QED
      BY <1>4 DEF SampleType
  <1> HIDE DEF now, left, right, rest
  <1>8. /\ b.curIntvlVal = d.curIntvlVal + now /\ b.last = right
        /\ b.futureSamples = IF s.time > end THEN <<rest>> ELSE <<>>
        /\ b.curActualVal = d.curActualVal
        /\ b.bIsFinished = d.bIsFinished /\ b.actualSet = d.actualSet
    BY <1>1, <1>6 DEF CompType
  <1>9. b \in CompType
    <2>1. (IF s.time > end THEN Append(d.futureSamples, rest) ELSE d.futureSamples)
             \in Seq(SampleType)
      BY <1>1, <1>7
    <2>2. d.curIntvlVal + now \in Int /\ right \in Nat \union {NotSet}
      BY <1>1, <1>3, <1>4
    <2> QED
      BY <1>1, <1>6, <2>1, <2>2 DEF CompType
  <1> HIDE DEF b
  <1>10. CASE s.time > end
    <2>1. right = end
      BY <1>1, <1>10 DEF Earlier, right
    <2>2. b.futureSamples = <<rest>> /\ Len(<<rest>>) = 1 /\ <<rest>>[1] = rest /\ <<rest>> # <<>>
      BY <1>8, <1>10
    <2>3. Values(<<rest>>) = s.value - now
      BY <1>7, AreValued, ValuesOne
    <2>4. Ascending(b.futureSamples, b.last)
      BY <1>1, <1>7, <1>8, <1>10, <2>1, <2>2 DEF Ascending
    <2>5. GivenUpTo(b) = s.time
      BY <1>7, <2>2 DEF GivenUpTo
    <2>6. Given(b) = Given(d) + s.value
      <3>1. Given(b) = (d.curActualVal + (d.curIntvlVal + now)) + (s.value - now)
        BY <1>8, <2>2, <2>3 DEF Given, ActualVal
      <3>2. Given(d) = (d.curActualVal + d.curIntvlVal) + 0
        BY <1>1, ValuesEmpty DEF Given, ActualVal
      <3> QED
        BY <1>1, <1>4, <3>1, <3>2
    <2>7. Underway(a, c, b)
      BY <1>1, <1>3, <1>8, <1>9, <2>1, <2>4 DEF Underway, end, NotSet
    <2> QED
      BY <2>5, <2>6, <2>7 DEF b
  <1>11. CASE ~(s.time > end)
    <2>1. right = s.time
      BY <1>1, <1>11 DEF Earlier, right
    <2>2. b.futureSamples = <<>> /\ Len(<<>>) = 0
      BY <1>8, <1>11
    <2>3. now = s.value
      BY <1>1, <1>5, <1>11
    <2>4. Ascending(b.futureSamples, b.last)
      BY <2>2 DEF Ascending
    <2>5. GivenUpTo(b) = s.time
      BY <1>8, <2>1, <2>2 DEF GivenUpTo
    <2>6. Given(b) = Given(d) + s.value
      <3>1. Given(b) = (d.curActualVal + (d.curIntvlVal + now)) + 0
        BY <1>8, <2>2, ValuesEmpty DEF Given, ActualVal
      <3>2. Given(d) = (d.curActualVal + d.curIntvlVal) + 0
        BY <1>1, ValuesEmpty DEF Given, ActualVal
      <3> QED
        BY <1>1, <2>3, <3>1, <3>2
    <2>7. Underway(a, c, b)
      <3>1. b.futureSamples = <<>> /\ b.last # NotSet /\ a.curIntvlStart <= b.last
        <4>1. b.last = right
          BY <1>8
        <4>2. right # NotSet /\ a.curIntvlStart <= right
          BY <1>1, <1>3 DEF NotSet
        <4> QED
          BY <2>2, <4>1, <4>2
      <3>2. /\ b.bIsFinished = c.bIsFinished /\ b.actualSet = c.actualSet
            /\ b.curActualVal = c.curActualVal
        BY <1>8 DEF Underway
      <3> QED
        BY <1>9, <2>4, <3>1, <3>2 DEF Underway
    <2> QED
      BY <2>5, <2>6, <2>7 DEF b
  <1> QED
    BY <1>10, <1>11

(* The queue, sample after sample.                                         *)
Step(a, d, s) ==
    IF d.last >= curIntvlEnd(a) THEN [d EXCEPT !.futureSamples = Append(@, s)]
    ELSE processSamplePt(a, d, s)

LEMMA StepOne ==
    ASSUME NEW a \in AggType, a.curIntvlStart # NotSet,
           NEW c \in CompType, NEW d, Underway(a, c, d),
           NEW s \in SampleType, GivenUpTo(d) < s.time
    PROVE  LET b == Step(a, d, s)
           IN  Underway(a, c, b) /\ GivenUpTo(b) = s.time /\ Given(b) = Given(d) + s.value
  <1>1. CASE d.last < curIntvlEnd(a)
    <2>1. ~(d.last >= curIntvlEnd(a))
      BY <1>1 DEF curIntvlEnd, AggType, Underway, CompType, NotSet
    <2> QED
      BY <1>1, <2>1, ProcessOne DEF Step
  <1>2. CASE ~(d.last < curIntvlEnd(a))
    <2> DEFINE b == Step(a, d, s)
    <2>1. /\ d \in CompType /\ d.last \in Int /\ curIntvlEnd(a) \in Int
          /\ d.futureSamples \in Seq(SampleType) /\ d.curActualVal + d.curIntvlVal \in Int
          /\ Ascending(d.futureSamples, d.last) /\ s.value \in Int
      <3>1. d \in CompType /\ d.last # NotSet /\ Ascending(d.futureSamples, d.last)
        BY DEF Underway
      <3>2. /\ d.last \in Int /\ d.futureSamples \in Seq(SampleType)
            /\ d.curActualVal + d.curIntvlVal \in Int
        BY <3>1 DEF CompType, NotSet
      <3>3. curIntvlEnd(a) \in Int
        BY DEF AggType, curIntvlEnd, NotSet
      <3>4. s.value \in Int
        BY DEF SampleType
      <3> QED
        BY <3>1, <3>2, <3>3, <3>4
    <2>2. b = [d EXCEPT !.futureSamples = Append(@, s)]
      BY <1>2, <2>1 DEF Step
    <2>3. UpTo(d.futureSamples, d.last) < s.time
      BY DEF UpTo, GivenUpTo
    <2>4. PICK q : q = Append(d.futureSamples, s)
      OBVIOUS
    <2>5. /\ q \in Seq(SampleType) /\ q # <<>>
          /\ Ascending(q, d.last) /\ UpTo(q, d.last) = s.time
      BY <2>1, <2>3, <2>4, AscendingAppend
    <2>6. Values(q) = Values(d.futureSamples) + s.value /\ Values(d.futureSamples) \in Int
      BY <2>1, <2>4, AreValued, ValuesAppend, ValuesType
    <2>7. b = [d EXCEPT !.futureSamples = q]
      BY <2>1, <2>2, <2>4
    <2>8. /\ b \in CompType /\ b.futureSamples = q /\ b.last = d.last
          /\ b.bIsFinished = d.bIsFinished /\ b.actualSet = d.actualSet
          /\ b.curActualVal = d.curActualVal /\ b.curIntvlVal = d.curIntvlVal
      BY <2>1, <2>5, <2>7 DEF CompType
    <2> HIDE DEF b
    <2>9. Underway(a, c, b)
      BY <1>2, <2>5, <2>8 DEF Underway
    <2>10. GivenUpTo(b) = s.time
      BY <2>5, <2>8 DEF GivenUpTo, UpTo
    <2>11. Given(b) = Given(d) + s.value
      BY <2>1, <2>6, <2>8 DEF Given, ActualVal
    <2> QED
      BY <2>9, <2>10, <2>11 DEF b
  <1> QED
    BY <1>1, <1>2

LEMMA UpdateFull ==
    ASSUME NEW a \in AggType, a.curIntvlStart # NotSet,
           NEW c \in CompType, c.last # NotSet, a.curIntvlStart <= c.last,
           Ascending(c.futureSamples, c.last)
    PROVE  LET b == updateCurIntvlWithQueuedSamples(a, c)
           IN  Underway(a, c, b) /\ SameComp(c, b)
  <1>1. PICK q \in Seq(SampleType) : q = c.futureSamples
    BY DEF CompType
  <1>2. PICK n \in Nat : n = Len(q)
    OBVIOUS
  <1>3. PICK x : x = [c EXCEPT !.futureSamples = <<>>]
    OBVIOUS
  <1>4. /\ x \in CompType /\ x.futureSamples = <<>> /\ x.last = c.last
        /\ x.bIsFinished = c.bIsFinished /\ x.actualSet = c.actualSet
        /\ x.curActualVal = c.curActualVal /\ x.curIntvlVal = c.curIntvlVal
        /\ ActualVal(c) \in Int
    <2>1. <<>> \in Seq(SampleType)
      OBVIOUS
    <2>2. PICK e \in Seq(SampleType) : e = <<>>
      BY <2>1
    <2>3. x = [c EXCEPT !.futureSamples = e]
      BY <1>3, <2>2
    <2>4. x \in CompType
      BY <2>3 DEF CompType
    <2>5. ActualVal(c) \in Int
      BY DEF CompType, ActualVal
    <2>6. /\ x.futureSamples = e /\ x.last = c.last
          /\ x.bIsFinished = c.bIsFinished /\ x.actualSet = c.actualSet
          /\ x.curActualVal = c.curActualVal /\ x.curIntvlVal = c.curIntvlVal
      BY <2>3 DEF CompType
    <2> QED
      BY <2>2, <2>4, <2>5, <2>6
  <1>5. \A i \in 1 .. n : q[i] \in SampleType
    BY <1>2
  <1> DEFINE upTo(i) == IF i = 0 THEN c.last ELSE q[i].time
             given(i) == ActualVal(c) + Values(SubSeq(q, 1, i))
             S == [i \in 0 .. n |-> {d \in CompType :
                      Underway(a, c, d) /\ GivenUpTo(d) = upTo(i) /\ Given(d) = given(i)}]
             step == [i \in 1 .. n |-> [d \in CompType |-> Step(a, d, q[i])]]
             Def(g) == [i \in 0 .. n |-> IF i = 0 THEN x ELSE Step(a, g[i - 1], q[i])]
             f == CHOOSE g : g = Def(g)
  <1>6. x \in S[0]
    <2>1. Underway(a, c, x)
      BY <1>4 DEF Underway, Ascending
    <2>2. GivenUpTo(x) = upTo(0)
      BY <1>4 DEF GivenUpTo
    <2>3. Given(x) = given(0)
      <3>1. SubSeq(q, 1, 0) = <<>>
        BY SubSeqEmpty
      <3> QED
        BY <1>4, <3>1 DEF Given, ActualVal
    <2> HIDE DEF upTo, given
    <2> QED
      BY <1>2, <1>4, <2>1, <2>2, <2>3
  <1>7. ASSUME NEW i \in 1 .. n, NEW d \in S[i - 1]
        PROVE  Step(a, d, q[i]) \in S[i]
    <2>1. i - 1 \in 0 .. n /\ i \in 0 .. n /\ q[i] \in SampleType
      BY <1>5
    <2>2. Underway(a, c, d) /\ GivenUpTo(d) = upTo(i - 1) /\ Given(d) = given(i - 1)
      <3> HIDE DEF upTo, given
      <3> QED
        BY <2>1
    <2>3. upTo(i - 1) < q[i].time
      BY <1>1, <1>2 DEF Ascending
    <2>4. given(i) = given(i - 1) + q[i].value
      <3>1. SubSeq(q, 1, i) = SubSeq(q, 1, i - 1) \o <<q[i]>>
        <4>1. 1 \in 1 .. Len(q) /\ i \in 1 .. Len(q)
          BY <1>2
        <4> QED
          BY <4>1, SubSeqRecursiveSecond
      <3>2. SubSeq(q, 1, i - 1) \in Seq(SampleType)
        BY <1>5, SubSeqProperties
      <3>3. PICK r \in Seq(SampleType) : r = SubSeq(q, 1, i - 1)
        BY <3>2
      <3>4. <<q[i]>> \in Seq(SampleType)
        BY <2>1
      <3>5. Values(SubSeq(q, 1, i)) = Values(r) + q[i].value /\ Values(r) \in Int
        BY <2>1, <3>1, <3>3, <3>4, AreValued, ValuesAdd, ValuesOne, ValuesType
      <3>6. q[i].value \in Int
        BY <2>1 DEF SampleType
      <3> QED
        BY <1>4, <3>3, <3>5, <3>6
    <2> HIDE DEF upTo, given
    <2>5. /\ Underway(a, c, Step(a, d, q[i])) /\ GivenUpTo(Step(a, d, q[i])) = q[i].time
          /\ Given(Step(a, d, q[i])) = Given(d) + q[i].value
      BY <2>1, <2>2, <2>3, StepOne
    <2>6. upTo(i) = q[i].time
      BY DEF upTo
    <2> QED
      BY <2>1, <2>2, <2>4, <2>5, <2>6 DEF Underway
  <1>8. f = Def(f)
    <2>1. S \in [0 .. n -> SUBSET CompType] /\ n \in Nat
      OBVIOUS
    <2>2. \A i \in 1 .. n : \A d \in S[i - 1] : d \in CompType /\ i - 1 \in 0 .. n
      OBVIOUS
    <2>3. \A i \in 1 .. n : \A d \in CompType : step[i][d] = Step(a, d, q[i])
      OBVIOUS
    <2> HIDE DEF S, step
    <2>4. StepKeeps(n, S, step)
      BY <1>7, <2>2, <2>3 DEF StepKeeps
    <2>5. PICK g \in [0 .. n -> CompType] : IsLoop(n, S, x, step, g)
      BY <1>6, <2>1, <2>4, LoopExists
    <2>6. \A i \in 0 .. n : g[i] = IF i = 0 THEN x ELSE Step(a, g[i - 1], q[i])
      <3>1. \A i \in 0 .. n : i # 0 => i \in 1 .. n /\ i - 1 \in 0 .. n
        OBVIOUS
      <3> QED
        BY <2>3, <2>5, <3>1 DEF IsLoop
    <2>7. g = Def(g)
      BY <2>5, <2>6
    <2> HIDE DEF Def
    <2> QED
      BY <2>7
  <1>9. updateCurIntvlWithQueuedSamples(a, c) = f[n]
    BY <1>1, <1>2, <1>3 DEF updateCurIntvlWithQueuedSamples, Step
  <1>10. f[0] = x /\ \A i \in 1 .. n : f[i] = Step(a, f[i - 1], q[i])
    <2>1. Def(f)[0] = x /\ \A i \in 1 .. n : Def(f)[i] = Step(a, f[i - 1], q[i])
      OBVIOUS
    <2> HIDE DEF Def, f
    <2> QED
      BY <1>8, <2>1
  <1> HIDE DEF f, Def, step
  <1>11. f[n] \in S[n]
    <2>1. Keeps(n, S, f)
      <3> HIDE DEF S
      <3> QED
        BY <1>7, <1>10 DEF Keeps
    <2>2. f[0] \in S[0]
      BY <1>6, <1>10
    <2> HIDE DEF S
    <2> QED
      BY <2>1, <2>2, LoopKeeps
  <1>12. Underway(a, c, f[n]) /\ GivenUpTo(f[n]) = upTo(n) /\ Given(f[n]) = given(n)
    <2> HIDE DEF upTo, given
    <2> QED
      BY <1>11
  <1>13. given(n) = Given(c)
    BY <1>1, <1>2, SubSeqFull DEF Given
  <1>14. upTo(n) = GivenUpTo(c)
    BY <1>1, <1>2, EmptySeq DEF GivenUpTo
  <1> QED
    BY <1>9, <1>12, <1>13, <1>14 DEF SameComp, Underway

(* The intervals out come from an aggregator that was a and is b: without  *)
(* a gap they take it from its first start to the new one, and their values*)
(* are by how much its actual value has grown.                             *)
Emits(a, b, out) ==
    /\ out \in Seq(IntvlType) /\ Contiguous(out)
    /\ Values(out) = b.lastActualVal - a.lastActualVal
    /\ b.width = a.width
    /\ a.curIntvlStart # NotSet => b.curIntvlStart # NotSet
    /\ out = <<>> => FirstStart(b) = FirstStart(a)
    /\ out # <<>> => out[1].start = FirstStart(a) /\ b.curIntvlStart = out[Len(out)].end

SameComps(a, b) ==
    /\ Len(b.comps) = Len(a.comps)
    /\ \A i \in 1 .. Len(a.comps) : SameComp(a.comps[i], b.comps[i])

Aggregated(a, b, out) ==
    AggOK(b) /\ Emits(a, b, out) /\ SameComps(a, b) /\ (Summed(a) => Summed(b))

LEMMA CompsOf ==
    ASSUME NEW a \in AggType
    PROVE  /\ a.comps \in Seq(CompType) /\ Len(a.comps) \in Nat
           /\ DOMAIN a.comps = 1 .. Len(a.comps)
           /\ \A i \in 1 .. Len(a.comps) : a.comps[i] \in CompType
  <1>1. a.comps \in Seq(CompType)
    BY DEF AggType
  <1> QED
    BY <1>1

LEMMA MinIs ==
    ASSUME NEW T \in SUBSET Nat, T # {}
    PROVE  Min(T) \in T /\ \A y \in T : Min(T) <= y
  <1>1. \E x \in T : \A y \in T : x <= y
    BY LeastOne
  <1> QED
    BY <1>1 DEF Min

LEMMA SetupIs ==
    ASSUME NEW a, AggOK(a), a.comps # <<>>, allCompsReadyToReceiveSamples(a)
    PROVE  LET s == setupIntvlTimes(a)
           IN  /\ AggOK(s) /\ s.curIntvlStart = FirstStart(a) /\ s.curIntvlStart # NotSet
               /\ s.comps = a.comps /\ s.width = a.width /\ s.lastActualVal = a.lastActualVal
  <1>1. a \in AggType /\ \A i \in 1 .. Len(a.comps) : CompOK(a.comps[i], a.curIntvlStart)
    BY CompsOf DEF AggOK
  <1>2. CASE a.curIntvlStart # NotSet
    BY <1>2 DEF setupIntvlTimes, FirstStart
  <1>3. CASE a.curIntvlStart = NotSet
    <2> DEFINE T == {a.comps[i].last : i \in DOMAIN a.comps}
               s == setupIntvlTimes(a)
    <2>1. \A i \in 1 .. Len(a.comps) : a.comps[i].last \in Nat
      BY <1>1, CompsOf DEF CompType, allCompsReadyToReceiveSamples, isReadyToReceiveSamples
    <2>2. T \in SUBSET Nat
      BY <1>1, <2>1, CompsOf
    <2>3. T # {}
      <3>1. Len(a.comps) # 0
        BY <1>1, CompsOf, EmptySeq
      <3>2. 1 \in DOMAIN a.comps
        BY <1>1, <3>1, CompsOf
      <3> QED
        BY <3>2
    <2>4. Min(T) \in Nat /\ \A y \in T : Min(T) <= y
      <3> HIDE DEF T
      <3> QED
        BY <2>2, <2>3, MinIs
    <2>5. \A i \in 1 .. Len(a.comps) : a.comps[i].last \in T
      BY <1>1, CompsOf
    <2>6. s = [a EXCEPT !.curIntvlStart = Min(T)] /\ FirstStart(a) = Min(T)
      BY <1>3 DEF setupIntvlTimes, FirstStart
    <2> HIDE DEF T
    <2>7. /\ s \in AggType /\ s.curIntvlStart = Min(T)
          /\ s.comps = a.comps /\ s.width = a.width /\ s.lastActualVal = a.lastActualVal
      BY <1>1, <2>4, <2>6 DEF AggType
    <2> HIDE DEF s
    <2>8. \A i \in 1 .. Len(s.comps) : CompOK(s.comps[i], s.curIntvlStart)
      BY <1>1, <2>4, <2>5, <2>7 DEF CompOK
    <2>9. AggOK(s)
      BY <2>7, <2>8, CompsOf DEF AggOK
    <2>10. s.curIntvlStart # NotSet
      BY <2>4, <2>7 DEF NotSet
    <2> QED
      BY <2>6, <2>7, <2>9, <2>10 DEF s
  <1> QED
    BY <1>2, <1>3

LEMMA UpdateIs ==
    ASSUME NEW a \in AggType, a.curIntvlStart # NotSet,
           NEW c \in CompType, c.last # NotSet, CompOK(c, a.curIntvlStart)
    PROVE  LET b == updateCurIntvlWithQueuedSamples(a, c)
           IN  /\ b \in CompType /\ CompOK(b, a.curIntvlStart) /\ SameComp(c, b)
               /\ b.last # NotSet /\ b.curActualVal = c.curActualVal
               /\ b.last < curIntvlEnd(a) => b.futureSamples = <<>>
  <1>1. CASE a.curIntvlStart <= c.last
    BY <1>1, UpdateFull DEF CompOK, Underway
  <1>2. CASE ~(a.curIntvlStart <= c.last)
    <2>1. c.bIsFinished /\ c.futureSamples = <<>>
      BY <1>2 DEF CompOK
    <2>2. [c EXCEPT !.futureSamples = <<>>] = c
      BY <2>1 DEF CompType
    <2>3. PICK q : q = c.futureSamples
      OBVIOUS
    <2>7. PICK n \in Nat : n = Len(q)
      <3>1. Len(q) = 0
        BY <2>1, <2>3
      <3> QED
        BY <3>1
    <2>8. PICK x : x = [c EXCEPT !.futureSamples = <<>>]
      OBVIOUS
    <2> DEFINE Def(g) == [i \in 0 .. n |-> IF i = 0 THEN x ELSE Step(a, g[i - 1], q[i])]
               f == CHOOSE g : g = Def(g)
    <2>4. updateCurIntvlWithQueuedSamples(a, c) = f[n]
      BY <2>3, <2>7, <2>8 DEF updateCurIntvlWithQueuedSamples, Step
    <2>5. f[n] = c
      <3>1. x = c /\ n = 0
        BY <2>1, <2>2, <2>3, <2>7, <2>8
      <3>2. \A g : Def(g) = [i \in 0 .. 0 |-> x]
        BY <3>1
      <3>3. f = Def(f)
        <4> HIDE DEF Def
        <4> QED
          BY <3>2
      <3>4. f = [i \in 0 .. 0 |-> x]
        <4> HIDE DEF f, Def
        <4> QED
          BY <3>2, <3>3
      <3> HIDE DEF f
      <3> QED
        BY <3>1, <3>4
    <2>6. updateCurIntvlWithQueuedSamples(a, c) = c
      BY <2>4, <2>5
    <2> QED
      BY <2>1, <2>6 DEF SameComp
  <1> QED
    BY <1>1, <1>2

LEMMA QueuedIs ==
    ASSUME NEW s, AggOK(s), s.curIntvlStart # NotSet, allCompsReadyToReceiveSamples(s)
    PROVE  LET u == updateQueuedSamples(s)
           IN  /\ AggOK(u) /\ SameComps(s, u)
               /\ u.curIntvlStart = s.curIntvlStart
               /\ u.width = s.width /\ u.lastActualVal = s.lastActualVal
               /\ \A i \in 1 .. Len(s.comps) :
                     /\ u.comps[i].last # NotSet
                     /\ u.comps[i].curActualVal = s.comps[i].curActualVal
                     /\ u.comps[i].last < curIntvlEnd(u) => u.comps[i].futureSamples = <<>>
  <1> DEFINE u == updateQueuedSamples(s)
             cs == [i \in DOMAIN s.comps |-> updateCurIntvlWithQueuedSamples(s, s.comps[i])]
  <1>1. s \in AggType /\ \A i \in 1 .. Len(s.comps) : CompOK(s.comps[i], s.curIntvlStart)
    BY CompsOf DEF AggOK
  <1>2. PICK n \in Nat : n = Len(s.comps) /\ DOMAIN s.comps = 1 .. n
    BY <1>1, CompsOf
  <1>3. ASSUME NEW i \in 1 .. n
        PROVE  /\ cs[i] \in CompType /\ CompOK(cs[i], s.curIntvlStart)
               /\ SameComp(s.comps[i], cs[i])
               /\ cs[i].last # NotSet /\ cs[i].curActualVal = s.comps[i].curActualVal
               /\ cs[i].last < curIntvlEnd(s) => cs[i].futureSamples = <<>>
    <2>1. cs[i] = updateCurIntvlWithQueuedSamples(s, s.comps[i])
      BY <1>2
    <2>2. s.comps[i] \in CompType /\ s.comps[i].last # NotSet
      BY <1>1, <1>2, CompsOf DEF allCompsReadyToReceiveSamples, isReadyToReceiveSamples
    <2> HIDE DEF cs
    <2> QED
      BY <1>1, <1>2, <2>1, <2>2, UpdateIs
  <1>4. cs \in [1 .. n -> CompType]
    <2>1. cs = [i \in 1 .. n |-> cs[i]]
      BY <1>2
    <2> HIDE DEF cs
    <2> QED
      BY <1>3, <2>1
  <1>5. u = [s EXCEPT !.comps = cs]
    BY DEF updateQueuedSamples
  <1> HIDE DEF cs
  <1>6. cs \in Seq(CompType) /\ Len(cs) = n
    BY <1>4
  <1>7. /\ u \in AggType /\ u.comps = cs /\ u.curIntvlStart = s.curIntvlStart
        /\ u.width = s.width /\ u.lastActualVal = s.lastActualVal
    BY <1>1, <1>5, <1>6 DEF AggType
  <1> HIDE DEF u
  <1>8. AggOK(u)
    BY <1>3, <1>6, <1>7, CompsOf DEF AggOK
  <1>9. SameComps(s, u)
    BY <1>2, <1>3, <1>6, <1>7 DEF SameComps
  <1>10. curIntvlEnd(u) = curIntvlEnd(s)
    BY <1>7 DEF curIntvlEnd
  <1> QED
    BY <1>2, <1>3, <1>7, <1>8, <1>9, <1>10 DEF u

LEMMA NothingEmitted ==
    ASSUME NEW a \in AggType, NEW b \in AggType, b.width = a.width,
           b.lastActualVal = a.lastActualVal, FirstStart(b) = FirstStart(a),
           a.curIntvlStart # NotSet => b.curIntvlStart # NotSet
    PROVE  Emits(a, b, <<>>)
  <1>1. <<>> \in Seq(IntvlType) /\ Len(<<>>) = 0
    OBVIOUS
  <1>2. Contiguous(<<>>)
    BY <1>1 DEF Contiguous
  <1>3. b.lastActualVal - a.lastActualVal = 0
    BY DEF AggType
  <1> QED
    BY <1>1, <1>2, <1>3, ValuesEmpty DEF Emits

LEMMA Unchanged ==
    ASSUME NEW a, AggOK(a)
    PROVE  Aggregated(a, a, <<>>)
  <1>1. Emits(a, a, <<>>)
    BY NothingEmitted DEF AggOK
  <1>2. SameComps(a, a)
    BY DEF SameComps, SameComp
  <1> QED
    BY <1>1, <1>2 DEF Aggregated

(* What is added up is what the components have when the interval is over. *)
LEMMA ActualValsType ==
    ASSUME NEW u \in AggType
    PROVE  ActualVals(u) \in Int
  <1> DEFINE v == [i \in DOMAIN u.comps |-> ActualVal(u.comps[i])]
  <1>1. PICK n \in Nat : n = Len(u.comps) /\ DOMAIN u.comps = 1 .. n
    BY CompsOf
  <1>2. \A i \in 1 .. n : ActualVal(u.comps[i]) \in Int
    BY <1>1, CompsOf DEF ActualVal, CompType
  <1>3. v \in [1 .. n -> Int]
    BY <1>1, <1>2
  <1>4. ActualVals(u) = SumOf(v)
    BY DEF ActualVals
  <1> HIDE DEF v
  <1>5. v \in Seq(Int)
    BY <1>3
  <1> QED
    BY <1>4, <1>5, SumType

LEMMA ActuallyIs ==
    ASSUME NEW u, AggOK(u), u.curIntvlStart # NotSet,
           allCompsCompleteForInterval(u),
           \A i \in 1 .. Len(u.comps) :
               /\ u.comps[i].last # NotSet
               /\ u.comps[i].last < curIntvlEnd(u) => u.comps[i].futureSamples = <<>>
    PROVE  LET b == actuallyAggregate(u)
           IN  /\ AggOK(b) /\ SameComps(u, b) /\ Summed(b) /\ Interval(u) \in IntvlType
               /\ b.curIntvlStart = Interval(u).end /\ b.width = u.width
               /\ Interval(u).start = u.curIntvlStart
               /\ Interval(u).value = b.lastActualVal - u.lastActualVal
  <1> DEFINE b == actuallyAggregate(u)
             cs == [i \in DOMAIN u.comps |->
                      [u.comps[i] EXCEPT !.curActualVal = ActualVal(u.comps[i]),
                                         !.curIntvlVal = 0]]
             end == curIntvlEnd(u)
             sum == ActualVals(u)
  <1>1. u \in AggType /\ \A i \in 1 .. Len(u.comps) : CompOK(u.comps[i], u.curIntvlStart)
    BY CompsOf DEF AggOK
  <1>2. PICK n \in Nat : n = Len(u.comps) /\ DOMAIN u.comps = 1 .. n
    BY <1>1, CompsOf
  <1>3. sum \in Int
    BY <1>1, ActualValsType
  <1>4. end \in Nat /\ u.curIntvlStart \in Nat /\ u.curIntvlStart < end /\ u.lastActualVal \in Int
    BY <1>1 DEF AggType, curIntvlEnd
  <1>5. ASSUME NEW i \in 1 .. n
        PROVE  /\ cs[i] \in CompType /\ cs[i].last = u.comps[i].last
               /\ cs[i].futureSamples = u.comps[i].futureSamples
               /\ cs[i].bIsFinished = u.comps[i].bIsFinished
               /\ cs[i].actualSet = u.comps[i].actualSet
               /\ cs[i].curActualVal = ActualVal(u.comps[i]) /\ cs[i].curIntvlVal = 0
               /\ ActualVal(u.comps[i]) \in Int
    <2>1. u.comps[i] \in CompType
      BY <1>1, <1>2, CompsOf
    <2>2. ActualVal(u.comps[i]) \in Int
      BY <2>1 DEF ActualVal, CompType
    <2>3. cs[i] = [u.comps[i] EXCEPT !.curActualVal = ActualVal(u.comps[i]), !.curIntvlVal = 0]
      BY <1>2
    <2>4. PICK c \in CompType, v \in Int : c = u.comps[i] /\ v = ActualVal(u.comps[i])
      BY <2>1, <2>2
    <2>8. PICK z \in Int : z = 0
      OBVIOUS
    <2>5. cs[i] = [c EXCEPT !.curActualVal = v, !.curIntvlVal = z]
      BY <2>3, <2>4, <2>8
    <2> HIDE DEF cs
    <2>6. cs[i] \in CompType
      BY <2>5 DEF CompType
    <2>7. /\ cs[i].last = c.last /\ cs[i].futureSamples = c.futureSamples
          /\ cs[i].bIsFinished = c.bIsFinished /\ cs[i].actualSet = c.actualSet
          /\ cs[i].curActualVal = v /\ cs[i].curIntvlVal = z
      BY <2>5 DEF CompType
    <2> QED
      BY <2>4, <2>6, <2>7, <2>8
  <1>6. cs \in [1 .. n -> CompType]
    <2>1. cs = [i \in 1 .. n |-> cs[i]]
      BY <1>2
    <2> HIDE DEF cs
    <2> QED
      BY <1>5, <2>1
  <1>7. b = [u EXCEPT !.curIntvlStart = end, !.lastActualVal = sum, !.comps = cs]
    BY DEF actuallyAggregate
  <1>8. Interval(u) = [start |-> u.curIntvlStart, end |-> end, value |-> sum - u.lastActualVal]
    BY DEF Interval
  <1>9. sum = SumOf([i \in 1 .. n |-> ActualVal(u.comps[i])])
    BY <1>2 DEF ActualVals
  <1> HIDE DEF cs, end, sum
  <1>10. cs \in Seq(CompType) /\ Len(cs) = n /\ DOMAIN cs = 1 .. n
    BY <1>6
  <1>11. /\ b \in AggType /\ b.comps = cs /\ b.curIntvlStart = end
         /\ b.width = u.width /\ b.lastActualVal = sum
    BY <1>1, <1>3, <1>4, <1>7, <1>10 DEF AggType
  <1> HIDE DEF b
  <1>12. AggOK(b)
    <2>1. ASSUME NEW i \in 1 .. n PROVE CompOK(cs[i], end)
      <3>1. u.comps[i] \in CompType
        BY <1>1, <1>2, CompsOf
      <3>2. u.comps[i].last \in Nat
        BY <1>2, <3>1 DEF CompType
      <3>3. u.comps[i].bIsFinished \/ u.comps[i].last >= end
        BY <1>2 DEF allCompsCompleteForInterval, end
      <3>4. u.comps[i].last < end => u.comps[i].futureSamples = <<>>
        BY <1>2 DEF end
      <3>5. CompOK(u.comps[i], u.curIntvlStart)
        BY <1>1, <1>2
      <3> QED
        BY <1>4, <1>5, <3>2, <3>3, <3>4, <3>5 DEF CompOK
    <2> QED
      BY <1>10, <1>11, <2>1 DEF AggOK
  <1>13. SameComps(u, b)
    <2>1. ASSUME NEW i \in 1 .. n PROVE SameComp(u.comps[i], cs[i])
      BY <1>5 DEF SameComp, Given, GivenUpTo, ActualVal
    <2> QED
      BY <1>2, <1>10, <1>11, <2>1 DEF SameComps
  <1>14. Summed(b)
    <2>1. [i \in DOMAIN b.comps |-> b.comps[i].curActualVal]
             = [i \in 1 .. n |-> ActualVal(u.comps[i])]
      BY <1>5, <1>10, <1>11
    <2> QED
      BY <1>9, <1>11, <2>1 DEF Summed
  <1>15. Interval(u) \in IntvlType
    BY <1>3, <1>4, <1>8 DEF IntvlType
  <1> QED
    BY <1>8, <1>11, <1>12, <1>13, <1>14, <1>15 DEF b

LEMMA AggregateOnce ==
    ASSUME NEW a, AggOK(a)
    PROVE  Aggregated(a, aggregate(a).agg, aggregate(a).out)
  <1>1. CASE a.comps = <<>> \/ ~allCompsReadyToReceiveSamples(a)
    <2>1. aggregate(a) = [agg |-> a, out |-> <<>>]
      BY <1>1 DEF aggregate
    <2> QED
      BY <2>1, Unchanged
  <1>2. CASE ~(a.comps = <<>> \/ ~allCompsReadyToReceiveSamples(a))
    <2>1. PICK s : s = setupIntvlTimes(a)
      OBVIOUS
    <2>2. /\ AggOK(s) /\ s.curIntvlStart = FirstStart(a) /\ s.curIntvlStart # NotSet
          /\ s.comps = a.comps /\ s.width = a.width /\ s.lastActualVal = a.lastActualVal
      BY <1>2, <2>1, SetupIs
    <2>3. PICK u : u = updateQueuedSamples(s)
      OBVIOUS
    <2>4. allCompsReadyToReceiveSamples(s)
      BY <1>2, <2>2 DEF allCompsReadyToReceiveSamples
    <2>5. /\ AggOK(u) /\ SameComps(a, u) /\ u.curIntvlStart = s.curIntvlStart
          /\ u.width = s.width /\ u.lastActualVal = s.lastActualVal
          /\ \A i \in 1 .. Len(a.comps) :
                /\ u.comps[i].last # NotSet
                /\ u.comps[i].curActualVal = a.comps[i].curActualVal
                /\ u.comps[i].last < curIntvlEnd(u) => u.comps[i].futureSamples = <<>>
      <3>1. SameComps(s, u)
        BY <2>2, <2>3, <2>4, QueuedIs
      <3>2. SameComps(a, u)
        BY <2>2, <3>1 DEF SameComps
      <3> QED
        BY <2>2, <2>3, <2>4, <3>2, QueuedIs
    <2>6. Len(u.comps) = Len(a.comps) /\ a \in AggType /\ u \in AggType
      BY <2>5 DEF SameComps, AggOK
    <2>7. FirstStart(u) = FirstStart(a)
      BY <2>2, <2>5 DEF FirstStart
    <2>8. CASE ~allCompsCompleteForInterval(u)
      <3>1. aggregate(a) = [agg |-> u, out |-> <<>>]
        BY <1>2, <2>1, <2>3, <2>8 DEF aggregate
      <3>2. Emits(a, u, <<>>)
        BY <2>2, <2>5, <2>6, <2>7, NothingEmitted
      <3>3. [i \in DOMAIN u.comps |-> u.comps[i].curActualVal]
               = [i \in DOMAIN a.comps |-> a.comps[i].curActualVal]
        BY <2>5, <2>6, CompsOf
      <3>4. Summed(a) => Summed(u)
        BY <2>2, <2>5, <3>3 DEF Summed
      <3> QED
        BY <2>5, <3>1, <3>2, <3>4 DEF Aggregated
    <2>9. CASE allCompsCompleteForInterval(u)
      <3>1. PICK b, o : b = actuallyAggregate(u) /\ o = Interval(u)
        OBVIOUS
      <3>2. aggregate(a) = [agg |-> b, out |-> <<o>>]
        BY <1>2, <2>1, <2>3, <2>9, <3>1 DEF aggregate
      <3>3. /\ AggOK(b) /\ SameComps(u, b) /\ Summed(b) /\ o \in IntvlType
            /\ b.curIntvlStart = o.end /\ b.width = u.width
            /\ o.start = u.curIntvlStart /\ o.value = b.lastActualVal - u.lastActualVal
        BY <2>2, <2>5, <2>6, <2>9, <3>1, ActuallyIs
      <3>4. SameComps(a, b)
        BY <2>5, <3>3 DEF SameComps, SameComp
      <3>5. PICK out \in Seq(IntvlType) : out = <<o>> /\ Len(out) = 1 /\ out[1] = o /\ out # <<>>
        <4>1. <<o>> \in Seq(IntvlType)
          BY <3>3
        <4> QED
          BY <4>1
      <3>6. Values(out) = o.value
        BY <3>3, <3>5, AreValued, ValuesOne
      <3>7. Contiguous(out)
        BY <3>5 DEF Contiguous
      <3>8. b.curIntvlStart # NotSet
        BY <3>3 DEF IntvlType, NotSet
      <3>9. Emits(a, b, out)
        BY <2>2, <2>5, <3>3, <3>5, <3>6, <3>7, <3>8 DEF Emits
      <3> QED
        BY <3>2, <3>3, <3>4, <3>5, <3>9 DEF Aggregated
    <2> QED
      BY <2>8, <2>9
  <1> QED
    BY <1>1, <1>2

LEMMA ContiguousBoth ==
    ASSUME NEW o \in Seq(IntvlType), NEW p \in Seq(IntvlType), Contiguous(o), Contiguous(p),
           o # <<>> /\ p # <<>> => p[1].start = o[Len(o)].end
    PROVE  /\ o \o p \in Seq(IntvlType) /\ Contiguous(o \o p)
           /\ o \o p = <<>> <=> o = <<>> /\ p = <<>>
           /\ o # <<>> => (o \o p)[1] = o[1]
           /\ o = <<>> => o \o p = p
           /\ p = <<>> => o \o p = o
           /\ p # <<>> => (o \o p)[Len(o \o p)] = p[Len(p)]
  <1>1. PICK m \in Nat, n \in Nat : m = Len(o) /\ n = Len(p)
    OBVIOUS
  <1>2. PICK r \in Seq(IntvlType) : r = o \o p
    <2>1. o \o p \in Seq(IntvlType)
      BY ConcatProperties
    <2> QED
      BY <2>1
  <1>3. Len(r) = m + n /\ \A i \in 1 .. m + n : r[i] = IF i <= m THEN o[i] ELSE p[i - m]
    BY <1>1, <1>2, ConcatProperties
  <1>4. ASSUME NEW i \in 2 .. Len(r) PROVE r[i].start = r[i - 1].end
    <2>1. i \in 1 .. m + n /\ i - 1 \in 1 .. m + n
      BY <1>3
    <2>2. CASE i <= m
      <3>1. i \in 2 .. Len(o) /\ r[i] = o[i] /\ r[i - 1] = o[i - 1]
        BY <1>1, <1>3, <2>1, <2>2
      <3> QED
        BY <3>1 DEF Contiguous
    <2>3. CASE i = m + 1
      <3>1. r[i] = p[1] /\ r[i - 1] = o[m] /\ m # 0 /\ n # 0
        <4>1. /\ ~(i <= m) /\ i - m = 1 /\ i - 1 = m /\ i - 1 <= m
              /\ m \in Nat \ {0} /\ n \in Nat \ {0}
          BY <2>1, <2>3
        <4> QED
          BY <1>3, <2>1, <4>1
      <3>2. o # <<>> /\ p # <<>>
        BY <1>1, <3>1
      <3> QED
        BY <1>1, <3>1, <3>2
    <2>4. CASE i > m + 1
      <3>1. /\ i - m \in 2 .. Len(p) /\ r[i] = p[i - m] /\ r[i - 1] = p[(i - 1) - m]
            /\ (i - 1) - m = (i - m) - 1
        <4>1. /\ ~(i <= m) /\ ~(i - 1 <= m) /\ i - m \in 2 .. n
              /\ (i - 1) - m = (i - m) - 1
          BY <2>1, <2>4
        <4> QED
          BY <1>1, <1>3, <2>1, <4>1
      <3> QED
        BY <3>1 DEF Contiguous
    <2> QED
      BY <1>3, <2>2, <2>3, <2>4
  <1>5. Contiguous(r)
    BY <1>4 DEF Contiguous
  <1>6. /\ r = <<>> <=> o = <<>> /\ p = <<>>
        /\ o = <<>> => r = p
        /\ p = <<>> => r = o
    BY <1>2, ConcatEqualIffEmpty, ConcatEmptySeq
  <1>7. o # <<>> => r[1] = o[1]
    <2>1. o # <<>> => m # 0
      BY <1>1, EmptySeq
    <2> QED
      BY <1>3, <2>1
  <1>8. p # <<>> => r[Len(r)] = p[Len(p)]
    <2>1. p # <<>> => n # 0
      BY <1>1, EmptySeq
    <2> QED
      BY <1>1, <1>3, <2>1
  <1> QED
    BY <1>2, <1>5, <1>6, <1>7, <1>8

LEMMA EmitsBoth ==
    ASSUME NEW a \in AggType, NEW b \in AggType, NEW c \in AggType,
           NEW o, NEW p, Emits(a, b, o), Emits(b, c, p)
    PROVE  Emits(a, c, o \o p)
  <1>1. o \in Seq(IntvlType) /\ p \in Seq(IntvlType) /\ Contiguous(o) /\ Contiguous(p)
    BY DEF Emits
  <1>2. o # <<>> /\ p # <<>> => p[1].start = o[Len(o)].end
    <2> SUFFICES ASSUME o # <<>>, p # <<>> PROVE p[1].start = o[Len(o)].end
      OBVIOUS
    <2>1. o[Len(o)] \in IntvlType
      <3>1. Len(o) \in 1 .. Len(o)
        BY <1>1, EmptySeq
      <3> QED
        BY <1>1, <3>1
    <2>2. b.curIntvlStart # NotSet
      BY <2>1 DEF Emits, IntvlType, NotSet
    <2>3. FirstStart(b) = b.curIntvlStart
      BY <2>2 DEF FirstStart
    <2>4. p[1].start = FirstStart(b) /\ b.curIntvlStart = o[Len(o)].end
      BY DEF Emits
    <2> QED
      BY <2>3, <2>4
  <1>3. PICK r : r = o \o p
    OBVIOUS
  <1>4. /\ r \in Seq(IntvlType) /\ Contiguous(r)
        /\ r = <<>> <=> o = <<>> /\ p = <<>>
        /\ o # <<>> => r[1] = o[1]
        /\ o = <<>> => r = p
        /\ p = <<>> => r = o
        /\ p # <<>> => r[Len(r)] = p[Len(p)]
    BY <1>1, <1>2, <1>3, ContiguousBoth
  <1>5. Values(r) = c.lastActualVal - a.lastActualVal
    <2>1. Values(r) = Values(o) + Values(p)
      BY <1>1, <1>3, AreValued, ValuesAdd
    <2>2. a.lastActualVal \in Int /\ b.lastActualVal \in Int /\ c.lastActualVal \in Int
      BY DEF AggType
    <2> QED
      BY <2>1, <2>2 DEF Emits
  <1>6. c.width = a.width /\ (a.curIntvlStart # NotSet => c.curIntvlStart # NotSet)
    BY DEF Emits
  <1>7. r = <<>> => FirstStart(c) = FirstStart(a)
    BY <1>4 DEF Emits
  <1>8. r # <<>> => r[1].start = FirstStart(a) /\ c.curIntvlStart = r[Len(r)].end
    <2>1. CASE o = <<>>
      BY <1>4, <2>1 DEF Emits
    <2>2. CASE o # <<>> /\ p = <<>>
      <3>1. r = o /\ r[1].start = FirstStart(a) /\ b.curIntvlStart = o[Len(o)].end
        BY <1>4, <2>2 DEF Emits
      <3>2. Len(o) \in 1 .. Len(o)
        BY <1>1, <2>2, EmptySeq
      <3>3. o[Len(o)] \in IntvlType
        BY <1>1, <3>2
      <3>4. b.curIntvlStart # NotSet
        BY <3>1, <3>3 DEF IntvlType, NotSet
      <3>5. c.curIntvlStart # NotSet /\ FirstStart(c) = FirstStart(b)
        BY <2>2, <3>4 DEF Emits
      <3>6. c.curIntvlStart = b.curIntvlStart
        BY <3>4, <3>5 DEF FirstStart
      <3> QED
        BY <3>1, <3>6
    <2>3. CASE o # <<>> /\ p # <<>>
      BY <1>4, <2>3 DEF Emits
    <2> QED
      BY <2>1, <2>2, <2>3
  <1> QED
    BY <1>3, <1>4, <1>5, <1>6, <1>7, <1>8 DEF Emits

LEMMA SameCompsBoth ==
    ASSUME NEW a, NEW b, NEW c, SameComps(a, b), SameComps(b, c)
    PROVE  SameComps(a, c)
  BY DEF SameComps, SameComp

LEMMA AggregatedBoth ==
    ASSUME NEW a \in AggType, NEW b, NEW c, NEW o, NEW p, Aggregated(a, b, o), Aggregated(b, c, p)
    PROVE  Aggregated(a, c, o \o p)
  <1>1. Emits(a, c, o \o p)
    BY EmitsBoth DEF Aggregated, AggOK
  <1>2. SameComps(a, c)
    BY SameCompsBoth DEF Aggregated
  <1> QED
    BY <1>1, <1>2 DEF Aggregated

(* Calls of aggregate until one returns nothing.                           *)
LEMMA AggregateMany ==
    ASSUME NEW a, AggOK(a), NEW limit \in Nat
    PROVE  Aggregated(a, aggregateAll(a, limit).agg, aggregateAll(a, limit).out)
  <1> DEFINE T == [agg : AggType, out : Seq(IntvlType)]
             S == [i \in 0 .. limit |-> {r \in T : Aggregated(a, r.agg, r.out)}]
             Call(r, n) == LET s == aggregate(r.agg)
                           IN  IF Len(r.out) + 1 = n
                               THEN [agg |-> s.agg, out |-> r.out \o s.out] ELSE r
             x == [agg |-> a, out |-> <<>>]
             step == [i \in 1 .. limit |-> [r \in T |-> Call(r, i)]]
             Def(g) == [n \in 0 .. limit |-> IF n = 0 THEN x ELSE Call(g[n - 1], n)]
             f == CHOOSE g : g = Def(g)
  <1>1. a \in AggType
    BY DEF AggOK
  <1>2. x \in T /\ Aggregated(a, x.agg, x.out)
    <2>1. <<>> \in Seq(IntvlType)
      OBVIOUS
    <2> QED
      BY <1>1, <2>1, Unchanged
  <1>3. ASSUME NEW r \in T, Aggregated(a, r.agg, r.out), NEW i
        PROVE  Call(r, i) \in T /\ Aggregated(a, Call(r, i).agg, Call(r, i).out)
    <2>1. PICK b, o : b = aggregate(r.agg).agg /\ o = aggregate(r.agg).out
      OBVIOUS
    <2>2. Aggregated(r.agg, b, o)
      BY <1>3, <2>1, AggregateOnce DEF Aggregated
    <2>3. Aggregated(a, b, r.out \o o)
      BY <1>1, <1>3, <2>2, AggregatedBoth
    <2>4. b \in AggType /\ r.out \o o \in Seq(IntvlType)
      BY <2>3 DEF Aggregated, AggOK, Emits
    <2>5. CASE Len(r.out) + 1 = i
      <3>1. Call(r, i) = [agg |-> b, out |-> r.out \o o]
        BY <2>1, <2>5
      <3> HIDE DEF Call
      <3> QED
        BY <2>3, <2>4, <3>1
    <2>6. CASE Len(r.out) + 1 # i
      BY <1>3, <2>6
    <2> QED
      BY <2>5, <2>6
  <1> HIDE DEF Call
  <1>4. S \in [0 .. limit -> SUBSET T] /\ x \in S[0]
    <2>1. S \in [0 .. limit -> SUBSET T]
      OBVIOUS
    <2> HIDE DEF T, x
    <2> QED
      BY <1>2, <2>1
  <1>5. \A i \in 0 .. limit : \A r : r \in S[i] <=> r \in T /\ Aggregated(a, r.agg, r.out)
    <2> HIDE DEF T
    <2> QED
      OBVIOUS
  <1>6. \A i \in 1 .. limit : i - 1 \in 0 .. limit /\ i \in 0 .. limit
    OBVIOUS
  <1>7. \A i \in 1 .. limit : \A r \in T : step[i][r] = Call(r, i)
    <2> HIDE DEF T
    <2> QED
      OBVIOUS
  <1> HIDE DEF S, step, T
  <1>8. f = Def(f)
    <2>1. StepKeeps(limit, S, step)
      BY <1>3, <1>5, <1>6, <1>7 DEF StepKeeps
    <2> HIDE DEF x
    <2>2. PICK g \in [0 .. limit -> T] : IsLoop(limit, S, x, step, g)
      BY <1>4, <2>1, LoopExists
    <2>3. \A i \in 0 .. limit : g[i] = IF i = 0 THEN x ELSE Call(g[i - 1], i)
      <3>1. \A i \in 0 .. limit : i # 0 => i \in 1 .. limit /\ i - 1 \in 0 .. limit
        OBVIOUS
      <3> QED
        BY <1>7, <2>2, <3>1 DEF IsLoop
    <2>4. g = Def(g)
      BY <2>2, <2>3
    <2> HIDE DEF Def
    <2> QED
      BY <2>4
  <1>9. aggregateAll(a, limit) = f[limit]
    BY DEF aggregateAll, Call
  <1>10. f[0] = x /\ \A i \in 1 .. limit : f[i] = Call(f[i - 1], i)
    <2>1. Def(f)[0] = x /\ \A i \in 1 .. limit : Def(f)[i] = Call(f[i - 1], i)
      OBVIOUS
    <2> HIDE DEF Def, f
    <2> QED
      BY <1>8, <2>1
  <1> HIDE DEF f, Def, x
  <1>11. Keeps(limit, S, f)
    BY <1>3, <1>5, <1>6, <1>10 DEF Keeps
  <1>12. f[limit] \in S[limit]
    BY <1>4, <1>10, <1>11, LoopKeeps
  <1> QED
    BY <1>5, <1>9, <1>12

(* Components are changed, but not what they are aggregated to.            *)
LEMMA OtherComps ==
    ASSUME NEW a, AggOK(a), NEW n \in Nat, n = Len(a.comps), NEW cs \in [1 .. n -> CompType],
           \A i \in 1 .. n : CompOK(cs[i], a.curIntvlStart)
    PROVE  LET b == [a EXCEPT !.comps = cs]
           IN  /\ AggOK(b) /\ b.comps = cs /\ Len(b.comps) = n /\ DOMAIN b.comps = 1 .. n
               /\ b.curIntvlStart = a.curIntvlStart /\ b.width = a.width
               /\ b.lastActualVal = a.lastActualVal
               /\ (\A i \in 1 .. n : cs[i].curActualVal = a.comps[i].curActualVal)
                     => (Summed(a) => Summed(b))
               /\ (\A i \in 1 .. n : cs[i].last = a.comps[i].last)
                     => FirstStart(b) = FirstStart(a)
  <1> DEFINE b == [a EXCEPT !.comps = cs]
  <1>1. a \in AggType /\ DOMAIN a.comps = 1 .. n
    BY CompsOf DEF AggOK
  <1>2. cs \in Seq(CompType) /\ Len(cs) = n /\ DOMAIN cs = 1 .. n
    OBVIOUS
  <1>3. /\ b \in AggType /\ b.comps = cs /\ b.curIntvlStart = a.curIntvlStart
        /\ b.width = a.width /\ b.lastActualVal = a.lastActualVal
    BY <1>1, <1>2 DEF AggType
  <1> HIDE DEF b
  <1>4. AggOK(b)
    BY <1>2, <1>3 DEF AggOK
  <1>5. ASSUME \A i \in 1 .. n : cs[i].curActualVal = a.comps[i].curActualVal, Summed(a)
        PROVE  Summed(b)
    <2>1. [i \in DOMAIN b.comps |-> b.comps[i].curActualVal]
             = [i \in DOMAIN a.comps |-> a.comps[i].curActualVal]
      BY <1>1, <1>2, <1>3, <1>5
    <2> QED
      BY <1>3, <1>5, <2>1 DEF Summed
  <1>6. ASSUME \A i \in 1 .. n : cs[i].last = a.comps[i].last
        PROVE  FirstStart(b) = FirstStart(a)
    <2>1. {b.comps[i].last : i \in DOMAIN b.comps} = {a.comps[i].last : i \in DOMAIN a.comps}
      BY <1>1, <1>2, <1>3, <1>6
    <2> QED
      BY <1>3, <2>1 DEF FirstStart
  <1> QED
    BY <1>2, <1>3, <1>4, <1>5, <1>6 DEF b

(* One component is changed.                                               *)
OneChanged(a, b, k, c) ==
    /\ AggOK(b) /\ Len(b.comps) = Len(a.comps) /\ b.comps[k] = c
    /\ \A i \in 1 .. Len(a.comps) : i # k => b.comps[i] = a.comps[i]
    /\ b.curIntvlStart = a.curIntvlStart /\ b.width = a.width
    /\ b.lastActualVal = a.lastActualVal
    /\ c.curActualVal = a.comps[k].curActualVal => (Summed(a) => Summed(b))
    /\ c.last = a.comps[k].last => FirstStart(b) = FirstStart(a)

LEMMA OneComp ==
    ASSUME NEW a, AggOK(a), NEW k \in 1 .. Len(a.comps), NEW c \in CompType,
           CompOK(c, a.curIntvlStart)
    PROVE  OneChanged(a, [a EXCEPT !.comps[k] = c], k, c)
  <1>1. a \in AggType /\ \A i \in 1 .. Len(a.comps) : CompOK(a.comps[i], a.curIntvlStart)
    BY CompsOf DEF AggOK
  <1>2. PICK n \in Nat : n = Len(a.comps) /\ DOMAIN a.comps = 1 .. n
    BY <1>1, CompsOf
  <1>3. a.comps \in [1 .. n -> CompType]
    BY <1>1, <1>2, CompsOf
  <1>4. PICK cs : cs = [a.comps EXCEPT ![k] = c]
    OBVIOUS
  <1>5. /\ cs \in [1 .. n -> CompType] /\ cs[k] = c
        /\ \A i \in 1 .. n : i # k => cs[i] = a.comps[i]
    BY <1>2, <1>3, <1>4
  <1>6. [a EXCEPT !.comps[k] = c] = [a EXCEPT !.comps = cs]
    BY <1>1, <1>4 DEF AggType
  <1>7. \A i \in 1 .. n : CompOK(cs[i], a.curIntvlStart)
    BY <1>1, <1>2, <1>5
  <1>8. PICK b : b = [a EXCEPT !.comps = cs]
    OBVIOUS
  <1>9. /\ AggOK(b) /\ b.comps = cs /\ Len(b.comps) = n
        /\ b.curIntvlStart = a.curIntvlStart /\ b.width = a.width
        /\ b.lastActualVal = a.lastActualVal
        /\ (\A i \in 1 .. n : cs[i].curActualVal = a.comps[i].curActualVal)
              => (Summed(a) => Summed(b))
        /\ (\A i \in 1 .. n : cs[i].last = a.comps[i].last)
              => FirstStart(b) = FirstStart(a)
    BY <1>2, <1>5, <1>7, <1>8, OtherComps
  <1> QED
    BY <1>2, <1>5, <1>6, <1>8, <1>9 DEF OneChanged

(* A component is added.                                                   *)
CompAdded(a, b, c) ==
    /\ AggOK(b) /\ Len(b.comps) = Len(a.comps) + 1 /\ b.comps[Len(a.comps) + 1] = c
    /\ \A i \in 1 .. Len(a.comps) : b.comps[i] = a.comps[i]
    /\ b.curIntvlStart = a.curIntvlStart /\ b.width = a.width
    /\ b.lastActualVal = a.lastActualVal
    /\ c.curActualVal = 0 => (Summed(a) => Summed(b))

LEMMA AddComp ==
    ASSUME NEW a, AggOK(a), NEW c \in CompType, CompOK(c, a.curIntvlStart)
    PROVE  CompAdded(a, [a EXCEPT !.comps = Append(@, c)], c)
  <1> DEFINE b == [a EXCEPT !.comps = Append(@, c)]
  <1>1. a \in AggType /\ \A i \in 1 .. Len(a.comps) : CompOK(a.comps[i], a.curIntvlStart)
    BY CompsOf DEF AggOK
  <1>2. PICK n \in Nat : n = Len(a.comps) /\ DOMAIN a.comps = 1 .. n
    BY <1>1, CompsOf
  <1>3. PICK cs : cs = Append(a.comps, c)
    OBVIOUS
  <1>4. /\ cs \in Seq(CompType) /\ Len(cs) = n + 1 /\ cs[n + 1] = c
        /\ \A i \in 1 .. n : cs[i] = a.comps[i]
    BY <1>1, <1>2, <1>3, CompsOf, AppendProperties
  <1>5. b = [a EXCEPT !.comps = cs]
    BY <1>1, <1>3 DEF AggType
  <1>6. /\ b \in AggType /\ b.comps = cs /\ b.curIntvlStart = a.curIntvlStart
        /\ b.width = a.width /\ b.lastActualVal = a.lastActualVal
    BY <1>1, <1>4, <1>5 DEF AggType
  <1> HIDE DEF b
  <1>7. AggOK(b)
    <2>1. ASSUME NEW i \in 1 .. n + 1 PROVE CompOK(cs[i], a.curIntvlStart)
      <3>1. i \in 1 .. n \/ i = n + 1
        OBVIOUS
      <3> QED
        BY <1>1, <1>2, <1>4, <3>1
    <2>2. DOMAIN cs = 1 .. n + 1
      BY <1>4
    <2> QED
      BY <1>6, <2>1, <2>2 DEF AggOK
  <1>8. ASSUME c.curActualVal = 0, Summed(a) PROVE Summed(b)
    <2> DEFINE v == [i \in 1 .. n |-> a.comps[i].curActualVal]
               w == [i \in 1 .. n + 1 |-> cs[i].curActualVal]
    <2>1. v \in [1 .. n -> Int] /\ w \in [1 .. n + 1 -> Int]
      <3>1. \A i \in 1 .. n : a.comps[i].curActualVal \in Int
        BY <1>1, <1>2, CompsOf DEF CompType
      <3>2. \A i \in 1 .. n + 1 : cs[i].curActualVal \in Int
        <4>1. \A i \in 1 .. n + 1 : cs[i] \in CompType
          BY <1>4
        <4> QED
          BY <4>1 DEF CompType
      <3> QED
        BY <3>1, <3>2
    <2>2. /\ v = [i \in DOMAIN a.comps |-> a.comps[i].curActualVal]
          /\ w = [i \in DOMAIN b.comps |-> b.comps[i].curActualVal]
      BY <1>2, <1>4, <1>6
    <2>3. \A i \in 1 .. n : w[i] = v[i]
      BY <1>4
    <2>4. w[n + 1] = 0
      BY <1>4, <1>8
    <2> HIDE DEF v, w
    <2>5. v \in Seq(Int) /\ w \in Seq(Int) /\ Len(v) = n /\ Len(w) = n + 1
      BY <2>1
    <2>6. w = Append(v, 0)
      <3>1. PICK y : y = Append(v, 0)
        OBVIOUS
      <3>2. y \in Seq(Int) /\ Len(y) = n + 1 /\ y[n + 1] = 0 /\ \A i \in 1 .. n : y[i] = v[i]
        BY <2>5, <3>1, AppendProperties
      <3>3. \A i \in 1 .. Len(w) : w[i] = y[i]
        <4>1. \A i \in 1 .. Len(w) : i \in 1 .. n \/ i = n + 1
          BY <2>5
        <4> QED
          BY <2>3, <2>4, <3>2, <4>1
      <3> QED
        BY <2>5, <3>1, <3>2, <3>3, SeqEqual
    <2>7. SumOf(w) = SumOf(v) + 0
      <3>1. PICK z \in Seq(Int) : z = <<0>>
        <4>1. <<0>> \in Seq(Int)
          OBVIOUS
        <4> QED
          BY <4>1
      <3>2. Append(v, 0) = v \o z
        BY <2>5, <3>1, AppendIsConcat
      <3> QED
        <4>1. SumOf(v \o z) = SumOf(v) + SumOf(z)
          BY <2>5, SumConcat
        <4>2. SumOf(z) = 0
          BY <3>1, SumOne
        <4> QED
          BY <2>6, <3>2, <4>1, <4>2
    <2> QED
      BY <1>6, <1>8, <2>2, <2>5, <2>7, SumType DEF Summed
  <1> QED
    BY <1>2, <1>4, <1>6, <1>7, <1>8 DEF b, CompAdded

(* An aggregator that was a and is b, when component k was given samples   *)
(* of the sum v up to time t and intervals were aggregated.                *)
Fed(a, b, k, v, t, out) ==
    /\ AggOK(b) /\ Emits(a, b, out) /\ Len(b.comps) = Len(a.comps)
    /\ \A i \in 1 .. Len(a.comps) : i # k => SameComp(a.comps[i], b.comps[i])
    /\ Given(b.comps[k]) = Given(a.comps[k]) + v /\ GivenUpTo(b.comps[k]) = t
    /\ b.comps[k].bIsFinished = a.comps[k].bIsFinished
    /\ b.comps[k].actualSet = a.comps[k].actualSet
    /\ b.comps[k].last = NotSet <=> a.comps[k].last = NotSet
    /\ Summed(a) => Summed(b)

LEMMA AddSampleFeeds ==
    ASSUME NEW a, AggOK(a), NEW k \in 1 .. Len(a.comps),
           a.comps[k].last # NotSet, ~a.comps[k].bIsFinished,
           NEW s \in SampleType, GivenUpTo(a.comps[k]) < s.time
    PROVE  Fed(a, addSamplePt(a, k, s), k, s.value, s.time, <<>>)
  <1>1. PICK c \in CompType : c = a.comps[k] /\ CompOK(c, a.curIntvlStart)
    BY CompsOf DEF AggOK
  <1>2. /\ c.futureSamples \in Seq(SampleType) /\ Ascending(c.futureSamples, c.last)
        /\ c.last \in Int /\ a.curIntvlStart <= c.last /\ ActualVal(c) \in Int /\ s.value \in Int
        /\ UpTo(c.futureSamples, c.last) < s.time
    BY <1>1 DEF CompOK, CompType, ActualVal, SampleType, UpTo, GivenUpTo, NotSet
  <1>3. PICK q : q = Append(c.futureSamples, s)
    OBVIOUS
  <1>4. /\ q \in Seq(SampleType) /\ q # <<>>
        /\ Ascending(q, c.last) /\ UpTo(q, c.last) = s.time
    BY <1>2, <1>3, AscendingAppend
  <1>5. Values(q) = Values(c.futureSamples) + s.value /\ Values(c.futureSamples) \in Int
    BY <1>2, <1>3, AreValued, ValuesAppend, ValuesType
  <1>6. PICK d : d = [c EXCEPT !.futureSamples = q]
    OBVIOUS
  <1>7. d \in CompType
    BY <1>4, <1>6 DEF CompType
  <1>8. /\ d.futureSamples = q /\ d.last = c.last
        /\ d.bIsFinished = c.bIsFinished /\ d.actualSet = c.actualSet
        /\ d.curActualVal = c.curActualVal /\ d.curIntvlVal = c.curIntvlVal
    BY <1>6 DEF CompType
  <1>9. CompOK(d, a.curIntvlStart)
    BY <1>1, <1>2, <1>4, <1>8 DEF CompOK
  <1>10. PICK b : b = [a EXCEPT !.comps[k] = d]
    OBVIOUS
  <1>11. addSamplePt(a, k, s) = b
    <2>1. a \in AggType /\ a.comps \in Seq(CompType)
      BY CompsOf DEF AggOK
    <2> QED
      BY <1>1, <1>3, <1>6, <1>10, <2>1 DEF addSamplePt, AggType, CompType
  <1>12. /\ AggOK(b) /\ Len(b.comps) = Len(a.comps) /\ b.comps[k] = d
         /\ \A i \in 1 .. Len(a.comps) : i # k => b.comps[i] = a.comps[i]
         /\ b.curIntvlStart = a.curIntvlStart /\ b.width = a.width
         /\ b.lastActualVal = a.lastActualVal
         /\ Summed(a) => Summed(b)
         /\ FirstStart(b) = FirstStart(a)
    <2>1. d.last = a.comps[k].last /\ d.curActualVal = a.comps[k].curActualVal
      BY <1>1, <1>8
    <2>2. OneChanged(a, b, k, d)
      BY <1>7, <1>9, <1>10, OneComp
    <2> QED
      BY <2>1, <2>2 DEF OneChanged
  <1>13. Emits(a, b, <<>>)
    BY <1>12, NothingEmitted DEF AggOK
  <1>14. \A i \in 1 .. Len(a.comps) : i # k => SameComp(a.comps[i], b.comps[i])
    BY <1>12 DEF SameComp
  <1>15. Given(d) = Given(c) + s.value
    BY <1>2, <1>5, <1>8 DEF Given, ActualVal
  <1>16. GivenUpTo(d) = s.time
    BY <1>4, <1>8 DEF GivenUpTo, UpTo
  <1> QED
    BY <1>1, <1>8, <1>11, <1>12, <1>13, <1>14, <1>15, <1>16 DEF Fed

LEMMA FedAggregated ==
    ASSUME NEW a \in AggType, NEW b, NEW c, NEW k \in 1 .. Len(a.comps),
           NEW v, NEW t, NEW o, NEW p, Fed(a, b, k, v, t, o), Aggregated(b, c, p)
    PROVE  Fed(a, c, k, v, t, o \o p)
  <1>1. Emits(a, c, o \o p)
    BY EmitsBoth DEF Aggregated, AggOK, Fed
  <1>2. \A i \in 1 .. Len(a.comps) : SameComp(b.comps[i], c.comps[i])
    BY DEF Fed, Aggregated, SameComps
  <1> QED
    BY <1>1, <1>2 DEF Fed, Aggregated, SameComps, SameComp

(* A sample is added to a component, and all that can is aggregated.       *)
LEMMA FeedOne ==
    ASSUME NEW a, AggOK(a), NEW k \in 1 .. Len(a.comps),
           a.comps[k].last # NotSet, ~a.comps[k].bIsFinished,
           NEW s \in SampleType, GivenUpTo(a.comps[k]) < s.time, NEW limit \in Nat
    PROVE  LET all == aggregateAll(addSamplePt(a, k, s), limit)
           IN  Fed(a, all.agg, k, s.value, s.time, all.out)
  <1>1. PICK b : b = addSamplePt(a, k, s)
    OBVIOUS
  <1>2. Fed(a, b, k, s.value, s.time, <<>>)
    BY <1>1, AddSampleFeeds
  <1>3. PICK c, o : c = aggregateAll(b, limit).agg /\ o = aggregateAll(b, limit).out
    OBVIOUS
  <1>4. Aggregated(b, c, o)
    BY <1>2, <1>3, AggregateMany DEF Fed
  <1>5. Fed(a, c, k, s.value, s.time, <<>> \o o)
    BY <1>2, <1>4, FedAggregated DEF AggOK
  <1>6. <<>> \o o = o
    BY <1>4, ConcatEmptySeq DEF Aggregated, Emits
  <1> QED
    BY <1>1, <1>3, <1>5, <1>6

-----------------------------------------------------------------------------
(* The intervals of a batch are given to a component of the front end.     *)

(* The intervals es were given to component k of an aggregator that was a  *)
(* and is b.                                                               *)
EntriesFed(a, b, k, es, out) ==
    /\ AggOK(b) /\ b.width = a.width /\ Len(b.comps) = Len(a.comps)
    /\ \A i \in 1 .. Len(a.comps) : i # k => SameComp(a.comps[i], b.comps[i])
    /\ Given(b.comps[k]) = Given(a.comps[k]) + Values(es)
    /\ GivenUpTo(b.comps[k]) = NextOf(es, GivenUpTo(a.comps[k]))
    /\ b.comps[k].bIsFinished = a.comps[k].bIsFinished
    /\ b.comps[k].last = NotSet => a.comps[k].last = NotSet /\ es = <<>>
    /\ Summed(a) => Summed(b)
    /\ out \in Seq(IntvlType) /\ Values(out) = b.lastActualVal - a.lastActualVal

AddedType == [agg : AggType, out : Seq(IntvlType), ok : BOOLEAN]

LEMMA GivenType ==
    ASSUME NEW c \in CompType
    PROVE  Given(c) \in Int /\ ActualVal(c) \in Int
  <1>1. ActualVal(c) \in Int
    BY DEF CompType, ActualVal
  <1>2. c.futureSamples \in Seq(SampleType)
    BY DEF CompType
  <1>3. Values(c.futureSamples) \in Int
    BY <1>2, AreValued, ValuesType
  <1> QED
    BY <1>1, <1>3 DEF Given

LEMMA StartTimeSet ==
    ASSUME NEW a, AggOK(a), NEW k \in 1 .. Len(a.comps), a.comps[k].last = NotSet,
           NEW t \in Nat, MayStart(a, t)
    PROVE  LET b == setInitialStartTime(a, k, t)
           IN  /\ AggOK(b) /\ Len(b.comps) = Len(a.comps) /\ b.width = a.width
               /\ b.lastActualVal = a.lastActualVal /\ (Summed(a) => Summed(b))
               /\ \A i \in 1 .. Len(a.comps) : i # k => b.comps[i] = a.comps[i]
               /\ b.comps[k].last = t /\ GivenUpTo(b.comps[k]) = t
               /\ Given(b.comps[k]) = Given(a.comps[k])
               /\ b.comps[k].bIsFinished = a.comps[k].bIsFinished
  <1>1. PICK c \in CompType : c = a.comps[k] /\ CompOK(c, a.curIntvlStart)
    BY CompsOf DEF AggOK
  <1>2. PICK d : d = [c EXCEPT !.last = t]
    OBVIOUS
  <1>3. d \in CompType
    BY <1>2 DEF CompType
  <1>4. /\ d.futureSamples = c.futureSamples /\ d.last = t
        /\ d.bIsFinished = c.bIsFinished /\ d.actualSet = c.actualSet
        /\ d.curActualVal = c.curActualVal /\ d.curIntvlVal = c.curIntvlVal
    BY <1>2 DEF CompType
  <1>5. c.futureSamples = <<>>
    BY <1>1 DEF CompOK
  <1>6. CompOK(d, a.curIntvlStart)
    <2>1. a.curIntvlStart <= t
      BY DEF AggOK, AggType, MayStart, NotSet
    <2>2. Ascending(<<>>, t)
      BY DEF Ascending
    <2> QED
      BY <1>4, <1>5, <2>1, <2>2 DEF CompOK
  <1>7. PICK b : b = [a EXCEPT !.comps[k] = d]
    OBVIOUS
  <1>8. OneChanged(a, b, k, d)
    BY <1>3, <1>6, <1>7, OneComp
  <1>9. setInitialStartTime(a, k, t) = b
    <2>1. a \in AggType /\ a.comps \in Seq(CompType)
      BY CompsOf DEF AggOK
    <2> QED
      BY <1>1, <1>2, <1>7, <2>1 DEF setInitialStartTime, AggType
  <1>10. Given(d) = Given(c) /\ GivenUpTo(d) = t
    BY <1>4, <1>5 DEF Given, GivenUpTo, ActualVal
  <1> QED
    BY <1>1, <1>4, <1>8, <1>9, <1>10 DEF OneChanged

LEMMA AddOne ==
    ASSUME NEW r \in AddedType, r.ok, AggOK(r.agg), NEW k \in 1 .. Len(r.agg.comps),
           ~r.agg.comps[k].bIsFinished, NEW e \in IntvlType,
           r.agg.comps[k].last # NotSet => e.start = GivenUpTo(r.agg.comps[k])
    PROVE  LET s == AddEntry(r, k, e)
           IN  /\ s \in AddedType
               /\ s.ok => \E es, o \in Seq(IntvlType) :
                     es = <<e>> /\ EntriesFed(r.agg, s.agg, k, es, o) /\ s.out = r.out \o o
  <1>1. e.start \in Nat /\ e.end \in Nat /\ e.value \in Int /\ e.start < e.end
    BY DEF IntvlType
  <1>2. PICK a : a = r.agg
    OBVIOUS
  <1>3. a \in AggType /\ r.out \in Seq(IntvlType)
    BY <1>2 DEF AddedType
  <1> DEFINE first == a.comps[k].last = NotSet
  <1>4. PICK b : b = IF first THEN setInitialStartTime(a, k, e.start) ELSE a
    OBVIOUS
  <1>5. CASE first /\ ~MayStart(a, e.start)
    <2>1. AddEntry(r, k, e) = [r EXCEPT !.ok = FALSE]
      BY <1>2, <1>5 DEF AddEntry
    <2>2. [r EXCEPT !.ok = FALSE] \in AddedType /\ ~[r EXCEPT !.ok = FALSE].ok
      BY DEF AddedType
    <2> QED
      BY <2>1, <2>2
  <1>6. CASE ~(first /\ ~MayStart(a, e.start))
    <2>1. /\ AggOK(b) /\ Len(b.comps) = Len(a.comps) /\ b.width = a.width
          /\ b.lastActualVal = a.lastActualVal /\ (Summed(a) => Summed(b))
          /\ \A i \in 1 .. Len(a.comps) : i # k => b.comps[i] = a.comps[i]
          /\ b.comps[k].last # NotSet
          /\ GivenUpTo(b.comps[k]) = e.start
          /\ Given(b.comps[k]) = Given(a.comps[k])
          /\ b.comps[k].bIsFinished = a.comps[k].bIsFinished
      <3>1. CASE first
        <4>1. MayStart(a, e.start) /\ b = setInitialStartTime(a, k, e.start)
          BY <1>4, <1>6, <3>1
        <4>2. e.start # NotSet
          BY <1>1 DEF NotSet
        <4> QED
          BY <1>1, <1>2, <3>1, <4>1, <4>2, StartTimeSet, SMTT(20)
      <3>2. CASE ~first
        BY <1>2, <1>4, <3>2
      <3> QED
        BY <3>1, <3>2
    <2>2. PICK s \in SampleType : s = [time |-> e.end, value |-> e.value]
      BY <1>1 DEF SampleType
    <2>3. PICK c, o : c = (IF currently_enabling THEN addSamplePt(b, k, s)
                           ELSE aggregateAll(addSamplePt(b, k, s), MaxReading).agg)
                   /\ o = (IF currently_enabling THEN <<>>
                           ELSE aggregateAll(addSamplePt(b, k, s), MaxReading).out)
      OBVIOUS
    <2>4. Fed(b, c, k, e.value, e.end, o)
      <3>1. /\ k \in 1 .. Len(b.comps) /\ ~b.comps[k].bIsFinished
            /\ GivenUpTo(b.comps[k]) < s.time /\ s.time = e.end /\ s.value = e.value
            /\ MaxReading \in Nat
        BY <1>1, <1>2, <2>1, <2>2, CollectionAssumption
      <3>2. CASE currently_enabling
        BY <2>1, <2>3, <3>1, <3>2, AddSampleFeeds
      <3>3. CASE ~currently_enabling
        BY <2>1, <2>3, <3>1, <3>3, FeedOne
      <3> QED
        BY <3>2, <3>3
    <2>5. AddEntry(r, k, e) = [r EXCEPT !.agg = c, !.out = @ \o o]
      <3>1. CASE currently_enabling
        BY <1>2, <1>4, <1>6, <2>2, <2>3, <3>1 DEF AddEntry
      <3>2. CASE ~currently_enabling
        BY <1>2, <1>4, <1>6, <2>2, <2>3, <3>2 DEF AddEntry
      <3> QED
        BY <3>1, <3>2
    <2>6. PICK es \in Seq(IntvlType) : es = <<e>> /\ Len(es) = 1 /\ es[1] = e /\ es # <<>>
      <3>1. <<e>> \in Seq(IntvlType)
        OBVIOUS
      <3> QED
        BY <3>1
    <2>7. o \in Seq(IntvlType) /\ c \in AggType
      BY <2>4 DEF Fed, Emits, AggOK
    <2>8. EntriesFed(a, c, k, es, o)
      <3>1. Values(es) = e.value /\ NextOf(es, GivenUpTo(a.comps[k])) = e.end
        BY <2>6, AreValued, ValuesOne DEF NextOf
      <3>2. \A i \in 1 .. Len(a.comps) : i # k => SameComp(a.comps[i], c.comps[i])
        BY <2>1, <2>4 DEF Fed
      <3> QED
        BY <2>1, <2>4, <2>6, <3>1, <3>2 DEF EntriesFed, Fed, Emits
    <2>9. r.out \o o \in Seq(IntvlType)
      BY <1>3, <2>7, ConcatProperties
    <2>10. [r EXCEPT !.agg = c, !.out = @ \o o] \in AddedType
      BY <2>7, <2>9 DEF AddedType
    <2>11. /\ [r EXCEPT !.agg = c, !.out = @ \o o].agg = c
           /\ [r EXCEPT !.agg = c, !.out = @ \o o].out = r.out \o o
      BY DEF AddedType
    <2> QED
      BY <1>2, <2>5, <2>6, <2>7, <2>8, <2>10, <2>11
  <1> QED
    BY <1>5, <1>6

LEMMA NextOfBoth ==
    ASSUME NEW es \in Seq(IntvlType), NEW fs \in Seq(IntvlType), NEW t
    PROVE  /\ es \o fs \in Seq(IntvlType)
           /\ NextOf(es \o fs, t) = NextOf(fs, NextOf(es, t))
           /\ es \o fs = <<>> <=> es = <<>> /\ fs = <<>>
           /\ es # <<>> => (es \o fs)[1] = es[1]
           /\ es = <<>> => es \o fs = fs
  <1>1. /\ es \o fs \in Seq(IntvlType) /\ Len(es \o fs) = Len(es) + Len(fs)
        /\ Len(es) \in Nat /\ Len(fs) \in Nat
        /\ \A i \in 1 .. Len(es) + Len(fs) :
              (es \o fs)[i] = IF i <= Len(es) THEN es[i] ELSE fs[i - Len(es)]
    BY ConcatProperties
  <1>2. (es = <<>> <=> Len(es) = 0) /\ (fs = <<>> <=> Len(fs) = 0)
        /\ (es \o fs = <<>> <=> Len(es \o fs) = 0)
    BY <1>1, EmptySeq
  <1>3. es = <<>> => es \o fs = fs
    OBVIOUS
  <1>4. es # <<>> => (es \o fs)[1] = es[1]
    BY <1>1, <1>2
  <1>5. CASE fs = <<>>
    BY <1>1, <1>2, <1>3, <1>4, <1>5, ConcatEmptySeq DEF NextOf
  <1>6. CASE fs # <<>>
    <2>1. Len(es) + Len(fs) \in 1 .. Len(es) + Len(fs) /\ ~(Len(es) + Len(fs) <= Len(es))
          /\ Len(es) + Len(fs) - Len(es) = Len(fs)
      BY <1>1, <1>2, <1>6
    <2>2. (es \o fs)[Len(es \o fs)] = fs[Len(fs)]
      BY <1>1, <2>1
    <2>3. es \o fs # <<>>
      BY <1>1, <1>2, <1>6
    <2> QED
      BY <1>1, <1>3, <1>4, <1>6, <2>2, <2>3 DEF NextOf
  <1> QED
    BY <1>5, <1>6

LEMMA EntriesBoth ==
    ASSUME NEW a \in AggType, NEW b, NEW c, NEW k \in 1 .. Len(a.comps),
           NEW es \in Seq(IntvlType), NEW fs \in Seq(IntvlType), NEW o, NEW p,
           EntriesFed(a, b, k, es, o), EntriesFed(b, c, k, fs, p)
    PROVE  EntriesFed(a, c, k, es \o fs, o \o p)
  <1>1. /\ AggOK(b) /\ AggOK(c) /\ c.width = a.width
        /\ Len(b.comps) = Len(a.comps) /\ Len(c.comps) = Len(a.comps)
        /\ Summed(a) => Summed(c) /\ c.comps[k].bIsFinished = a.comps[k].bIsFinished
    BY DEF EntriesFed
  <1>2. \A i \in 1 .. Len(a.comps) : i # k => SameComp(a.comps[i], c.comps[i])
    BY DEF EntriesFed, SameComp
  <1>3. Given(c.comps[k]) = Given(a.comps[k]) + Values(es \o fs)
    <2>1. a.comps[k] \in CompType
      BY CompsOf
    <2>2. Given(a.comps[k]) \in Int
      BY <2>1, GivenType
    <2>3. Values(es) \in Int /\ Values(fs) \in Int /\ Values(es \o fs) = Values(es) + Values(fs)
      BY AreValued, ValuesType, ValuesAdd
    <2>4. /\ Given(c.comps[k]) = Given(b.comps[k]) + Values(fs)
          /\ Given(b.comps[k]) = Given(a.comps[k]) + Values(es)
      BY DEF EntriesFed
    <2> QED
      BY <2>2, <2>3, <2>4
  <1>4. /\ GivenUpTo(c.comps[k]) = NextOf(es \o fs, GivenUpTo(a.comps[k]))
        /\ c.comps[k].last = NotSet => a.comps[k].last = NotSet /\ es \o fs = <<>>
    BY NextOfBoth DEF EntriesFed
  <1>5. o \o p \in Seq(IntvlType) /\ Values(o \o p) = c.lastActualVal - a.lastActualVal
    <2>1. /\ o \in Seq(IntvlType) /\ p \in Seq(IntvlType)
          /\ Values(o) = b.lastActualVal - a.lastActualVal
          /\ Values(p) = c.lastActualVal - b.lastActualVal
      BY DEF EntriesFed
    <2>2. o \o p \in Seq(IntvlType)
      BY <2>1, ConcatProperties
    <2>3. Values(o \o p) = Values(o) + Values(p)
      BY <2>1, AreValued, ValuesAdd
    <2>4. a.lastActualVal \in Int /\ b.lastActualVal \in Int /\ c.lastActualVal \in Int
      BY <1>1 DEF AggOK, AggType
    <2> QED
      BY <2>1, <2>2, <2>3, <2>4
  <1> QED
    BY <1>1, <1>2, <1>3, <1>4, <1>5 DEF EntriesFed

LEMMA NothingFed ==
    ASSUME NEW a, AggOK(a), NEW k \in 1 .. Len(a.comps)
    PROVE  EntriesFed(a, a, k, <<>>, <<>>)
  <1>1. <<>> \in Seq(IntvlType) /\ Values(<<>>) = 0
    BY ValuesEmpty
  <1>2. PICK e \in Seq(IntvlType) : e = <<>> /\ Values(e) = 0
    BY <1>1
  <1>3. a \in AggType /\ a.lastActualVal \in Int /\ a.comps[k] \in CompType
    BY CompsOf DEF AggOK, AggType
  <1>4. Given(a.comps[k]) \in Int
    BY <1>3, GivenType
  <1>5. EntriesFed(a, a, k, e, e)
    BY <1>2, <1>3, <1>4 DEF EntriesFed, SameComp, NextOf
  <1> QED
    BY <1>2, <1>5

(* What is up to when a component was given samples, when it has started.  *)
LEMMA GivenUpToSet ==
    ASSUME NEW c \in CompType
    PROVE  /\ GivenUpTo(c) \in Nat \union {NotSet}
           /\ c.last # NotSet => GivenUpTo(c) # NotSet
  <1>1. c.futureSamples \in Seq(SampleType) /\ c.last \in Nat \union {NotSet}
    BY DEF CompType
  <1>2. CASE c.futureSamples = <<>>
    BY <1>1, <1>2 DEF GivenUpTo
  <1>3. CASE c.futureSamples # <<>>
    <2>1. Len(c.futureSamples) \in 1 .. Len(c.futureSamples)
      BY <1>1, <1>3, EmptySeq
    <2>2. c.futureSamples[Len(c.futureSamples)] \in SampleType
      BY <1>1, <2>1
    <2>3. c.futureSamples[Len(c.futureSamples)].time \in Nat
      BY <2>2 DEF SampleType
    <2> QED
      BY <1>3, <2>3 DEF GivenUpTo, NotSet
  <1> QED
    BY <1>2, <1>3

(* All entries of a batch are added.                                       *)
LEMMA AddMany ==
    ASSUME NEW a, AggOK(a), NEW k \in 1 .. Len(a.comps), ~a.comps[k].bIsFinished,
           NEW es \in Seq(IntvlType), Contiguous(es),
           es # <<>> /\ GivenUpTo(a.comps[k]) # NotSet
              => es[1].start = GivenUpTo(a.comps[k])
    PROVE  LET r == AddEntries(a, k, es)
           IN  r \in AddedType /\ (r.ok => EntriesFed(a, r.agg, k, es, r.out))
  <1> DEFINE n == Len(es)
             T == AddedType
             S == [i \in 0 .. n |-> {r \in T :
                      r.ok => EntriesFed(a, r.agg, k, SubSeq(es, 1, i), r.out)}]
             x == [agg |-> a, out |-> <<>>, ok |-> TRUE]
             step == [i \in 1 .. n |-> [r \in T |-> AddEntry(r, k, es[i])]]
             Def(g) == [i \in 0 .. n |-> IF i = 0 THEN x ELSE AddEntry(g[i - 1], k, es[i])]
             f == CHOOSE g : g = Def(g)
  <1>1. a \in AggType /\ n \in Nat /\ \A i \in 1 .. n : es[i] \in IntvlType
    BY DEF AggOK
  <1>2. x \in T /\ x.ok /\ EntriesFed(a, x.agg, k, SubSeq(es, 1, 0), x.out)
    <2>1. <<>> \in Seq(IntvlType) /\ SubSeq(es, 1, 0) = <<>>
      BY SubSeqEmpty
    <2>2. x \in T
      BY <1>1, <2>1 DEF AddedType
    <2> QED
      BY <2>1, <2>2, NothingFed
  <1>3. ASSUME NEW i \in 1 .. n, NEW r \in T,
               r.ok => EntriesFed(a, r.agg, k, SubSeq(es, 1, i - 1), r.out)
        PROVE  LET s == AddEntry(r, k, es[i])
               IN  s \in T /\ (s.ok => EntriesFed(a, s.agg, k, SubSeq(es, 1, i), s.out))
    <2>1. CASE ~r.ok
      <3>1. AddEntry(r, k, es[i]) = [r EXCEPT !.ok = FALSE]
        BY <2>1 DEF AddEntry
      <3>2. [r EXCEPT !.ok = FALSE] \in AddedType /\ ~[r EXCEPT !.ok = FALSE].ok
        BY DEF AddedType
      <3> QED
        BY <3>1, <3>2
    <2>2. CASE r.ok
      <3>1. PICK b, o : b = r.agg /\ o = r.out
        OBVIOUS
      <3>2. PICK q \in Seq(IntvlType) : q = SubSeq(es, 1, i - 1)
        <4>1. SubSeq(es, 1, i - 1) \in Seq(IntvlType)
          BY <1>1, SubSeqProperties
        <4> QED
          BY <4>1
      <3>3. EntriesFed(a, b, k, q, o)
        BY <1>3, <2>2, <3>1, <3>2
      <3>4. /\ AggOK(b) /\ k \in 1 .. Len(b.comps) /\ ~b.comps[k].bIsFinished
            /\ GivenUpTo(b.comps[k]) = NextOf(q, GivenUpTo(a.comps[k]))
        BY <3>3 DEF EntriesFed
      <3>5. b.comps[k].last # NotSet => es[i].start = GivenUpTo(b.comps[k])
        <4>1. SUFFICES ASSUME b.comps[k].last # NotSet PROVE es[i].start = GivenUpTo(b.comps[k])
          OBVIOUS
        <4>2. b.comps[k] \in CompType
          BY <3>4, CompsOf DEF AggOK
        <4>3. GivenUpTo(b.comps[k]) # NotSet
          BY <4>1, <4>2, GivenUpToSet
        <4>4. CASE i = 1
          <5>1. q = <<>>
            BY <3>2, <4>4, SubSeqEmpty
          <5>2. es # <<>>
            BY <1>1, <4>4, EmptySeq
          <5> QED
            BY <3>4, <4>3, <4>4, <5>1, <5>2 DEF NextOf
        <4>5. CASE i # 1
          <5>1. Len(q) = i - 1 /\ q[Len(q)] = es[i - 1] /\ i - 1 \in Nat \ {0}
            BY <1>1, <3>2, <4>5, SubSeqProperties
          <5>2. q # <<>>
            BY <5>1, EmptySeq
          <5>3. i \in 2 .. Len(es)
            BY <4>5
          <5>4. es[i].start = es[i - 1].end
            BY <5>3 DEF Contiguous
          <5> QED
            BY <3>4, <5>1, <5>2, <5>4 DEF NextOf
        <4> QED
          BY <4>4, <4>5
      <3>6. PICK s : s = AddEntry(r, k, es[i])
        OBVIOUS
      <3>7. /\ s \in AddedType
            /\ s.ok => \E e, p \in Seq(IntvlType) :
                  e = <<es[i]>> /\ EntriesFed(r.agg, s.agg, k, e, p) /\ s.out = r.out \o p
        BY <1>1, <2>2, <3>1, <3>4, <3>5, <3>6, AddOne
      <3>8. ASSUME s.ok PROVE EntriesFed(a, s.agg, k, SubSeq(es, 1, i), s.out)
        <4>1. PICK e \in Seq(IntvlType), p \in Seq(IntvlType) :
                 e = <<es[i]>> /\ EntriesFed(b, s.agg, k, e, p) /\ s.out = o \o p
          BY <3>1, <3>7, <3>8
        <4>2. SubSeq(es, 1, i) = q \o e
          <5>1. 1 \in 1 .. Len(es) /\ i \in 1 .. Len(es)
            BY <1>1
          <5> QED
            BY <3>2, <4>1, <5>1, SubSeqRecursiveSecond
        <4> QED
          BY <1>1, <3>3, <4>1, <4>2, EntriesBoth
      <3> QED
        BY <3>6, <3>7, <3>8
    <2> QED
      BY <2>1, <2>2
  <1>4. S \in [0 .. n -> SUBSET T] /\ x \in S[0]
    <2>1. S \in [0 .. n -> SUBSET T]
      OBVIOUS
    <2> HIDE DEF T, x
    <2> QED
      BY <1>2, <2>1
  <1>5. \A i \in 0 .. n : \A r : r \in S[i]
            <=> r \in T /\ (r.ok => EntriesFed(a, r.agg, k, SubSeq(es, 1, i), r.out))
    <2> HIDE DEF T
    <2> QED
      OBVIOUS
  <1>6. \A i \in 1 .. n : i - 1 \in 0 .. n /\ i \in 0 .. n
    OBVIOUS
  <1>7. \A i \in 1 .. n : \A r \in T : step[i][r] = AddEntry(r, k, es[i])
    <2> HIDE DEF T
    <2> QED
      OBVIOUS
  <1> HIDE DEF S, step, T
  <1>8. f = Def(f)
    <2>1. StepKeeps(n, S, step)
      BY <1>3, <1>5, <1>6, <1>7 DEF StepKeeps
    <2> HIDE DEF x
    <2>2. PICK g \in [0 .. n -> T] : IsLoop(n, S, x, step, g)
      BY <1>1, <1>4, <2>1, LoopExists
    <2>3. \A i \in 0 .. n : g[i] = IF i = 0 THEN x ELSE AddEntry(g[i - 1], k, es[i])
      <3>1. \A i \in 0 .. n : i # 0 => i \in 1 .. n /\ i - 1 \in 0 .. n
        OBVIOUS
      <3> QED
        BY <1>7, <2>2, <3>1 DEF IsLoop
    <2>4. g = Def(g)
      BY <2>2, <2>3
    <2> HIDE DEF Def
    <2> QED
      BY <2>4
  <1>9. AddEntries(a, k, es) = f[n]
    BY DEF AddEntries
  <1>10. f[0] = x /\ \A i \in 1 .. n : f[i] = AddEntry(f[i - 1], k, es[i])
    <2>1. Def(f)[0] = x /\ \A i \in 1 .. n : Def(f)[i] = AddEntry(f[i - 1], k, es[i])
      BY <1>1
    <2> HIDE DEF Def, f
    <2> QED
      BY <1>8, <2>1
  <1> HIDE DEF f, Def, x
  <1>11. Keeps(n, S, f)
    BY <1>3, <1>5, <1>6, <1>10 DEF Keeps
  <1>12. f[n] \in S[n]
    BY <1>1, <1>4, <1>10, <1>11, LoopKeeps
  <1>13. SubSeq(es, 1, n) = es
    BY SubSeqFull
  <1>14. n \in 0 .. n
    BY <1>1
  <1>15. f[n] \in AddedType /\ (f[n].ok => EntriesFed(a, f[n].agg, k, SubSeq(es, 1, n), f[n].out))
    BY <1>5, <1>12, <1>14 DEF T
  <1> QED
    BY <1>9, <1>13, <1>15

-----------------------------------------------------------------------------
(* Queues of messages.                                                     *)

(* The intervals in messages: those of two sequences are those of the first*)
(* and then those of the second.                                           *)
EntriesOf(m) == IF m.kind = "batch" THEN m.entries ELSE <<>>
Joined(x, y, z) == x = y \o z   \* x is y and z one after the other
Gathered(q, f) ==
    f = [i \in 0 .. Len(q) |->
            IF i = 0 THEN <<>>
            ELSE IF q[i].kind = "batch" THEN f[i - 1] \o q[i].entries ELSE f[i - 1]]

LEMMA MsgFacts ==
    ASSUME NEW m \in MsgType
    PROVE  /\ m.kind \in {"success", "failure", "initial", "end", "batch"}
           /\ EntriesOf(m) \in Seq(IntvlType)
           /\ m.kind # "batch" => m = [kind |-> m.kind]
  <1>1. CASE m \in [kind : {"success", "failure", "initial", "end"}]
    <2>1. <<>> \in Seq(IntvlType)
      OBVIOUS
    <2>2. m.kind \in {"success", "failure", "initial", "end"} /\ m = [kind |-> m.kind]
      BY <1>1
    <2>3. m.kind # "batch"
      BY <2>2
    <2> QED
      BY <2>1, <2>2, <2>3 DEF EntriesOf
  <1>2. CASE m \in [kind : {"batch"}, entries : Seq(IntvlType)]
    BY <1>2 DEF EntriesOf
  <1> QED
    BY <1>1, <1>2 DEF MsgType

LEMMA EntriesIs ==
    ASSUME NEW q \in Seq(MsgType)
    PROVE  \E f : Gathered(q, f) /\ EntriesIn(q) = f[Len(q)]
  <1> DEFINE n == Len(q)
             T == Seq(IntvlType)
             Next(x, i) == IF q[i].kind = "batch" THEN x \o q[i].entries ELSE x
             f == CHOOSE f : f = [i \in 0 .. Len(q) |->
                        IF i = 0 THEN <<>>
                        ELSE IF q[i].kind = "batch" THEN f[i - 1] \o q[i].entries ELSE f[i - 1]]
             S == [i \in 0 .. n |-> T]
             step == [i \in 1 .. n |-> [x \in T |-> Next(x, i)]]
  <1>1. \E g : g = [i \in 0 .. n |-> IF i = 0 THEN <<>> ELSE Next(g[i - 1], i)]
    <2>1. n \in Nat /\ <<>> \in T
      OBVIOUS
    <2>2. ASSUME NEW i \in 1 .. n, NEW x \in T PROVE Next(x, i) \in T
      <3>1. q[i] \in MsgType
        OBVIOUS
      <3>2. CASE q[i].kind = "batch"
        <4>1. q[i].entries \in Seq(IntvlType)
          BY <3>1, <3>2, MsgFacts DEF EntriesOf
        <4>2. x \o q[i].entries \in Seq(IntvlType)
          BY <4>1, ConcatProperties
        <4> QED
          BY <3>2, <4>2
      <3>3. CASE q[i].kind # "batch"
        BY <3>3
      <3> QED
        BY <3>2, <3>3
    <2> HIDE DEF Next, T
    <2>3. S \in [0 .. n -> SUBSET T] /\ <<>> \in S[0]
      BY <2>1
    <2>4. StepKeeps(n, S, step)
      BY <2>2 DEF StepKeeps
    <2>5. \A i \in 1 .. n : \A x \in S[i - 1] : step[i][x] = Next(x, i)
      OBVIOUS
    <2> HIDE DEF n, step
    <2>6. PICK g \in [0 .. n -> T] : IsLoop(n, S, <<>>, step, g)
      <3> HIDE DEF S
      <3> QED
        BY <2>1, <2>3, <2>4, LoopExists
    <2>7. \A i \in 0 .. n : g[i] = IF i = 0 THEN <<>> ELSE Next(g[i - 1], i)
      <3>1. \A i \in 0 .. n : i # 0 => i \in 1 .. n /\ i - 1 \in 0 .. n
        BY <2>1
      <3> HIDE DEF S
      <3> QED
        BY <2>5, <2>6, <3>1 DEF IsLoop
    <2>8. g = [i \in 0 .. n |-> IF i = 0 THEN <<>> ELSE Next(g[i - 1], i)]
      BY <2>6, <2>7
    <2> QED
      BY <2>8
  <1>2. Gathered(q, f)
    BY <1>1 DEF Gathered
  <1>3. EntriesIn(q) = f[Len(q)]
    BY DEF EntriesIn
  <1> HIDE DEF f
  <1> QED
    BY <1>2, <1>3

LEMMA GatherFacts ==
    ASSUME NEW q \in Seq(MsgType), NEW f, Gathered(q, f)
    PROVE  /\ f[0] = <<>>
           /\ \A i \in 1 .. Len(q) : Joined(f[i], f[i - 1], EntriesOf(q[i]))
           /\ \A i \in 0 .. Len(q) : f[i] \in Seq(IntvlType)
  <1> DEFINE Def == [i \in 0 .. Len(q) |->
                        IF i = 0 THEN <<>>
                        ELSE IF q[i].kind = "batch" THEN f[i - 1] \o q[i].entries ELSE f[i - 1]]
  <1>1. f = Def
    BY DEF Gathered
  <1>2. Def[0] = <<>> /\ \A i \in 1 .. Len(q) :
            Def[i] = IF q[i].kind = "batch" THEN f[i - 1] \o q[i].entries ELSE f[i - 1]
    OBVIOUS
  <1>3. f[0] = <<>> /\ \A i \in 1 .. Len(q) :
            f[i] = IF q[i].kind = "batch" THEN f[i - 1] \o q[i].entries ELSE f[i - 1]
    <2> HIDE DEF Def
    <2> QED
      BY <1>1, <1>2
  <1>4. ASSUME NEW i \in 1 .. Len(q), f[i - 1] \in Seq(IntvlType)
        PROVE  Joined(f[i], f[i - 1], EntriesOf(q[i])) /\ f[i] \in Seq(IntvlType)
    <2>1. EntriesOf(q[i]) \in Seq(IntvlType)
      BY MsgFacts
    <2>2. f[i - 1] \o <<>> = f[i - 1]
      BY <1>4, ConcatEmptySeq
    <2>3. f[i] = f[i - 1] \o EntriesOf(q[i])
      <3>1. CASE q[i].kind = "batch"
        BY <1>3, <3>1 DEF EntriesOf
      <3>2. CASE q[i].kind # "batch"
        BY <1>3, <2>2, <3>2 DEF EntriesOf
      <3> QED
        BY <3>1, <3>2
    <2> QED
      BY <1>4, <2>1, <2>3, ConcatProperties DEF Joined
  <1> DEFINE Q == {i \in Nat : i <= Len(q) => f[i] \in Seq(IntvlType)}
  <1>5. Nat \subseteq Q
    <2>1. 0 \in Q
      <3>1. <<>> \in Seq(IntvlType) /\ f[0] = <<>>
        BY <1>3
      <3> QED
        BY <3>1
    <2>2. ASSUME NEW i \in Q \intersect Nat PROVE i + 1 \in Q
      <3>1. CASE i + 1 <= Len(q)
        <4>1. i + 1 \in 1 .. Len(q) /\ f[i] \in Seq(IntvlType) /\ (i + 1) - 1 = i
          BY <3>1
        <4> QED
          BY <1>4, <4>1
      <3> QED
        BY <3>1
    <2> HIDE DEF Q
    <2> QED
      BY <2>1, <2>2, NatSetInduction
  <1>6. \A i \in 0 .. Len(q) : f[i] \in Seq(IntvlType)
    BY <1>5
  <1>7. \A i \in 1 .. Len(q) : Joined(f[i], f[i - 1], EntriesOf(q[i]))
    <2>1. \A i \in 1 .. Len(q) : i - 1 \in 0 .. Len(q)
      OBVIOUS
    <2> QED
      BY <1>4, <1>6, <2>1
  <1> QED
    BY <1>3, <1>6, <1>7

LEMMA EntriesType ==
    ASSUME NEW q \in Seq(MsgType)
    PROVE  EntriesIn(q) \in Seq(IntvlType)
  <1>1. PICK f : Gathered(q, f) /\ EntriesIn(q) = f[Len(q)]
    BY EntriesIs
  <1> QED
    BY <1>1, GatherFacts

LEMMA IntvlsJoin ==
    ASSUME NEW s \in Seq(IntvlType), NEW t \in Seq(IntvlType), NEW u \in Seq(IntvlType)
    PROVE  (s \o t) \o u = s \o (t \o u)
  BY ConcatAssociative

LEMMA EntriesConcat ==
    ASSUME NEW q \in Seq(MsgType), NEW r \in Seq(MsgType)
    PROVE  EntriesIn(q \o r) = EntriesIn(q) \o EntriesIn(r)
  <1>1. PICK n \in Nat, k \in Nat : n = Len(q) /\ k = Len(r)
    OBVIOUS
  <1>2. PICK u \in Seq(MsgType) : u = q \o r
    <2>1. q \o r \in Seq(MsgType)
      BY ConcatProperties
    <2> QED
      BY <2>1
  <1>3. /\ Len(u) = n + k /\ \A i \in 1 .. n : u[i] = q[i]
        /\ \A i \in 1 .. k : u[n + i] = r[i]
    BY <1>1, <1>2, ConcatProperties
  <1>4. PICK f : Gathered(q, f) /\ EntriesIn(q) = f[n]
    BY <1>1, EntriesIs
  <1>5. PICK g : Gathered(r, g) /\ EntriesIn(r) = g[k]
    BY <1>1, EntriesIs
  <1>6. PICK h : Gathered(u, h) /\ EntriesIn(u) = h[n + k]
    BY <1>3, EntriesIs
  <1>7. /\ f[0] = <<>> /\ \A i \in 1 .. n : Joined(f[i], f[i - 1], EntriesOf(q[i]))
        /\ \A i \in 0 .. n : f[i] \in Seq(IntvlType)
    BY <1>1, <1>4, GatherFacts
  <1>8. /\ g[0] = <<>> /\ \A i \in 1 .. k : Joined(g[i], g[i - 1], EntriesOf(r[i]))
        /\ \A i \in 0 .. k : g[i] \in Seq(IntvlType)
    BY <1>1, <1>5, GatherFacts
  <1>9. /\ h[0] = <<>> /\ \A i \in 1 .. n + k : Joined(h[i], h[i - 1], EntriesOf(u[i]))
    <2>1. /\ h[0] = <<>> /\ \A i \in 1 .. Len(u) : Joined(h[i], h[i - 1], EntriesOf(u[i]))
      BY <1>6, GatherFacts
    <2> QED
      BY <1>3, <2>1
  <1> DEFINE Q == {i \in Nat : i <= n => h[i] = f[i]}
             R == {i \in Nat : i <= k => Joined(h[n + i], f[n], g[i])}
  <1>10. Nat \subseteq Q
    <2>1. 0 \in Q
      BY <1>7, <1>9
    <2>2. ASSUME NEW i \in Q \intersect Nat PROVE i + 1 \in Q
      <3>1. CASE i + 1 <= n
        <4>1. i + 1 \in 1 .. n /\ i + 1 \in 1 .. n + k /\ h[i] = f[i] /\ (i + 1) - 1 = i
          BY <3>1
        <4> QED
          <5>1. /\ Joined(f[i + 1], f[i], EntriesOf(q[i + 1])) /\ u[i + 1] = q[i + 1]
                /\ Joined(h[i + 1], h[i], EntriesOf(u[i + 1]))
            BY <1>3, <1>7, <1>9, <4>1
          <5>2. h[i + 1] = f[i + 1]
            BY <4>1, <5>1 DEF Joined
          <5> QED
            BY <5>2
      <3> QED
        BY <3>1
    <2> HIDE DEF Q
    <2> QED
      BY <2>1, <2>2, NatSetInduction
  <1>11. h[n] = f[n] /\ f[n] \in Seq(IntvlType)
    BY <1>7, <1>10
  <1>12. Nat \subseteq R
    <2>1. 0 \in R
      <3>1. f[n] \o <<>> = f[n]
        BY <1>11, ConcatEmptySeq
      <3> QED
        <4>1. n + 0 = n /\ Joined(h[n], f[n], <<>>)
          BY <1>11, <3>1 DEF Joined
        <4> QED
          BY <1>8, <4>1
    <2>2. ASSUME NEW i \in R \intersect Nat PROVE i + 1 \in R
      <3>1. CASE i + 1 <= k
        <4>1. /\ i + 1 \in 1 .. k /\ n + (i + 1) \in 1 .. n + k /\ (i + 1) - 1 = i
              /\ (n + (i + 1)) - 1 = n + i /\ i \in 0 .. k
          BY <3>1
        <4>2. Joined(h[n + i], f[n], g[i])
          BY <3>1
        <4>3. Joined(h[n + (i + 1)], h[n + i], EntriesOf(u[n + (i + 1)]))
          BY <1>9, <4>1
        <4>4. Joined(g[i + 1], g[i], EntriesOf(r[i + 1]))
          BY <1>8, <4>1
        <4>5. u[n + (i + 1)] = r[i + 1]
          BY <1>3, <4>1
        <4>6. EntriesOf(r[i + 1]) \in Seq(IntvlType) /\ g[i] \in Seq(IntvlType)
          BY <1>1, <1>8, <4>1, MsgFacts
        <4>7. PICK x \in Seq(IntvlType), y \in Seq(IntvlType), z \in Seq(IntvlType) :
                 x = f[n] /\ y = g[i] /\ z = EntriesOf(r[i + 1])
          BY <1>11, <4>6
        <4>8. (x \o y) \o z = x \o (y \o z)
          BY IntvlsJoin
        <4>9. Joined(h[n + (i + 1)], f[n], g[i + 1])
          BY <4>2, <4>3, <4>4, <4>5, <4>7, <4>8 DEF Joined
        <4> QED
          BY <4>9
      <3> QED
        BY <3>1
    <2> HIDE DEF R
    <2> QED
      BY <2>1, <2>2, NatSetInduction
  <1>13. Joined(h[n + k], f[n], g[k])
    BY <1>12
  <1> QED
    BY <1>2, <1>4, <1>5, <1>6, <1>13 DEF Joined

LEMMA EntriesEmpty == EntriesIn(<<>>) = <<>>
  <1>1. PICK q \in Seq(MsgType) : q = <<>> /\ Len(q) = 0
    <2>1. <<>> \in Seq(MsgType)
      OBVIOUS
    <2> QED
      BY <2>1
  <1>2. PICK f : Gathered(q, f) /\ EntriesIn(q) = f[Len(q)]
    BY EntriesIs
  <1> QED
    BY <1>1, <1>2, GatherFacts

LEMMA EntriesOne ==
    ASSUME NEW m \in MsgType
    PROVE  EntriesIn(<<m>>) = EntriesOf(m)
  <1>1. PICK q \in Seq(MsgType) : q = <<m>> /\ Len(q) = 1 /\ q[1] = m
    <2>1. <<m>> \in Seq(MsgType)
      OBVIOUS
    <2> QED
      BY <2>1
  <1>2. PICK f : Gathered(q, f) /\ EntriesIn(q) = f[Len(q)]
    BY EntriesIs
  <1>3. f[0] = <<>> /\ Joined(f[1], f[0], EntriesOf(m))
    <2>1. 1 - 1 = 0 /\ 1 \in 1 .. Len(q)
      BY <1>1
    <2> QED
      BY <1>1, <1>2, <2>1, GatherFacts
  <1>4. <<>> \o EntriesOf(m) = EntriesOf(m)
    BY MsgFacts, ConcatEmptySeq
  <1> QED
    BY <1>1, <1>2, <1>3, <1>4 DEF Joined

(* A queue of messages: what it begins with and what is put behind it.     *)
LEMMA QueueHead ==
    ASSUME NEW T, NEW q \in Seq(T), q # <<>>
    PROVE  Head(q) \in T /\ Tail(q) \in Seq(T) /\ <<Head(q)>> \in Seq(T)
           /\ q = <<Head(q)>> \o Tail(q)
  <1>1. Head(q) \in T /\ Tail(q) \in Seq(T) /\ Len(q) \in Nat \ {0} /\ Len(Tail(q)) = Len(q) - 1
        /\ \A i \in 1 .. Len(Tail(q)) : Tail(q)[i] = q[i + 1]
    BY EmptySeq, HeadTailProperties
  <1>2. <<Head(q)>> \in Seq(T) /\ Head(q) = q[1]
    BY <1>1
  <1>3. PICK h \in Seq(T) : h = <<Head(q)>> /\ Len(h) = 1 /\ h[1] = q[1]
    BY <1>2
  <1>4. PICK t \in Seq(T) : t = Tail(q)
    BY <1>1
  <1>5. /\ h \o t \in Seq(T) /\ Len(h \o t) = Len(q)
        /\ \A i \in 1 .. Len(q) : (h \o t)[i] = q[i]
    <2>1. /\ h \o t \in Seq(T) /\ Len(h \o t) = Len(h) + Len(t)
          /\ \A i \in 1 .. Len(h) + Len(t) :
                (h \o t)[i] = IF i <= Len(h) THEN h[i] ELSE t[i - Len(h)]
      BY ConcatProperties
    <2>2. Len(h) + Len(t) = Len(q)
      BY <1>1, <1>3, <1>4
    <2>3. ASSUME NEW i \in 1 .. Len(q) PROVE (h \o t)[i] = q[i]
      <3>1. CASE i = 1
        BY <1>3, <2>1, <2>2, <3>1
      <3>2. CASE i # 1
        <4>1. i - 1 \in 1 .. Len(Tail(q)) /\ (i - 1) + 1 = i /\ ~(i <= Len(h))
          BY <1>1, <1>3, <3>2
        <4> QED
          BY <1>1, <1>3, <1>4, <2>1, <2>2, <4>1
      <3> QED
        BY <3>1, <3>2
    <2> QED
      BY <2>1, <2>2, <2>3
  <1>6. h \o t = q
    BY <1>5, SeqEqual
  <1> QED
    BY <1>1, <1>2, <1>3, <1>4, <1>6

LEMMA KindsBoth ==
    ASSUME NEW q \in Seq(MsgType), NEW r \in Seq(MsgType)
    PROVE  /\ q \o r \in Seq(MsgType)
           /\ NoAnswer(q \o r) <=> NoAnswer(q) /\ NoAnswer(r)
           /\ Ended(q \o r) <=> Ended(q) \/ Ended(r)
  <1>1. PICK n \in Nat, k \in Nat : n = Len(q) /\ k = Len(r)
    OBVIOUS
  <1>2. PICK u \in Seq(MsgType) : u = q \o r
    <2>1. q \o r \in Seq(MsgType)
      BY ConcatProperties
    <2> QED
      BY <2>1
  <1>3. /\ Len(u) = n + k /\ \A i \in 1 .. n : u[i] = q[i]
        /\ \A i \in n + 1 .. n + k : u[i] = r[i - n]
    BY <1>1, <1>2, ConcatProperties
  <1>4. \A i \in 1 .. k : u[n + i] = r[i] /\ n + i \in 1 .. n + k
    <2>1. \A i \in 1 .. k : n + i \in n + 1 .. n + k /\ (n + i) - n = i /\ n + i \in 1 .. n + k
      OBVIOUS
    <2> QED
      BY <1>3, <2>1
  <1>5. \A i \in 1 .. n : i \in 1 .. n + k
    OBVIOUS
  <1>6. \A i \in 1 .. n + k : i \in 1 .. n \/ (i \in n + 1 .. n + k /\ i - n \in 1 .. k)
    OBVIOUS
  <1>7. NoAnswer(u) <=> NoAnswer(q) /\ NoAnswer(r)
    <2>1. ASSUME NoAnswer(u) PROVE NoAnswer(q) /\ NoAnswer(r)
      <3>1. \A i \in 1 .. n + k : u[i].kind \notin {"success", "failure"}
        BY <1>3, <2>1 DEF NoAnswer
      <3>2. \A i \in 1 .. n : q[i].kind \notin {"success", "failure"}
        BY <1>3, <1>5, <3>1
      <3>3. \A i \in 1 .. k : r[i].kind \notin {"success", "failure"}
        BY <1>4, <3>1
      <3> QED
        BY <1>1, <3>2, <3>3 DEF NoAnswer
    <2>2. ASSUME NoAnswer(q), NoAnswer(r) PROVE NoAnswer(u)
      <3>1. /\ \A i \in 1 .. n : q[i].kind \notin {"success", "failure"}
            /\ \A i \in 1 .. k : r[i].kind \notin {"success", "failure"}
        BY <1>1, <2>2 DEF NoAnswer
      <3>2. ASSUME NEW i \in 1 .. n + k PROVE u[i].kind \notin {"success", "failure"}
        BY <1>3, <1>6, <3>1
      <3> QED
        BY <1>3, <3>2 DEF NoAnswer
    <2> QED
      BY <2>1, <2>2
  <1>8. Ended(u) <=> Ended(q) \/ Ended(r)
    <2>1. ASSUME Ended(u) PROVE Ended(q) \/ Ended(r)
      <3>1. PICK i \in 1 .. n + k : u[i].kind = "end"
        BY <1>3, <2>1 DEF Ended
      <3>2. (\E j \in 1 .. n : q[j].kind = "end") \/ \E j \in 1 .. k : r[j].kind = "end"
        BY <1>3, <1>6, <3>1
      <3> QED
        BY <1>1, <3>2 DEF Ended
    <2>2. ASSUME Ended(q) PROVE Ended(u)
      <3>1. PICK i \in 1 .. n : q[i].kind = "end"
        BY <1>1, <2>2 DEF Ended
      <3>2. i \in 1 .. n + k /\ u[i].kind = "end"
        BY <1>3, <1>5, <3>1
      <3> QED
        BY <1>3, <3>2 DEF Ended
    <2>3. ASSUME Ended(r) PROVE Ended(u)
      <3>1. PICK i \in 1 .. k : r[i].kind = "end"
        BY <1>1, <2>3 DEF Ended
      <3>2. n + i \in 1 .. n + k /\ u[n + i].kind = "end"
        BY <1>4, <3>1
      <3> QED
        BY <1>3, <3>2 DEF Ended
    <2> QED
      BY <2>1, <2>2, <2>3
  <1> QED
    BY <1>2, <1>7, <1>8

LEMMA KindsOne ==
    ASSUME NEW m \in MsgType
    PROVE  /\ <<m>> \in Seq(MsgType)
           /\ NoAnswer(<<m>>) <=> m.kind \notin {"success", "failure"}
           /\ Ended(<<m>>) <=> m.kind = "end"
           /\ NoAnswer(<<>>) /\ ~Ended(<<>>)
  <1>1. <<m>> \in Seq(MsgType)
    OBVIOUS
  <1>2. PICK q \in Seq(MsgType) : q = <<m>> /\ Len(q) = 1 /\ q[1] = m
    BY <1>1
  <1>3. \A i : i \in 1 .. 1 <=> i = 1
    OBVIOUS
  <1>4. NoAnswer(q) <=> m.kind \notin {"success", "failure"}
    BY <1>2, <1>3 DEF NoAnswer
  <1>5. Ended(q) <=> m.kind = "end"
    BY <1>2, <1>3 DEF Ended
  <1>6. NoAnswer(<<>>) /\ ~Ended(<<>>)
    BY DEF NoAnswer, Ended
  <1> QED
    BY <1>2, <1>4, <1>5, <1>6

-----------------------------------------------------------------------------
(* Messages that follow what was given.                                    *)
LEMMA FollowsEnd ==
    ASSUME NEW n, NEW q \in Seq(MsgType), NEW g, NEW u, Follows(n, q, g, u),
           NEW k, ~k.exists, NEW m \in MsgType, m.kind = "end"
    PROVE  Follows(k, q \o <<m>>, g, u)
  <1>1. PICK r \in Seq(MsgType) : r = <<m>> /\ NoAnswer(r) /\ Ended(r)
    BY KindsOne
  <1>2. EntriesIn(r) = <<>>
    BY <1>1, EntriesOne DEF EntriesOf
  <1>3. EntriesIn(q \o r) = EntriesIn(q)
    <2>1. EntriesIn(q \o r) = EntriesIn(q) \o EntriesIn(r)
      BY EntriesConcat
    <2>2. EntriesIn(q) \o <<>> = EntriesIn(q)
      BY EntriesType, ConcatEmptySeq
    <2> QED
      BY <1>2, <2>1, <2>2
  <1>4. NoAnswer(q \o r) /\ Ended(q \o r)
    BY <1>1, KindsBoth DEF Follows
  <1>5. Follows(k, q \o r, g, u)
    BY <1>3, <1>4 DEF Follows
  <1> QED
    BY <1>1, <1>5

LEMMA FirstStartIs ==
    ASSUME NEW a, a.curIntvlStart # NotSet
    PROVE  FirstStart(a) = a.curIntvlStart
  BY DEF FirstStart

LEMMA EndOf ==
    ASSUME NEW es \in Seq(IntvlType), es # <<>>, NEW t
    PROVE  NextOf(es, t) = es[Len(es)].end /\ NextOf(es, t) # NotSet
  <1>1. Len(es) \in 1 .. Len(es)
    BY EmptySeq
  <1>2. es[Len(es)] \in IntvlType
    BY <1>1
  <1>3. es[Len(es)].end \in Nat
    BY <1>2 DEF IntvlType
  <1> QED
    BY <1>3 DEF NextOf, NotSet

LEMMA FollowsMore ==
    ASSUME NEW n, n.exists, n.agg \in AggType, NEW q \in Seq(MsgType), NEW g \in Int, NEW u,
           Follows(n, q, g, u),
           NEW k, k.exists, k.agg \in AggType, NEW out, Emits(n.agg, k.agg, out),
           NEW r \in Seq(MsgType), NoAnswer(r), ~Ended(r), EntriesIn(r) = out
    PROVE  Follows(k, q \o r, g, u)
  <1>1. PICK es \in Seq(IntvlType) : es = EntriesIn(q)
    BY EntriesType
  <1>2. /\ NoAnswer(q) /\ ~Ended(q) /\ Contiguous(es)
        /\ es # <<>> /\ u # NotSet => es[1].start = u
        /\ n.agg.lastActualVal = g + Values(es)
        /\ NextOf(es, u) # NotSet => n.agg.curIntvlStart = NextOf(es, u)
    BY <1>1 DEF Follows
  <1>3. /\ out \in Seq(IntvlType) /\ Contiguous(out)
        /\ Values(out) = k.agg.lastActualVal - n.agg.lastActualVal
        /\ n.agg.curIntvlStart # NotSet => k.agg.curIntvlStart # NotSet
        /\ out = <<>> => FirstStart(k.agg) = FirstStart(n.agg)
        /\ out # <<>> => out[1].start = FirstStart(n.agg)
                         /\ k.agg.curIntvlStart = out[Len(out)].end
    BY DEF Emits
  <1>4. NoAnswer(q \o r) /\ ~Ended(q \o r)
    BY <1>2, KindsBoth
  <1>5. PICK all \in Seq(IntvlType) : all = EntriesIn(q \o r) /\ all = es \o out
    <2>1. EntriesIn(q \o r) = es \o out
      BY <1>1, EntriesConcat
    <2>2. es \o out \in Seq(IntvlType)
      BY <1>3, ConcatProperties
    <2> QED
      BY <2>1, <2>2
  <1>6. es # <<>> /\ out # <<>> => out[1].start = es[Len(es)].end
    <2>1. ASSUME es # <<>>, out # <<>> PROVE out[1].start = es[Len(es)].end
      <3>1. n.agg.curIntvlStart = es[Len(es)].end /\ n.agg.curIntvlStart # NotSet
        BY <1>2, <2>1, EndOf
      <3> QED
        BY <1>3, <2>1, <3>1, FirstStartIs
    <2> QED
      BY <2>1
  <1>7. /\ Contiguous(all) /\ (all = <<>> <=> es = <<>> /\ out = <<>>)
        /\ es # <<>> => all[1] = es[1]
        /\ es = <<>> => all = out
        /\ out = <<>> => all = es
        /\ out # <<>> => all[Len(all)] = out[Len(out)]
    BY <1>2, <1>3, <1>5, <1>6, ContiguousBoth
  <1>8. all # <<>> /\ u # NotSet => all[1].start = u
    <2>1. ASSUME es = <<>>, all # <<>>, u # NotSet PROVE all[1].start = u
      <3>1. NextOf(es, u) = u /\ all = out
        BY <1>7, <2>1 DEF NextOf
      <3> QED
        BY <1>2, <1>3, <2>1, <3>1, FirstStartIs
    <2> QED
      BY <1>2, <1>7, <2>1
  <1>9. k.agg.lastActualVal = g + Values(all)
    <2>1. /\ Values(all) = Values(es) + Values(out)
          /\ Values(es) \in Int /\ Values(out) \in Int
      BY <1>3, <1>5, AreValued, ValuesAdd, ValuesType
    <2>2. k.agg.lastActualVal \in Int /\ n.agg.lastActualVal \in Int
      BY DEF AggType
    <2> QED
      BY <1>2, <1>3, <2>1, <2>2, SMTT(20)
  <1>10. NextOf(all, u) # NotSet => k.agg.curIntvlStart = NextOf(all, u)
    <2>1. CASE out = <<>>
      <3>1. NextOf(all, u) = NextOf(es, u)
        BY <1>7, <2>1
      <3> QED
        BY <1>2, <1>3, <2>1, <3>1, FirstStartIs
    <2>2. CASE out # <<>>
      BY <1>3, <1>7, <2>2 DEF NextOf
    <2> QED
      BY <2>1, <2>2
  <1> QED
    BY <1>4, <1>5, <1>7, <1>8, <1>9, <1>10 DEF Follows

(* The first message is taken out.                                         *)
LEMMA FollowsTail ==
    ASSUME NEW n, NEW q \in Seq(MsgType), q # <<>>, NEW g \in Int, NEW u,
           n.exists => n.agg.lastActualVal \in Int,
           Follows(n, q, g, u), Head(q).kind # "end"
    PROVE  LET es == EntriesOf(Head(q))
           IN  /\ es \in Seq(IntvlType) /\ Contiguous(es)
               /\ es # <<>> /\ u # NotSet => es[1].start = u
               /\ Follows(n, Tail(q), g + Values(es), NextOf(es, u))
  <1>1. PICK m \in MsgType, t \in Seq(MsgType), h \in Seq(MsgType) :
           m = Head(q) /\ t = Tail(q) /\ h = <<m>> /\ q = h \o t
    BY QueueHead
  <1>2. PICK es \in Seq(IntvlType) : es = EntriesOf(m) /\ EntriesIn(h) = es
    BY <1>1, MsgFacts, EntriesOne
  <1>3. PICK fs \in Seq(IntvlType) : fs = EntriesIn(t)
    BY EntriesType
  <1>4. EntriesIn(q) = es \o fs
    BY <1>1, <1>2, <1>3, EntriesConcat
  <1>5. NoAnswer(t) /\ (Ended(t) <=> Ended(q))
    BY <1>1, KindsBoth, KindsOne DEF Follows
  <1>6. PICK all \in Seq(IntvlType) : all = es \o fs
    BY NextOfBoth
  <1>7. /\ NextOf(all, u) = NextOf(fs, NextOf(es, u))
        /\ all = <<>> <=> es = <<>> /\ fs = <<>>
        /\ es # <<>> => all[1] = es[1]
        /\ es = <<>> => all = fs
    <2>1. NextOf(es \o fs, u) = NextOf(fs, NextOf(es, u))
      BY NextOfBoth
    <2>2. es \o fs = <<>> <=> es = <<>> /\ fs = <<>>
      BY NextOfBoth
    <2>3. es # <<>> => (es \o fs)[1] = es[1]
      BY NextOfBoth
    <2>4. es = <<>> => es \o fs = fs
      BY NextOfBoth
    <2> QED
      BY <1>6, <2>1, <2>2, <2>3, <2>4
  <1>8. /\ NoAnswer(q) /\ (n.exists <=> ~Ended(q)) /\ Contiguous(all)
        /\ all # <<>> /\ u # NotSet => all[1].start = u
        /\ n.exists =>
              /\ n.agg.lastActualVal = g + Values(all)
              /\ NextOf(all, u) # NotSet => n.agg.curIntvlStart = NextOf(all, u)
    BY <1>4, <1>6 DEF Follows
  <1>9. PICK k \in Nat, j \in Nat : k = Len(es) /\ j = Len(fs)
    OBVIOUS
  <1>10. /\ Len(all) = k + j /\ (es = <<>> <=> k = 0) /\ (fs = <<>> <=> j = 0)
         /\ \A i \in 1 .. k : all[i] = es[i]
         /\ \A i \in 1 .. j : all[k + i] = fs[i]
    BY <1>6, <1>9, ConcatProperties, EmptySeq
  <1>11. Contiguous(es) /\ Contiguous(fs)
    <2>1. \A i \in 2 .. k : i \in 2 .. k + j /\ i \in 1 .. k /\ i - 1 \in 1 .. k
      OBVIOUS
    <2>2. Contiguous(es)
      BY <1>8, <1>9, <1>10, <2>1 DEF Contiguous
    <2>3. \A i \in 2 .. j : /\ k + i \in 2 .. k + j /\ i \in 1 .. j /\ i - 1 \in 1 .. j
                            /\ (k + i) - 1 = k + (i - 1)
      OBVIOUS
    <2>4. \A i \in 2 .. k + j : all[i].start = all[i - 1].end
      BY <1>8, <1>10 DEF Contiguous
    <2>5. ASSUME NEW i \in 2 .. j PROVE fs[i].start = fs[i - 1].end
      <3>1. all[k + i].start = all[k + (i - 1)].end
        BY <2>3, <2>4
      <3> QED
        BY <1>10, <2>3, <3>1
    <2>6. Contiguous(fs)
      BY <1>9, <2>5 DEF Contiguous
    <2> QED
      BY <2>2, <2>6
  <1>12. fs # <<>> /\ NextOf(es, u) # NotSet => fs[1].start = NextOf(es, u)
    <2>1. CASE es = <<>>
      BY <1>7, <1>8, <2>1 DEF NextOf
    <2>2. ASSUME es # <<>>, fs # <<>> PROVE fs[1].start = NextOf(es, u)
      <3>0. k # 0 /\ j # 0
        BY <1>10, <2>2
      <3>1. /\ k \in 1 .. k /\ k + 1 \in 2 .. k + j /\ 1 \in 1 .. j
            /\ (k + 1) - 1 = k
        BY <3>0
      <3>2. all[k + 1].start = all[k].end
        BY <1>8, <1>10, <3>1 DEF Contiguous
      <3> QED
        BY <1>9, <1>10, <2>2, <3>1, <3>2 DEF NextOf
    <2> QED
      BY <2>1, <2>2
  <1>13. n.exists => n.agg.lastActualVal = (g + Values(es)) + Values(fs)
    <2>1. Values(all) = Values(es) + Values(fs) /\ Values(es) \in Int /\ Values(fs) \in Int
      BY <1>6, AreValued, ValuesAdd, ValuesType
    <2> QED
      BY <1>8, <2>1
  <1>14. es # <<>> /\ u # NotSet => es[1].start = u
    BY <1>7, <1>8
  <1>15. Follows(n, t, g + Values(es), NextOf(es, u))
    BY <1>3, <1>5, <1>7, <1>8, <1>11, <1>12, <1>13 DEF Follows
  <1> QED
    BY <1>1, <1>2, <1>11, <1>14, <1>15

Answers == {"success", "failure"}

LEMMA MsgsJoin ==
    ASSUME NEW s \in Seq(MsgType), NEW t \in Seq(MsgType), NEW u \in Seq(MsgType)
    PROVE  (s \o t) \o u = s \o (t \o u)
  BY ConcatAssociative

LEMMA AnswerType ==
    ASSUME NEW kind \in Answers
    PROVE  /\ [kind |-> kind] \in MsgType /\ <<[kind |-> kind]>> \in Seq(MsgType)
           /\ [kind |-> kind].kind = kind
  <1>1. [kind |-> kind] \in MsgType
    BY DEF Answers, MsgType
  <1>2. <<[kind |-> kind]>> \in Seq(MsgType)
    BY <1>1
  <1> QED
    BY <1>1, <1>2

Rejoined(s, m, t, u) == (s \o (m \o t)) \o u = s \o (m \o (t \o u))

LEMMA MsgsRejoin ==
    ASSUME NEW s \in Seq(MsgType), NEW m \in Seq(MsgType), NEW t \in Seq(MsgType),
           NEW u \in Seq(MsgType)
    PROVE  Rejoined(s, m, t, u)
  <1>1. PICK x \in Seq(MsgType) : x = m \o t
    <2>1. m \o t \in Seq(MsgType)
      BY ConcatProperties
    <2> QED
      BY <2>1
  <1>2. (s \o x) \o u = s \o (x \o u)
    BY MsgsJoin, Zenon
  <1>3. (m \o t) \o u = m \o (t \o u)
    BY MsgsJoin, Zenon
  <1> QED
    BY <1>1, <1>2, <1>3 DEF Rejoined

(* The first message of a queue with an answer in it.                      *)
LEMMA AnswerTail ==
    ASSUME NEW kind \in Answers, NEW pre \in Seq(MsgType), NEW rest \in Seq(MsgType),
           NEW q \in Seq(MsgType), AnswerIn(q, kind, pre, rest)
    PROVE  /\ q # <<>>
           /\ \/ Head(q).kind = kind /\ Tail(q) = rest
              \/ /\ Head(q).kind \notin Answers
                 /\ \E p \in Seq(MsgType) : AnswerIn(Tail(q), kind, p, rest)
  <1>1. PICK m \in Seq(MsgType) : m = <<[kind |-> kind]>> /\ Len(m) = 1 /\ m[1].kind = kind
    BY AnswerType
  <1>2. PICK t \in Seq(MsgType) : t = m \o rest
    <2>1. m \o rest \in Seq(MsgType)
      BY ConcatProperties
    <2> QED
      BY <2>1
  <1>3. q = pre \o t /\ NoAnswer(pre)
    BY <1>1, <1>2 DEF AnswerIn
  <1>4. Len(t) = 1 + Len(rest) /\ t[1] = m[1] /\ t # <<>> /\ Head(t) = m[1] /\ Tail(t) = rest
    <2>1. Len(t) = 1 + Len(rest) /\ Len(rest) \in Nat
          /\ \A i \in 1 .. 1 + Len(rest) : t[i] = IF i <= 1 THEN m[1] ELSE rest[i - 1]
      <3>1. \A i \in 1 .. Len(m) + Len(rest) : t[i] = IF i <= Len(m) THEN m[i] ELSE rest[i - Len(m)]
        BY <1>2, ConcatProperties
      <3>2. Len(t) = Len(m) + Len(rest) /\ Len(rest) \in Nat
        BY <1>2, ConcatProperties
      <3>3. \A i \in 1 .. 1 + Len(rest) : i <= 1 => i = 1
        OBVIOUS
      <3> QED
        BY <1>1, <3>1, <3>2, <3>3
    <2>2. 1 \in 1 .. 1 + Len(rest) /\ t[1] = m[1]
      BY <2>1
    <2>3. t # <<>>
      BY <2>1, EmptySeq
    <2>4. Tail(t) \in Seq(MsgType) /\ Len(Tail(t)) = Len(rest)
          /\ \A i \in 1 .. Len(Tail(t)) : Tail(t)[i] = t[i + 1]
      BY <2>1, <2>3, HeadTailProperties
    <2>5. \A i \in 1 .. Len(rest) : Tail(t)[i] = rest[i]
      <3>1. \A i \in 1 .. Len(rest) : i + 1 \in 1 .. 1 + Len(rest) /\ ~(i + 1 <= 1) /\ (i + 1) - 1 = i
        BY <2>1
      <3> QED
        BY <2>1, <2>4, <3>1
    <2>6. Tail(t) = rest
      BY <2>4, <2>5, SeqEqual
    <2> QED
      BY <2>1, <2>2, <2>3, <2>6
  <1>5. CASE pre = <<>>
    <2>1. q = t
      BY <1>3, <1>5, ConcatEmptySeq
    <2> QED
      BY <1>1, <1>4, <2>1
  <1>6. CASE pre # <<>>
    <2>1. PICK h \in Seq(MsgType), p \in Seq(MsgType) :
             h = <<Head(pre)>> /\ p = Tail(pre) /\ pre = h \o p
      BY <1>6, QueueHead
    <2>2. Head(pre) \in MsgType /\ Len(h) = 1 /\ h[1] = Head(pre)
      BY <1>6, <2>1, QueueHead
    <2>3. PICK s \in Seq(MsgType) : s = p \o t
      <3>1. p \o t \in Seq(MsgType)
        BY ConcatProperties
      <3> QED
        BY <3>1
    <2>4. q = h \o s
      BY <1>3, <2>1, <2>3, MsgsJoin
    <2>5. NoAnswer(p) /\ Head(pre).kind \notin Answers
      <3>1. NoAnswer(h \o p) <=> NoAnswer(h) /\ NoAnswer(p)
        BY KindsBoth
      <3>2. NoAnswer(h) <=> Head(pre).kind \notin {"success", "failure"}
        BY <2>1, <2>2, KindsOne
      <3> QED
        BY <1>3, <2>1, <3>1, <3>2 DEF Answers
    <2>6. q # <<>> /\ Head(q) = Head(pre) /\ Tail(q) = s
      <3>1. /\ Len(q) = 1 + Len(s) /\ Len(s) \in Nat
            /\ \A i \in 1 .. Len(h) + Len(s) : q[i] = IF i <= Len(h) THEN h[i] ELSE s[i - Len(h)]
        <4>1. Len(h \o s) = Len(h) + Len(s) /\ Len(s) \in Nat
          BY ConcatProperties
        <4>2. \A i \in 1 .. Len(h) + Len(s) :
                 (h \o s)[i] = IF i <= Len(h) THEN h[i] ELSE s[i - Len(h)]
          BY ConcatProperties
        <4> QED
          BY <2>2, <2>4, <4>1, <4>2
      <3>2. q # <<>>
        BY <3>1, EmptySeq
      <3>3. Head(q) = Head(pre)
        <4>1. 1 \in 1 .. Len(h) + Len(s) /\ 1 <= Len(h)
          BY <2>2, <3>1
        <4> QED
          BY <2>2, <3>1, <3>2, <4>1
      <3>4. Tail(q) \in Seq(MsgType) /\ Len(Tail(q)) = Len(s)
            /\ \A i \in 1 .. Len(Tail(q)) : Tail(q)[i] = q[i + 1]
        BY <3>1, <3>2, HeadTailProperties
      <3>5. \A i \in 1 .. Len(s) : /\ i + 1 \in 1 .. Len(h) + Len(s) /\ ~(i + 1 <= Len(h))
                                   /\ (i + 1) - Len(h) = i
        BY <2>2, <3>1
      <3>6. \A i \in 1 .. Len(s) : Tail(q)[i] = s[i]
        BY <3>1, <3>4, <3>5
      <3> QED
        BY <3>2, <3>3, <3>4, <3>6, SeqEqual
    <2>7. AnswerIn(Tail(q), kind, p, rest)
      BY <1>1, <1>2, <2>3, <2>5, <2>6 DEF AnswerIn
    <2> QED
      BY <2>5, <2>6, <2>7
  <1> QED
    BY <1>5, <1>6

(* What is put behind a queue comes after the answer.                      *)
LEMMA AnswerMore ==
    ASSUME NEW kind \in Answers, NEW pre \in Seq(MsgType), NEW rest \in Seq(MsgType),
           NEW q \in Seq(MsgType), AnswerIn(q, kind, pre, rest), NEW r \in Seq(MsgType)
    PROVE  rest \o r \in Seq(MsgType) /\ AnswerIn(q \o r, kind, pre, rest \o r)
  <1>1. PICK m \in Seq(MsgType) : m = <<[kind |-> kind]>>
    BY AnswerType
  <1>2. Rejoined(pre, m, rest, r)
    BY MsgsRejoin
  <1>3. q = pre \o (m \o rest) /\ NoAnswer(pre)
    BY <1>1 DEF AnswerIn
  <1>4. rest \o r \in Seq(MsgType)
    BY ConcatProperties
  <1> QED
    BY <1>1, <1>2, <1>3, <1>4 DEF AnswerIn, Rejoined

(* An answer is put behind a queue, after the ends of what is deleted.     *)
LEMMA AnswerSent ==
    ASSUME NEW kind \in Answers, NEW q \in Seq(MsgType), NoAnswer(q),
           NEW gone \in Seq(MsgType), NoAnswer(gone)
    PROVE  LET sent == q \o EnableAnswer(gone, kind)
           IN  /\ EnableAnswer(gone, kind) \in Seq(MsgType)
               /\ \E pre, rest \in Seq(MsgType) : rest = <<>> /\ AnswerIn(sent, kind, pre, rest)
  <1>1. PICK m \in Seq(MsgType) : m = <<[kind |-> kind]>>
    BY AnswerType
  <1>2. PICK pre \in Seq(MsgType) : pre = q \o gone
    <2>1. q \o gone \in Seq(MsgType)
      BY ConcatProperties
    <2> QED
      BY <2>1
  <1>3. NoAnswer(pre)
    BY <1>2, KindsBoth
  <1>4. EnableAnswer(gone, kind) = gone \o m /\ gone \o m \in Seq(MsgType)
    BY <1>1, ConcatProperties DEF EnableAnswer
  <1>5. q \o (gone \o m) = pre \o m
    BY <1>2, MsgsJoin
  <1>6. m \o <<>> = m
    BY ConcatEmptySeq
  <1>7. PICK rest \in Seq(MsgType) : rest = <<>>
    BY EmptySeq
  <1>8. AnswerIn(q \o EnableAnswer(gone, kind), kind, pre, rest)
    BY <1>1, <1>3, <1>4, <1>5, <1>6, <1>7 DEF AnswerIn
  <1> QED
    BY <1>4, <1>7, <1>8

-----------------------------------------------------------------------------
(* The steps of the front end.                                             *)

(* What the messages of a daemon depend on.                                *)
SameButQueue(d) ==
    /\ component'[d] = component[d] /\ toDaemon'[d] = toDaemon[d]
    /\ (d \in asked' <=> d \in asked) /\ (d \in toDelete' <=> d \in toDelete)
    /\ (node'[d].exists <=> node[d].exists)
    /\ node'[d].agg.lastActualVal = node[d].agg.lastActualVal
    /\ node'[d].agg.curIntvlStart = node[d].agg.curIntvlStart
    /\ component[d] # 0 =>
          /\ Given(fe'.comps[component[d]]) = Given(fe.comps[component[d]])
          /\ GivenUpTo(fe'.comps[component[d]]) = GivenUpTo(fe.comps[component[d]])
SameLink(d) == SameButQueue(d) /\ toFE'[d] = toFE[d]

LEMMA FollowsSame ==
    ASSUME NEW n, NEW k, NEW q, NEW g, NEW u, Follows(n, q, g, u), k.exists <=> n.exists,
           k.agg.lastActualVal = n.agg.lastActualVal, k.agg.curIntvlStart = n.agg.curIntvlStart
    PROVE  Follows(k, q, g, u)
  BY DEF Follows

LEMMA LinkFrame ==
    ASSUME NEW d \in Daemon, Link(d), SameLink(d)
    PROVE  Link(d)'
  <1>1. CASE Component(d)
    <2>1. Follows(node'[d], toFE'[d], Given(fe'.comps[component'[d]]),
                  GivenUpTo(fe'.comps[component'[d]]))
      BY <1>1, FollowsSame DEF Component, SameLink, SameButQueue
    <2>2. Component(d)'
      BY <1>1, <2>1 DEF Component, SameLink, SameButQueue
    <2> QED
      BY <2>2 DEF Link
  <1>2. CASE Idle(d)
    <2>1. Idle(d)'
      BY <1>2 DEF Idle, SameLink, SameButQueue
    <2> QED
      BY <2>1 DEF Link
  <1>3. CASE Requested(d)
    <2>1. Requested(d)'
      BY <1>3 DEF Requested, SameLink, SameButQueue
    <2> QED
      BY <2>1 DEF Link
  <1>4. CASE Succeeded(d)
    <2>1. PICK pre \in Seq(MsgType), rest \in Seq(MsgType) :
             AnswerIn(toFE[d], "success", pre, rest) /\ Follows(node[d], rest, 0, NotSet)
      BY <1>4 DEF Succeeded
    <2>2. Follows(node'[d], rest, 0, NotSet)
      BY <2>1, FollowsSame DEF SameLink, SameButQueue
    <2>3. AnswerIn(toFE'[d], "success", pre, rest)
      BY <2>1 DEF SameLink
    <2>4. Succeeded(d)'
      BY <1>4, <2>2, <2>3 DEF Succeeded, SameLink, SameButQueue
    <2> QED
      BY <2>4 DEF Link
  <1>5. CASE Refused(d)
    <2>1. Refused(d)'
      BY <1>5 DEF Refused, SameLink, SameButQueue
    <2> QED
      BY <2>1 DEF Link
  <1> QED
    BY <1>1, <1>2, <1>3, <1>4, <1>5 DEF Link

LEMMA NoAnswerTail ==
    ASSUME NEW q \in Seq(MsgType), q # <<>>, NoAnswer(q)
    PROVE  Tail(q) \in Seq(MsgType) /\ NoAnswer(Tail(q)) /\ Head(q).kind \notin Answers
  <1>1. PICK h \in Seq(MsgType), t \in Seq(MsgType) :
           h = <<Head(q)>> /\ t = Tail(q) /\ q = h \o t
    BY QueueHead
  <1>2. Head(q) \in MsgType
    BY QueueHead
  <1>3. NoAnswer(h) /\ NoAnswer(t)
    BY <1>1, KindsBoth
  <1> QED
    BY <1>1, <1>2, <1>3, KindsOne DEF Answers

(* Types of what an action may look at.                                    *)
LEMMA TypesOf ==
    ASSUME DataInv, NEW d \in Daemon
    PROVE  /\ toFE[d] \in Seq(MsgType) /\ toDaemon[d] \in Seq({"enable", "disable"})
           /\ node[d] \in NodeType /\ node[d].agg \in AggType /\ node[d].exists \in BOOLEAN
           /\ node[d].agg.lastActualVal \in Int
           /\ component[d] \in Nat
           /\ component[d] # 0 => /\ component[d] \in 1 .. Len(fe.comps)
                                  /\ fe.comps[component[d]] \in CompType
                                  /\ Given(fe.comps[component[d]]) \in Int
  <1>1. /\ toFE[d] \in Seq(MsgType) /\ toDaemon[d] \in Seq({"enable", "disable"})
        /\ node[d] \in NodeType /\ component[d] \in Nat /\ fe \in AggType
    BY DEF DataInv, TypeInv
  <1>2. node[d].agg \in AggType /\ node[d].exists \in BOOLEAN
    BY <1>1 DEF NodeType
  <1>3. node[d].agg.lastActualVal \in Int
    BY <1>2 DEF AggType
  <1>4. component[d] # 0 => component[d] \in 1 .. Len(fe.comps)
    BY DEF DataInv, FeInv
  <1> QED
    BY <1>1, <1>2, <1>3, <1>4, CompsOf, GivenType

(* The front end takes a message that is no answer.                        *)
LEMMA DropHead ==
    ASSUME DataInv, NEW d \in Daemon, SameButQueue(d),
           toFE[d] # <<>>, toFE'[d] = Tail(toFE[d]),
           Head(toFE[d]).kind \notin Answers,
           Head(toFE[d]).kind = "initial" \/ component[d] = 0
    PROVE  Link(d)'
  <1>1. toFE[d] \in Seq(MsgType) /\ Link(d)
    BY TypesOf DEF DataInv, LinkInv
  <1>2. CASE Component(d)
    <2>1. component[d] # 0 /\ Head(toFE[d]).kind = "initial"
      BY <1>2 DEF Component
    <2>0. PICK u : u = GivenUpTo(fe.comps[component[d]])
      OBVIOUS
    <2>2. PICK g \in Int : /\ g = Given(fe.comps[component[d]])
                           /\ u = GivenUpTo(fe.comps[component[d]])
      BY <2>0, <2>1, TypesOf
    <2>3. Follows(node[d], toFE[d], g, u)
      BY <1>2, <2>2 DEF Component
    <2>4. EntriesOf(Head(toFE[d])) = <<>>
      BY <2>1 DEF EntriesOf
    <2>5. Follows(node[d], Tail(toFE[d]), g + Values(<<>>), NextOf(<<>>, u))
      BY <1>1, <2>1, <2>3, <2>4, TypesOf, FollowsTail
    <2>6. g + Values(<<>>) = g /\ NextOf(<<>>, u) = u
      BY ValuesEmpty DEF NextOf
    <2>7. Follows(node'[d], toFE'[d], g, u)
      BY <2>5, <2>6, FollowsSame DEF SameButQueue
    <2>8. Component(d)'
      BY <1>2, <2>1, <2>2, <2>7 DEF Component, SameButQueue
    <2> QED
      BY <2>8 DEF Link
  <1>3. CASE Idle(d)
    <2>1. NoAnswer(toFE'[d])
      BY <1>1, <1>3, NoAnswerTail DEF Idle
    <2>2. Idle(d)'
      BY <1>3, <2>1 DEF Idle, SameButQueue
    <2> QED
      BY <2>2 DEF Link
  <1>4. CASE Requested(d)
    <2>1. NoAnswer(toFE'[d])
      BY <1>1, <1>4, NoAnswerTail DEF Requested
    <2>2. Requested(d)'
      BY <1>4, <2>1 DEF Requested, SameButQueue
    <2> QED
      BY <2>2 DEF Link
  <1>5. CASE Succeeded(d)
    <2>1. PICK pre \in Seq(MsgType), rest \in Seq(MsgType) :
             AnswerIn(toFE[d], "success", pre, rest) /\ Follows(node[d], rest, 0, NotSet)
      BY <1>5 DEF Succeeded
    <2>2. PICK p \in Seq(MsgType) : AnswerIn(toFE'[d], "success", p, rest)
      <3>1. "success" \in Answers
        BY DEF Answers
      <3> QED
        BY <1>1, <2>1, <3>1, AnswerTail
    <2>3. Follows(node'[d], rest, 0, NotSet)
      BY <2>1, FollowsSame DEF SameButQueue
    <2>4. Succeeded(d)'
      BY <1>5, <2>2, <2>3 DEF Succeeded, SameButQueue
    <2> QED
      BY <2>4 DEF Link
  <1>6. CASE Refused(d)
    <2>1. PICK pre \in Seq(MsgType) : AnswerIn(toFE[d], "failure", pre, <<>>)
      BY <1>6 DEF Refused
    <2>2. PICK p \in Seq(MsgType) : AnswerIn(toFE'[d], "failure", p, <<>>)
      <3>1. PICK kind \in Answers : kind = "failure"
        BY DEF Answers
      <3>2. PICK none \in Seq(MsgType) : none = <<>>
        <4>1. <<>> \in Seq(MsgType)
          OBVIOUS
        <4> QED
          BY <4>1
      <3>3. PICK q \in Seq(MsgType) : q = toFE[d]
        BY <1>1
      <3>4. AnswerIn(q, kind, pre, none) /\ Head(q).kind # kind
        BY <2>1, <3>1, <3>2, <3>3 DEF Answers
      <3>5. PICK p \in Seq(MsgType) : AnswerIn(Tail(q), kind, p, none)
        BY <3>4, AnswerTail
      <3> QED
        BY <3>1, <3>2, <3>3, <3>5
    <2>3. Refused(d)'
      BY <1>6, <2>2 DEF Refused, SameButQueue
    <2> QED
      BY <2>3 DEF Link
  <1> QED
    BY <1>1, <1>2, <1>3, <1>4, <1>5, <1>6 DEF Link

(* The daemons do nothing.                                                 *)
LEMMA DaemonsFrame ==
    ASSUME DataInv, UNCHANGED <<width, daemons, clockNow>>
    PROVE  NodesInv' /\ MeasuredInv'
  <1>1. /\ width' = width /\ clockNow' = clockNow /\ node' = node /\ procNode' = procNode
        /\ live' = live /\ waiting' = waiting /\ measured' = measured
    BY DEF daemons
  <1>2. NodesInv'
    <2>1. NodesInv
      BY DEF DataInv
    <2> QED
      BY <1>1, <2>1, SMTT(20) DEF NodesInv, NodeOK, ProcOK
  <1>3. MeasuredInv'
    <2>1. MeasuredInv
      BY DEF DataInv
    <2> QED
      BY <1>1, <2>1 DEF MeasuredInv
  <1> QED
    BY <1>2, <1>3

LEMMA ReceivedIs ==
    ASSUME DataInv, NEW d \in Daemon, NEW kind, Received(d, kind)
    PROVE  /\ toFE[d] \in Seq(MsgType) /\ toFE[d] # <<>> /\ Head(toFE[d]).kind = kind
           /\ toFE' \in [Daemon -> Seq(MsgType)] /\ toFE'[d] = Tail(toFE[d])
           /\ \A e \in Daemon : e # d => toFE'[e] = toFE[e]
  <1>1. toFE \in [Daemon -> Seq(MsgType)]
    BY DEF DataInv, TypeInv
  <1>2. /\ toFE[d] # <<>> /\ Head(toFE[d]).kind = kind
        /\ toFE' = [toFE EXCEPT ![d] = Tail(@)]
    BY DEF Received
  <1>3. toFE[d] \in Seq(MsgType) /\ Tail(toFE[d]) \in Seq(MsgType)
    BY <1>1, <1>2, QueueHead
  <1> QED
    BY <1>1, <1>2, <1>3

LEMMA TellIs ==
    ASSUME DataInv, NEW D, NEW m \in {"enable", "disable"}, Tell(D, m)
    PROVE  /\ toDaemon' \in [Daemon -> Seq({"enable", "disable"})]
           /\ \A d \in Daemon : toDaemon'[d] = IF d \in D THEN Append(toDaemon[d], m)
                                               ELSE toDaemon[d]
  <1>1. \A d \in Daemon : toDaemon[d] \in Seq({"enable", "disable"})
    BY DEF DataInv, TypeInv
  <1>2. \A d \in Daemon : Append(toDaemon[d], m) \in Seq({"enable", "disable"})
    BY <1>1, AppendProperties
  <1> QED
    BY <1>1, <1>2 DEF Tell

(* What a daemon is told at most.                                          *)
LEMMA Told ==
    /\ Append(<<>>, "enable") = <<"enable">> /\ Append(<<>>, "disable") = <<"disable">>
    /\ Append(<<"disable">>, "enable") = <<"disable", "enable">>
    /\ Head(<<"enable">>) = "enable" /\ Tail(<<"enable">>) = <<>>
    /\ Head(<<"disable">>) = "disable" /\ Tail(<<"disable">>) = <<>>
    /\ Head(<<"disable", "enable">>) = "disable" /\ Tail(<<"disable", "enable">>) = <<"enable">>
    /\ <<"enable">> # <<>> /\ <<"disable">> # <<>> /\ <<"disable", "enable">> # <<>>
  <1>1. Append(<<>>, "enable") = <<"enable">> /\ Append(<<>>, "disable") = <<"disable">>
    OBVIOUS
  <1>2. /\ Head(<<"enable">>) = "enable" /\ Head(<<"disable">>) = "disable"
        /\ Head(<<"disable", "enable">>) = "disable"
    OBVIOUS
  <1>3. /\ <<"enable">> # <<>> /\ <<"disable">> # <<>> /\ <<"disable", "enable">> # <<>>
    OBVIOUS
  <1> DEFINE M == {"enable", "disable"}
  <1>4. /\ <<>> \in Seq(M) /\ <<"enable">> \in Seq(M) /\ <<"disable">> \in Seq(M)
        /\ <<"disable", "enable">> \in Seq(M)
    OBVIOUS
  <1>5. PICK x \in Seq(M) : x = <<"enable">> /\ Len(x) = 1 /\ x[1] = "enable"
    BY <1>4
  <1>6. PICK y \in Seq(M) : y = <<"disable">> /\ Len(y) = 1 /\ y[1] = "disable"
    BY <1>4
  <1>7. PICK z \in Seq(M) : z = <<"disable", "enable">> /\ Len(z) = 2 /\ z[1] = "disable"
                            /\ z[2] = "enable"
    BY <1>4
  <1>8. Append(y, "enable") = z
    <2>1. /\ Append(y, "enable") \in Seq(M) /\ Len(Append(y, "enable")) = 2
          /\ Append(y, "enable")[1] = "disable" /\ Append(y, "enable")[2] = "enable"
      BY <1>6, AppendProperties
    <2>2. \A i \in 1 .. 2 : i = 1 \/ i = 2
      OBVIOUS
    <2>3. \A i \in 1 .. 2 : Append(y, "enable")[i] = z[i]
      BY <1>7, <2>1, <2>2
    <2> QED
      BY <1>7, <2>1, <2>3, SeqEqual
  <1>9. Tail(z) = x
    <2>1. Tail(z) \in Seq(M) /\ Len(Tail(z)) = 1 /\ Tail(z)[1] = "enable"
      <3>1. z # <<>>
        BY <1>3, <1>7
      <3>2. /\ Tail(z) \in Seq(M) /\ Len(Tail(z)) = Len(z) - 1
            /\ \A i \in 1 .. Len(Tail(z)) : Tail(z)[i] = z[i + 1]
        BY <3>1, HeadTailProperties
      <3> QED
        BY <1>7, <3>2
    <2>2. \A i \in 1 .. 1 : i = 1
      OBVIOUS
    <2> QED
      BY <1>5, <2>1, <2>2, SeqEqual
  <1>10. Tail(x) = <<>> /\ Tail(y) = <<>>
    <2>1. /\ Tail(x) \in Seq(M) /\ Len(Tail(x)) = 0
          /\ Tail(y) \in Seq(M) /\ Len(Tail(y)) = 0
      BY <1>3, <1>5, <1>6, HeadTailProperties
    <2> QED
      BY <2>1, EmptySeq
  <1> QED
    BY <1>1, <1>2, <1>3, <1>5, <1>6, <1>7, <1>8, <1>9, <1>10

LEMMA EnableInv ==
    ASSUME DataInv, Enable
    PROVE  DataInv'
  <1>1. /\ ~enabled /\ asked = {} /\ components = {}
        /\ asked' = Daemon /\ refused' = FALSE
        /\ width' = width /\ fe' = fe /\ component' = component /\ enabled' = enabled
        /\ failed' = failed /\ shown' = shown /\ clockNow' = clockNow /\ toFE' = toFE
        /\ node' = node /\ procNode' = procNode /\ toDelete' = toDelete /\ live' = live
        /\ waiting' = waiting /\ measured' = measured
    BY DEF Enable, daemons, currently_enabling
  <1>2. /\ toDaemon' \in [Daemon -> Seq({"enable", "disable"})]
        /\ \A d \in Daemon : toDaemon'[d] = Append(toDaemon[d], "enable")
    BY TellIs DEF Enable
  <1>3. TypeInv'
    BY <1>1, <1>2 DEF DataInv, TypeInv
  <1>4. FeInv'
    BY <1>1 DEF DataInv, FeInv
  <1>5. NodesInv' /\ MeasuredInv'
    BY <1>1, DaemonsFrame DEF daemons
  <1>6. ASSUME NEW d \in Daemon PROVE Link(d)'
    <2>1. component[d] = 0 /\ d \notin asked
      BY <1>1 DEF components
    <2>2. Idle(d)
      BY <2>1 DEF DataInv, LinkInv, Link, Component, Requested, Succeeded, Refused
    <2>3. /\ toDaemon[d] = <<>> => Append(toDaemon[d], "enable") = <<"enable">>
          /\ toDaemon[d] = <<"disable">>
                => Append(toDaemon[d], "enable") = <<"disable", "enable">>
      BY Told
    <2>4. Requested(d)'
      BY <1>1, <1>2, <2>2, <2>3 DEF Idle, Requested
    <2> QED
      BY <2>4 DEF Link
  <1>7. EnabledInv'
    BY <1>1 DEF EnabledInv
  <1> QED
    BY <1>3, <1>4, <1>5, <1>6, <1>7 DEF DataInv, LinkInv

(* Who has answered.                                                       *)
LEMMA AnswerFrom ==
    ASSUME DataInv, NEW d \in Daemon, NEW kind \in Answers, Received(d, kind)
    PROVE  /\ component[d] = 0 /\ d \in asked /\ toDaemon[d] = <<>>
           /\ kind = "success" => d \notin toDelete /\ Follows(node[d], Tail(toFE[d]), 0, NotSet)
           /\ kind = "failure" => Tail(toFE[d]) = <<>> /\ ~node[d].exists
  <1>1. toFE[d] \in Seq(MsgType) /\ toFE[d] # <<>> /\ Head(toFE[d]).kind = kind
    BY ReceivedIs
  <1>2. ~NoAnswer(toFE[d])
    BY <1>1, NoAnswerTail
  <1>3. Succeeded(d) \/ Refused(d)
    BY <1>2 DEF DataInv, LinkInv, Link, Component, Idle, Requested, Follows
  <1>4. CASE Succeeded(d)
    <2>1. PICK pre \in Seq(MsgType), rest \in Seq(MsgType) :
             AnswerIn(toFE[d], "success", pre, rest) /\ Follows(node[d], rest, 0, NotSet)
      BY <1>4 DEF Succeeded
    <2>2. "success" \in Answers /\ "success" # "failure"
      BY DEF Answers
    <2>3. Head(toFE[d]).kind = "success" /\ Tail(toFE[d]) = rest
      BY <1>1, <2>1, <2>2, AnswerTail
    <2> QED
      BY <1>1, <1>4, <2>1, <2>2, <2>3 DEF Succeeded
  <1>5. CASE Refused(d)
    <2>1. PICK pre \in Seq(MsgType) : AnswerIn(toFE[d], "failure", pre, <<>>)
      BY <1>5 DEF Refused
    <2>2. "failure" \in Answers /\ <<>> \in Seq(MsgType) /\ "success" # "failure"
      BY DEF Answers
    <2>3. Head(toFE[d]).kind = "failure" /\ Tail(toFE[d]) = <<>>
      BY <1>1, <2>1, <2>2, AnswerTail
    <2> QED
      BY <1>1, <1>5, <2>1, <2>2, <2>3 DEF Refused
  <1> QED
    BY <1>3, <1>4, <1>5

LEMMA HandleFailureInv ==
    ASSUME DataInv, NEW d \in Daemon, HandleFailure(d)
    PROVE  DataInv'
  <1>1. /\ asked' = asked \ {d} /\ refused' = TRUE
        /\ enabled' = (asked' = {} /\ ~refused')
        /\ width' = width /\ fe' = fe /\ component' = component
        /\ failed' = failed /\ shown' = shown /\ clockNow' = clockNow /\ toDaemon' = toDaemon
        /\ node' = node /\ procNode' = procNode /\ toDelete' = toDelete /\ live' = live
        /\ waiting' = waiting /\ measured' = measured
    BY DEF HandleFailure, daemons, Answered
  <1>2. /\ toFE' \in [Daemon -> Seq(MsgType)] /\ toFE'[d] = Tail(toFE[d])
        /\ \A e \in Daemon : e # d => toFE'[e] = toFE[e]
    BY ReceivedIs DEF HandleFailure
  <1>3. /\ component[d] = 0 /\ d \in asked /\ toDaemon[d] = <<>>
        /\ Tail(toFE[d]) = <<>> /\ ~node[d].exists
    BY AnswerFrom DEF HandleFailure, Answers
  <1>4. TypeInv'
    <2>1. enabled' \in BOOLEAN /\ refused' \in BOOLEAN
      BY <1>1
    <2> QED
      BY <1>1, <1>2, <2>1 DEF DataInv, TypeInv
  <1>5. FeInv'
    BY <1>1 DEF DataInv, FeInv
  <1>6. NodesInv' /\ MeasuredInv'
    BY <1>1, DaemonsFrame DEF daemons
  <1>7. Link(d)'
    <2>1. NoAnswer(<<>>)
      BY DEF NoAnswer
    <2>2. Idle(d)'
      BY <1>1, <1>2, <1>3, <2>1 DEF Idle
    <2> QED
      BY <2>2 DEF Link
  <1>8. ASSUME NEW e \in Daemon, e # d PROVE Link(e)'
    <2>1. Link(e)
      BY DEF DataInv, LinkInv
    <2>2. SameLink(e)
      BY <1>1, <1>2, <1>8 DEF SameLink, SameButQueue
    <2> QED
      BY <2>1, <2>2, LinkFrame
  <1>9. EnabledInv'
    BY <1>1 DEF EnabledInv
  <1> QED
    BY <1>4, <1>5, <1>6, <1>7, <1>8, <1>9 DEF DataInv, LinkInv

LEMMA NewComponentIs ==
    ASSUME NEW a, AggOK(a)
    PROVE  /\ CompAdded(a, newComponent(a), aggComponent)
           /\ Given(aggComponent) = 0 /\ GivenUpTo(aggComponent) = NotSet
           /\ ~aggComponent.bIsFinished /\ aggComponent.curActualVal = 0
           /\ aggComponent.last = NotSet
  <1>1. <<>> \in Seq(SampleType)
    OBVIOUS
  <1>2. PICK e \in Seq(SampleType) : e = <<>>
    BY <1>1
  <1>3. PICK c : c = aggComponent
    OBVIOUS
  <1>4. /\ c = [last |-> NotSet, actualSet |-> FALSE, curIntvlVal |-> 0, curActualVal |-> 0,
                futureSamples |-> e, bIsFinished |-> FALSE]
    BY <1>2, <1>3 DEF aggComponent
  <1>5. /\ c \in CompType /\ c.futureSamples = e /\ c.last = NotSet /\ ~c.bIsFinished
        /\ c.curActualVal = 0 /\ c.curIntvlVal = 0
    <2>1. NotSet \in Nat \union {NotSet}
      OBVIOUS
    <2> QED
      BY <1>4, <2>1 DEF CompType
  <1>6. CompOK(c, a.curIntvlStart)
    BY <1>2, <1>5 DEF CompOK, Ascending
  <1>7. CompAdded(a, [a EXCEPT !.comps = Append(@, c)], c)
    BY <1>5, <1>6, AddComp
  <1>8. Given(c) = 0 /\ GivenUpTo(c) = NotSet
    BY <1>2, <1>5, ValuesEmpty DEF Given, GivenUpTo, ActualVal
  <1> QED
    BY <1>3, <1>5, <1>7, <1>8 DEF newComponent

LEMMA HandleSuccessInv ==
    ASSUME DataInv, NEW d \in Daemon, HandleSuccess(d)
    PROVE  DataInv'
  <1>1. /\ asked' = asked \ {d} /\ refused' = refused
        /\ enabled' = (asked' = {} /\ ~refused')
        /\ width' = width /\ failed' = failed /\ shown' = shown /\ clockNow' = clockNow
        /\ toDaemon' = toDaemon
        /\ node' = node /\ procNode' = procNode /\ toDelete' = toDelete /\ live' = live
        /\ waiting' = waiting /\ measured' = measured
    BY DEF HandleSuccess, daemons, Answered, DataInv, TypeInv
  <1>2. /\ toFE' \in [Daemon -> Seq(MsgType)] /\ toFE'[d] = Tail(toFE[d])
        /\ \A e \in Daemon : e # d => toFE'[e] = toFE[e]
    BY ReceivedIs DEF HandleSuccess
  <1>3. /\ component[d] = 0 /\ d \in asked /\ toDaemon[d] = <<>> /\ d \notin toDelete
        /\ Follows(node[d], Tail(toFE[d]), 0, NotSet)
    BY AnswerFrom DEF HandleSuccess, Answers
  <1>4. AggOK(fe) /\ fe.width = width /\ Summed(fe) /\ shown = fe.lastActualVal
        /\ fe \in AggType /\ Len(fe.comps) \in Nat
    BY CompsOf DEF DataInv, FeInv, AggOK
  <1>5. CompAdded(fe, fe', aggComponent)
    BY <1>4, NewComponentIs DEF HandleSuccess
  <1>6. /\ AggOK(fe') /\ Len(fe'.comps) = Len(fe.comps) + 1
        /\ fe'.comps[Len(fe.comps) + 1] = aggComponent
        /\ \A i \in 1 .. Len(fe.comps) : fe'.comps[i] = fe.comps[i]
        /\ fe'.width = width /\ fe'.lastActualVal = fe.lastActualVal /\ Summed(fe')
    BY <1>4, <1>5, NewComponentIs DEF CompAdded
  <1>7. /\ component' \in [Daemon -> Nat] /\ component'[d] = Len(fe.comps) + 1
        /\ \A e \in Daemon : e # d => component'[e] = component[e]
    <2>1. component' = [component EXCEPT ![d] = Len(fe.comps) + 1]
      BY <1>6 DEF HandleSuccess
    <2> QED
      BY <1>4, <2>1 DEF DataInv, TypeInv
  <1>8. TypeInv'
    <2>1. enabled' \in BOOLEAN /\ refused' \in BOOLEAN /\ fe' \in AggType
      BY <1>1, <1>6 DEF DataInv, TypeInv, AggOK
    <2> QED
      BY <1>1, <1>2, <1>7, <2>1 DEF DataInv, TypeInv
  <1>9. FeInv'
    <2>1. ASSUME NEW e \in Daemon, component'[e] # 0
          PROVE  /\ component'[e] \in 1 .. Len(fe'.comps)
                 /\ ~fe'.comps[component'[e]].bIsFinished
                 /\ \A f \in Daemon : component'[f] = component'[e] => f = e
      <3>1. \A f \in Daemon : f # d /\ component'[f] # 0
                => component'[f] \in 1 .. Len(fe.comps)
        BY <1>7 DEF DataInv, FeInv
      <3>2. CASE e = d
        <4>1. Len(fe.comps) + 1 \in 1 .. Len(fe.comps) + 1 /\ Len(fe.comps) + 1 # 0
              /\ Len(fe.comps) + 1 \notin 1 .. Len(fe.comps)
          BY <1>4
        <4> QED
          BY <1>6, <1>7, <3>1, <3>2, <4>1, NewComponentIs DEF aggComponent
      <3>3. CASE e # d
        <4>1. component'[e] = component[e] /\ component[e] \in 1 .. Len(fe.comps)
          BY <1>7, <2>1, <3>1, <3>3
        <4>2. component[e] \in 1 .. Len(fe.comps) + 1 /\ component[e] # Len(fe.comps) + 1
          BY <1>4, <4>1
        <4>3. ~fe.comps[component[e]].bIsFinished
          BY <2>1, <4>1 DEF DataInv, FeInv
        <4>4. \A f \in Daemon : component[f] = component[e] => f = e
          BY <2>1, <4>1 DEF DataInv, FeInv
        <4> QED
          BY <1>6, <1>7, <4>1, <4>2, <4>3, <4>4
      <3> QED
        BY <3>2, <3>3
    <2> QED
      BY <1>1, <1>4, <1>6, <2>1 DEF FeInv
  <1>10. NodesInv' /\ MeasuredInv'
    BY <1>1, DaemonsFrame DEF daemons
  <1>11. Link(d)'
    <2>1. /\ Given(fe'.comps[component'[d]]) = 0
          /\ GivenUpTo(fe'.comps[component'[d]]) = NotSet
      BY <1>4, <1>6, <1>7, NewComponentIs
    <2>2. component'[d] # 0
      BY <1>4, <1>7
    <2>3. Component(d)'
      BY <1>1, <1>2, <1>3, <2>1, <2>2 DEF Component
    <2> QED
      BY <2>3 DEF Link
  <1>12. ASSUME NEW e \in Daemon, e # d PROVE Link(e)'
    <2>1. Link(e)
      BY DEF DataInv, LinkInv
    <2>2. component[e] # 0 => component[e] \in 1 .. Len(fe.comps)
      BY DEF DataInv, FeInv
    <2>3. SameLink(e)
      BY <1>1, <1>2, <1>6, <1>7, <1>12, <2>2 DEF SameLink, SameButQueue
    <2> QED
      BY <2>1, <2>3, LinkFrame
  <1>13. EnabledInv'
    <2>1. ASSUME ~refused, NEW e \in Daemon \ asked' PROVE component'[e] # 0 \/ ~node'[e].exists
      <3>1. CASE e = d
        BY <1>4, <1>7, <3>1
      <3>2. CASE e # d
        <4>1. e \in Daemon \ asked /\ asked # {}
          BY <1>1, <1>3, <2>1, <3>2
        <4>2. component[e] # 0 \/ ~node[e].exists
          BY <2>1, <4>1 DEF DataInv, EnabledInv
        <4> QED
          BY <1>1, <1>7, <3>2, <4>2
      <3> QED
        BY <3>1, <3>2
    <2> QED
      BY <1>1, <2>1 DEF EnabledInv
  <1> QED
    BY <1>8, <1>9, <1>10, <1>11, <1>12, <1>13 DEF DataInv, LinkInv

LEMMA FeFrame ==
    ASSUME DataInv, component' = component, width' = width,
           AggOK(fe'), fe'.width = width, Len(fe'.comps) = Len(fe.comps), Summed(fe'),
           shown' = fe'.lastActualVal,
           \A i \in 1 .. Len(fe.comps) : fe'.comps[i].bIsFinished = fe.comps[i].bIsFinished
    PROVE  FeInv'
  BY DEF DataInv, FeInv

LEMMA setInitialInv ==
    ASSUME DataInv, running', NEW d \in Daemon, setInitialActualValueFE(d)
    PROVE  DataInv'
  <1>1. /\ width' = width /\ component' = component /\ asked' = asked /\ refused' = refused
        /\ enabled' = enabled /\ shown' = shown /\ clockNow' = clockNow
        /\ toDaemon' = toDaemon
        /\ node' = node /\ procNode' = procNode /\ toDelete' = toDelete /\ live' = live
        /\ waiting' = waiting /\ measured' = measured
    BY DEF setInitialActualValueFE, daemons
  <1>2. /\ toFE[d] \in Seq(MsgType) /\ toFE[d] # <<>> /\ Head(toFE[d]).kind = "initial"
        /\ toFE' \in [Daemon -> Seq(MsgType)] /\ toFE'[d] = Tail(toFE[d])
        /\ \A e \in Daemon : e # d => toFE'[e] = toFE[e]
    BY ReceivedIs DEF setInitialActualValueFE
  <1>3. component[d] # 0 /\ fe' = setInitialActualValue(fe, component[d])
    BY DEF setInitialActualValueFE, running
  <1>4. AggOK(fe) /\ fe.width = width /\ Summed(fe) /\ shown = fe.lastActualVal
        /\ fe \in AggType /\ Len(fe.comps) \in Nat
    BY CompsOf DEF DataInv, FeInv, AggOK
  <1>5. PICK k \in 1 .. Len(fe.comps) : k = component[d]
    BY <1>3, TypesOf
  <1>6. PICK c \in CompType : c = fe.comps[k] /\ CompOK(c, fe.curIntvlStart)
    BY <1>4, CompsOf DEF AggOK
  <1>7. PICK b : b = [c EXCEPT !.actualSet = TRUE]
    OBVIOUS
  <1>8. /\ b \in CompType /\ b.futureSamples = c.futureSamples /\ b.last = c.last
        /\ b.bIsFinished = c.bIsFinished
        /\ b.curActualVal = c.curActualVal /\ b.curIntvlVal = c.curIntvlVal
    BY <1>7 DEF CompType
  <1>9. CompOK(b, fe.curIntvlStart)
    BY <1>6, <1>8 DEF CompOK
  <1>10. fe' = [fe EXCEPT !.comps[k] = b]
    <2>1. fe.comps \in Seq(CompType)
      BY <1>4, CompsOf
    <2> QED
      BY <1>3, <1>4, <1>5, <1>6, <1>7, <2>1 DEF setInitialActualValue, AggType
  <1>11. OneChanged(fe, fe', k, b)
    BY <1>4, <1>8, <1>9, <1>10, OneComp
  <1>12. /\ AggOK(fe') /\ Len(fe'.comps) = Len(fe.comps) /\ fe'.comps[k] = b
         /\ \A i \in 1 .. Len(fe.comps) : i # k => fe'.comps[i] = fe.comps[i]
         /\ fe'.width = fe.width /\ fe'.lastActualVal = fe.lastActualVal /\ Summed(fe')
    BY <1>4, <1>6, <1>8, <1>11 DEF OneChanged
  <1>13. Given(b) = Given(c) /\ GivenUpTo(b) = GivenUpTo(c)
    BY <1>8 DEF Given, GivenUpTo, ActualVal
  <1>14. \A i \in 1 .. Len(fe.comps) :
            /\ Given(fe'.comps[i]) = Given(fe.comps[i])
            /\ GivenUpTo(fe'.comps[i]) = GivenUpTo(fe.comps[i])
            /\ fe'.comps[i].bIsFinished = fe.comps[i].bIsFinished
    BY <1>6, <1>8, <1>12, <1>13
  <1>15. TypeInv'
    BY <1>1, <1>2, <1>12 DEF DataInv, TypeInv, AggOK
  <1>16. FeInv'
    BY <1>1, <1>4, <1>12, <1>14, FeFrame
  <1>17. NodesInv' /\ MeasuredInv'
    BY <1>1, DaemonsFrame DEF daemons
  <1>18. ASSUME NEW e \in Daemon PROVE Link(e)'
    <2>1. component[e] # 0 => component[e] \in 1 .. Len(fe.comps)
      BY DEF DataInv, FeInv
    <2>2. SameButQueue(e)
      BY <1>1, <1>14, <2>1 DEF SameButQueue
    <2>3. CASE e = d
      BY <1>2, <2>2, <2>3, DropHead DEF Answers
    <2>4. CASE e # d
      BY <1>2, <2>2, <2>4, LinkFrame DEF SameLink, DataInv, LinkInv
    <2> QED
      BY <2>3, <2>4
  <1>19. EnabledInv'
    BY <1>1 DEF DataInv, EnabledInv
  <1> QED
    BY <1>15, <1>16, <1>17, <1>18, <1>19 DEF DataInv, LinkInv

LEMMA batchInv ==
    ASSUME DataInv, running', NEW d \in Daemon, batchSampleDataCallbackFunc(d)
    PROVE  DataInv'
  <1>1. /\ width' = width /\ component' = component /\ asked' = asked /\ refused' = refused
        /\ enabled' = enabled /\ clockNow' = clockNow
        /\ toDaemon' = toDaemon
        /\ node' = node /\ procNode' = procNode /\ toDelete' = toDelete /\ live' = live
        /\ waiting' = waiting /\ measured' = measured
    BY DEF batchSampleDataCallbackFunc, daemons
  <1>2. /\ toFE[d] \in Seq(MsgType) /\ toFE[d] # <<>> /\ Head(toFE[d]).kind = "batch"
        /\ toFE' \in [Daemon -> Seq(MsgType)] /\ toFE'[d] = Tail(toFE[d])
        /\ \A e \in Daemon : e # d => toFE'[e] = toFE[e]
    BY ReceivedIs DEF batchSampleDataCallbackFunc
  <1>3. AggOK(fe) /\ fe.width = width /\ Summed(fe) /\ shown = fe.lastActualVal
        /\ fe \in AggType /\ Len(fe.comps) \in Nat
    BY CompsOf DEF DataInv, FeInv, AggOK
  <1>4. NodesInv' /\ MeasuredInv'
    BY <1>1, DaemonsFrame DEF daemons
  <1>5. EnabledInv'
    BY <1>1 DEF DataInv, EnabledInv
  <1>6. CASE component[d] = 0
    <2>1. fe' = fe /\ shown' = shown
      BY <1>6 DEF batchSampleDataCallbackFunc
    <2>2. TypeInv' /\ FeInv'
      BY <1>1, <1>2, <2>1 DEF DataInv, TypeInv, FeInv
    <2>3. ASSUME NEW e \in Daemon PROVE Link(e)'
      <3>1. SameButQueue(e)
        BY <1>1, <2>1 DEF SameButQueue
      <3>2. CASE e = d
        BY <1>2, <1>6, <3>1, <3>2, DropHead DEF Answers
      <3>3. CASE e # d
        BY <1>2, <3>1, <3>3, LinkFrame DEF SameLink, DataInv, LinkInv
      <3> QED
        BY <3>2, <3>3
    <2> QED
      BY <1>4, <1>5, <2>2, <2>3 DEF DataInv, LinkInv
  <1>7. CASE component[d] # 0
    <2>1. Component(d)
      BY <1>7 DEF DataInv, LinkInv, Link, Idle, Requested, Succeeded, Refused
    <2>2. PICK k \in 1 .. Len(fe.comps) : k = component[d] /\ ~fe.comps[k].bIsFinished
      BY <1>7, TypesOf DEF DataInv, FeInv
    <2>0. PICK u : u = GivenUpTo(fe.comps[k])
      OBVIOUS
    <2>3. PICK g \in Int : g = Given(fe.comps[k]) /\ u = GivenUpTo(fe.comps[k])
      BY <1>7, <2>0, <2>2, TypesOf
    <2>4. Follows(node[d], toFE[d], g, u)
      BY <2>1, <2>2, <2>3 DEF Component
    <2>5. PICK es : es = Head(toFE[d]).entries
      OBVIOUS
    <2>6. es = EntriesOf(Head(toFE[d]))
      BY <1>2, <2>5 DEF EntriesOf
    <2>7. /\ es \in Seq(IntvlType) /\ Contiguous(es)
          /\ es # <<>> /\ u # NotSet => es[1].start = u
          /\ Follows(node[d], Tail(toFE[d]), g + Values(es), NextOf(es, u))
      <3>0. PICK n : n = node[d]
        OBVIOUS
      <3>1. PICK q \in Seq(MsgType) : n = node[d] /\ q = toFE[d]
        BY <1>2, <3>0
      <3>2. n.agg.lastActualVal \in Int
        BY <3>1, TypesOf
      <3>3. q # <<>> /\ Head(q).kind # "end" /\ Follows(n, q, g, u) /\ es = EntriesOf(Head(q))
        BY <1>2, <2>4, <2>6, <3>1
      <3>4. /\ es \in Seq(IntvlType) /\ Contiguous(es)
            /\ es # <<>> /\ u # NotSet => es[1].start = u
            /\ Follows(n, Tail(q), g + Values(es), NextOf(es, u))
        BY <3>2, <3>3, FollowsTail
      <3> QED
        BY <3>1, <3>4
    <2>8. PICK r : r = AddEntries(fe, k, es)
      OBVIOUS
    <2>9. /\ fe' = r.agg /\ shown' = shown + Values(r.out)
          /\ failed' = IF r.ok THEN failed ELSE "setInitialStartTime"
      BY <1>7, <2>2, <2>5, <2>8 DEF batchSampleDataCallbackFunc
    <2>10. r.ok
      BY <2>9 DEF running
    <2>11. EntriesFed(fe, fe', k, es, r.out)
      BY <1>3, <2>2, <2>3, <2>7, <2>8, <2>9, <2>10, AddMany
    <2>12. /\ AggOK(fe') /\ fe'.width = fe.width /\ Len(fe'.comps) = Len(fe.comps)
           /\ Summed(fe') /\ Values(r.out) = fe'.lastActualVal - fe.lastActualVal
           /\ Given(fe'.comps[k]) = g + Values(es)
           /\ GivenUpTo(fe'.comps[k]) = NextOf(es, u)
           /\ fe'.comps[k].bIsFinished = fe.comps[k].bIsFinished
           /\ \A i \in 1 .. Len(fe.comps) : i # k => SameComp(fe.comps[i], fe'.comps[i])
      BY <1>3, <2>3, <2>11 DEF EntriesFed
    <2>13. shown' = fe'.lastActualVal /\ shown' \in Int /\ fe' \in AggType
      <3>1. fe'.lastActualVal \in Int /\ fe.lastActualVal \in Int /\ fe' \in AggType
        BY <1>3, <2>12 DEF AggOK, AggType
      <3> QED
        BY <1>3, <2>9, <2>12, <3>1
    <2>14. TypeInv'
      BY <1>1, <1>2, <2>13 DEF DataInv, TypeInv
    <2>15. FeInv'
      <3>1. \A i \in 1 .. Len(fe.comps) : fe'.comps[i].bIsFinished = fe.comps[i].bIsFinished
        BY <2>12 DEF SameComp
      <3> QED
        BY <1>1, <1>3, <2>12, <2>13, <3>1, FeFrame
    <2>16. Link(d)'
      <3>1. Component(d)'
        BY <1>1, <1>2, <2>1, <2>2, <2>7, <2>12 DEF Component
      <3> QED
        BY <3>1 DEF Link
    <2>17. ASSUME NEW e \in Daemon, e # d PROVE Link(e)'
      <3>1. component[e] # 0 => component[e] \in 1 .. Len(fe.comps) /\ component[e] # k
        BY <2>2, <2>17, <1>7 DEF DataInv, FeInv
      <3>2. SameButQueue(e)
        BY <1>1, <2>12, <3>1 DEF SameButQueue, SameComp
      <3> QED
        BY <1>2, <2>17, <3>2, LinkFrame DEF SameLink, DataInv, LinkInv
    <2> QED
      BY <1>4, <1>5, <2>14, <2>15, <2>16, <2>17 DEF DataInv, LinkInv
  <1> QED
    BY <1>6, <1>7

(* Components go.                                                          *)
Gone(D, b, v) ==
    /\ AggOK(b) /\ b.width = fe.width /\ Len(b.comps) = Len(fe.comps) /\ Summed(b)
    /\ v = b.lastActualVal - fe.lastActualVal
    /\ \A d \in Daemon \ D : component[d] # 0 =>
          /\ Given(b.comps[component[d]]) = Given(fe.comps[component[d]])
          /\ GivenUpTo(b.comps[component[d]]) = GivenUpTo(fe.comps[component[d]])
          /\ ~b.comps[component[d]].bIsFinished

LEMMA WithoutIs ==
    ASSUME DataInv, NEW D \in SUBSET components
    PROVE  Gone(D, aggregatorWithout(D).agg, Values(aggregatorWithout(D).out))
  <1>1. AggOK(fe) /\ Summed(fe) /\ fe \in AggType /\ fe.lastActualVal \in Int
    BY DEF DataInv, FeInv, AggOK, AggType
  <1>2. PICK n \in Nat : n = Len(fe.comps)
    BY <1>1, CompsOf
  <1>3. /\ DOMAIN fe.comps = 1 .. n
        /\ \A i \in 1 .. n : fe.comps[i] \in CompType /\ CompOK(fe.comps[i], fe.curIntvlStart)
    BY <1>1, <1>2, CompsOf DEF AggOK
  <1> DEFINE goes(i) == \E d \in D : component[d] = i
             mark(i) == [fe.comps[i] EXCEPT !.bIsFinished = @ \/ goes(i)]
             cs == [i \in 1 .. n |-> mark(i)]
             m == [fe EXCEPT !.comps = cs]
  <1>4. ASSUME NEW i \in 1 .. n
        PROVE  /\ mark(i) \in CompType /\ CompOK(mark(i), fe.curIntvlStart)
               /\ Given(mark(i)) = Given(fe.comps[i])
               /\ GivenUpTo(mark(i)) = GivenUpTo(fe.comps[i])
               /\ mark(i).curActualVal = fe.comps[i].curActualVal
               /\ ~goes(i) => mark(i).bIsFinished = fe.comps[i].bIsFinished
    <2>1. PICK c \in CompType : c = fe.comps[i] /\ CompOK(c, fe.curIntvlStart)
      BY <1>3
    <2>2. PICK f \in BOOLEAN : f = (c.bIsFinished \/ goes(i))
      OBVIOUS
    <2>3. PICK b : b = [c EXCEPT !.bIsFinished = f]
      OBVIOUS
    <2>4. b = mark(i)
      BY <2>1, <2>2, <2>3 DEF CompType
    <2>5. c.bIsFinished \in BOOLEAN /\ (c.bIsFinished => f) /\ (~goes(i) => f = c.bIsFinished)
      BY <2>2 DEF CompType
    <2> HIDE DEF mark, goes
    <2>6. /\ b \in CompType /\ b.bIsFinished = f /\ b.futureSamples = c.futureSamples
          /\ b.last = c.last /\ b.curActualVal = c.curActualVal /\ b.curIntvlVal = c.curIntvlVal
      BY <2>3 DEF CompType
    <2>7. CompOK(b, fe.curIntvlStart)
      BY <2>1, <2>5, <2>6 DEF CompOK
    <2>8. Given(b) = Given(c) /\ GivenUpTo(b) = GivenUpTo(c)
      BY <2>6 DEF Given, GivenUpTo, ActualVal
    <2> QED
      BY <2>1, <2>4, <2>5, <2>6, <2>7, <2>8
  <1> HIDE DEF mark
  <1>5. cs \in [1 .. n -> CompType] /\ \A i \in 1 .. n : cs[i] = mark(i)
    BY <1>4
  <1> HIDE DEF cs
  <1>6. /\ AggOK(m) /\ m.comps = cs /\ Len(m.comps) = n
        /\ m.width = fe.width /\ m.lastActualVal = fe.lastActualVal /\ Summed(m)
    BY <1>1, <1>2, <1>4, <1>5, OtherComps
  <1>7. m = [fe EXCEPT !.comps = [i \in DOMAIN fe.comps |->
                      [fe.comps[i] EXCEPT !.bIsFinished = @ \/ \E d \in D : component[d] = i]]]
    BY <1>3 DEF cs, mark
  <1> HIDE DEF m
  <1>8. ASSUME NEW d \in Daemon \ D, component[d] # 0
        PROVE  /\ component[d] \in 1 .. n
               /\ Given(m.comps[component[d]]) = Given(fe.comps[component[d]])
               /\ GivenUpTo(m.comps[component[d]]) = GivenUpTo(fe.comps[component[d]])
               /\ ~m.comps[component[d]].bIsFinished
    <2>1. /\ component[d] \in 1 .. n /\ ~fe.comps[component[d]].bIsFinished
          /\ \A e \in Daemon : component[e] = component[d] => e = d
      BY <1>2, <1>8 DEF DataInv, FeInv
    <2>2. ~goes(component[d])
      BY <2>1 DEF components
    <2> HIDE DEF goes
    <2> QED
      BY <1>4, <1>5, <1>6, <2>1, <2>2
  <1>9. CASE D # {} /\ D = components
    <2>1. aggregatorWithout(D) = aggregate(m)
      BY <1>7, <1>9 DEF aggregatorWithout
    <2>2. PICK b, o : b = aggregate(m).agg /\ o = aggregate(m).out
      OBVIOUS
    <2>3. Aggregated(m, b, o)
      BY <1>6, <2>2, AggregateOnce
    <2>4. \A d \in Daemon \ D : component[d] = 0
      BY <1>9 DEF components
    <2>5. Gone(D, b, Values(o))
      BY <1>2, <1>6, <2>3, <2>4 DEF Gone, Aggregated, Emits, SameComps
    <2> QED
      BY <2>1, <2>2, <2>5
  <1>10. CASE ~(D # {} /\ D = components)
    <2>1. PICK e : e = <<>> /\ Values(e) = 0
      BY ValuesEmpty
    <2>2. aggregatorWithout(D) = [agg |-> m, out |-> e]
      BY <1>7, <1>10, <2>1 DEF aggregatorWithout
    <2>3. m.lastActualVal - fe.lastActualVal = 0
      BY <1>1, <1>6
    <2>4. Gone(D, m, Values(e))
      BY <1>2, <1>6, <1>8, <2>1, <2>3 DEF Gone
    <2> QED
      BY <2>2, <2>4
  <1> QED
    BY <1>9, <1>10

(* The components of D go, and their daemons are told.                     *)
LEMMA RemoveIs ==
    ASSUME DataInv, NEW D \in SUBSET components, removeComponents(D), width' = width
    PROVE  /\ Gone(D, fe', shown' - shown) /\ FeInv' /\ fe' \in AggType /\ shown' \in Int
           /\ component' \in [Daemon -> Nat]
           /\ toDaemon' \in [Daemon -> Seq({"enable", "disable"})]
           /\ \A d \in Daemon :
                 /\ component'[d] = IF d \in D THEN 0 ELSE component[d]
                 /\ toDaemon'[d] = IF d \in D THEN Append(toDaemon[d], "disable")
                                   ELSE toDaemon[d]
  <1>1. PICK r : r = aggregatorWithout(D) /\ fe' = r.agg /\ shown' = shown + Values(r.out)
    BY DEF removeComponents
  <1>2. Gone(D, fe', Values(r.out))
    BY <1>1, WithoutIs
  <1>3. /\ fe.lastActualVal \in Int /\ fe'.lastActualVal \in Int /\ fe' \in AggType
        /\ fe.width = width /\ shown = fe.lastActualVal
    BY <1>2 DEF Gone, AggOK, AggType, DataInv, FeInv
  <1>4. /\ Values(r.out) = fe'.lastActualVal - fe.lastActualVal
        /\ AggOK(fe') /\ fe'.width = fe.width /\ Len(fe'.comps) = Len(fe.comps) /\ Summed(fe')
        /\ \A d \in Daemon \ D : component[d] # 0 => ~fe'.comps[component[d]].bIsFinished
    BY <1>2 DEF Gone
  <1>5. shown' = fe'.lastActualVal /\ shown' \in Int /\ shown' - shown = Values(r.out)
    BY <1>1, <1>3, <1>4
  <1>6. /\ toDaemon' \in [Daemon -> Seq({"enable", "disable"})]
        /\ \A d \in Daemon : toDaemon'[d] = IF d \in D THEN Append(toDaemon[d], "disable")
                                            ELSE toDaemon[d]
    BY TellIs DEF removeComponents
  <1>7. /\ component' \in [Daemon -> Nat]
        /\ \A d \in Daemon : component'[d] = IF d \in D THEN 0 ELSE component[d]
    BY DEF removeComponents, DataInv, TypeInv
  <1>8. FeInv'
    <2>1. ASSUME NEW d \in Daemon, component'[d] # 0
          PROVE  /\ component'[d] \in 1 .. Len(fe'.comps)
                 /\ ~fe'.comps[component'[d]].bIsFinished
                 /\ \A e \in Daemon : component'[e] = component'[d] => e = d
      <3>1. d \notin D /\ component'[d] = component[d] /\ component[d] # 0
        BY <1>7, <2>1
      <3>2. /\ component[d] \in 1 .. Len(fe.comps)
            /\ \A e \in Daemon : component[e] = component[d] => e = d
        BY <3>1 DEF DataInv, FeInv
      <3> QED
        BY <1>4, <1>7, <3>1, <3>2
    <2> QED
      BY <1>3, <1>4, <1>5, <2>1 DEF FeInv
  <1> QED
    BY <1>2, <1>3, <1>5, <1>6, <1>7, <1>8

LEMMA OthersStay ==
    ASSUME DataInv, NEW D, Gone(D, fe', shown' - shown), NEW e \in Daemon \ D,
           component'[e] = component[e], toDaemon'[e] = toDaemon[e],
           asked' = asked, toDelete' = toDelete, node' = node
    PROVE  SameButQueue(e)
  BY DEF Gone, SameButQueue

LEMMA DisableInv ==
    ASSUME DataInv, Disable
    PROVE  DataInv'
  <1>1. /\ width' = width /\ asked' = asked /\ refused' = refused /\ failed' = failed
        /\ enabled /\ enabled' = FALSE /\ clockNow' = clockNow /\ toFE' = toFE
        /\ node' = node /\ procNode' = procNode /\ toDelete' = toDelete /\ live' = live
        /\ waiting' = waiting /\ measured' = measured
    BY DEF Disable, daemons
  <1>2. PICK D \in SUBSET components : D = components
    OBVIOUS
  <1>3. /\ Gone(D, fe', shown' - shown) /\ FeInv' /\ fe' \in AggType /\ shown' \in Int
        /\ component' \in [Daemon -> Nat]
        /\ toDaemon' \in [Daemon -> Seq({"enable", "disable"})]
        /\ \A d \in Daemon :
              /\ component'[d] = IF d \in D THEN 0 ELSE component[d]
              /\ toDaemon'[d] = IF d \in D THEN Append(toDaemon[d], "disable")
                                ELSE toDaemon[d]
    BY <1>1, <1>2, RemoveIs DEF Disable
  <1>4. TypeInv'
    BY <1>1, <1>3 DEF DataInv, TypeInv
  <1>5. NodesInv' /\ MeasuredInv'
    BY <1>1, DaemonsFrame DEF daemons
  <1>6. ASSUME NEW d \in Daemon PROVE Link(d)'
    <2>1. CASE d \in D
      <3>1. component[d] # 0
        BY <1>2, <2>1 DEF components
      <3>2. Component(d)
        BY <3>1 DEF DataInv, LinkInv, Link, Idle, Requested, Succeeded, Refused
      <3>3. NoAnswer(toFE[d]) /\ d \notin asked /\ toDaemon[d] = <<>>
        BY <3>2 DEF Component, Follows
      <3>4. toDaemon'[d] = <<"disable">> /\ toDaemon'[d] # <<>>
        BY <1>3, <2>1, <3>3, Told
      <3>5. Idle(d)'
        BY <1>1, <1>3, <2>1, <3>3, <3>4 DEF Idle
      <3> QED
        BY <3>5 DEF Link
    <2>2. CASE d \notin D
      <3>1. SameLink(d)
        BY <1>1, <1>3, <2>2, OthersStay DEF SameLink
      <3> QED
        BY <3>1, LinkFrame DEF DataInv, LinkInv
    <2> QED
      BY <2>1, <2>2
  <1>7. EnabledInv'
    <2>1. asked = {}
      BY <1>1 DEF DataInv, EnabledInv
    <2> QED
      BY <1>1, <2>1 DEF EnabledInv
  <1> QED
    BY <1>3, <1>4, <1>5, <1>6, <1>7 DEF DataInv, LinkInv

LEMMA HandleEndInv ==
    ASSUME DataInv, NEW d \in Daemon, HandleEnd(d)
    PROVE  DataInv'
  <1>1. /\ width' = width /\ asked' = asked /\ refused' = refused /\ failed' = failed
        /\ enabled' = enabled /\ clockNow' = clockNow
        /\ node' = node /\ procNode' = procNode /\ toDelete' = toDelete /\ live' = live
        /\ waiting' = waiting /\ measured' = measured
    BY DEF HandleEnd, daemons
  <1>2. /\ toFE[d] \in Seq(MsgType) /\ toFE[d] # <<>> /\ Head(toFE[d]).kind = "end"
        /\ toFE' \in [Daemon -> Seq(MsgType)] /\ toFE'[d] = Tail(toFE[d])
        /\ \A e \in Daemon : e # d => toFE'[e] = toFE[e]
    BY ReceivedIs DEF HandleEnd
  <1>3. PICK D \in SUBSET components : D = {d} \intersect components
    OBVIOUS
  <1>4. /\ Gone(D, fe', shown' - shown) /\ FeInv' /\ fe' \in AggType /\ shown' \in Int
        /\ component' \in [Daemon -> Nat]
        /\ toDaemon' \in [Daemon -> Seq({"enable", "disable"})]
        /\ \A e \in Daemon :
              /\ component'[e] = IF e \in D THEN 0 ELSE component[e]
              /\ toDaemon'[e] = IF e \in D THEN Append(toDaemon[e], "disable")
                                ELSE toDaemon[e]
    BY <1>1, <1>3, RemoveIs DEF HandleEnd
  <1>5. TypeInv'
    BY <1>1, <1>2, <1>4 DEF DataInv, TypeInv
  <1>6. NodesInv' /\ MeasuredInv'
    BY <1>1, DaemonsFrame DEF daemons
  <1>7. d \in D => NoAnswer(toFE[d]) /\ d \notin asked /\ toDaemon[d] = <<>> /\ ~node[d].exists
    <2>1. ASSUME d \in D
          PROVE  NoAnswer(toFE[d]) /\ d \notin asked /\ toDaemon[d] = <<>> /\ ~node[d].exists
      <3>1. component[d] # 0
        BY <1>3, <2>1 DEF components
      <3>2. Component(d)
        BY <3>1 DEF DataInv, LinkInv, Link, Idle, Requested, Succeeded, Refused
      <3>3. Ended(toFE[d])
        <4>1. PICK h \in Seq(MsgType), t \in Seq(MsgType) :
                 h = <<Head(toFE[d])>> /\ t = Tail(toFE[d]) /\ toFE[d] = h \o t
          BY <1>2, QueueHead
        <4>2. Head(toFE[d]) \in MsgType
          BY <1>2, QueueHead
        <4>3. Ended(h)
          BY <1>2, <4>1, <4>2, KindsOne
        <4> QED
          BY <4>1, <4>3, KindsBoth
      <3> QED
        BY <3>2, <3>3 DEF Component, Follows
    <2> QED
      BY <2>1
  <1>8. Link(d)'
    <2>1. CASE d \in D
      <3>1. toDaemon'[d] = <<"disable">> /\ toDaemon'[d] # <<>>
        BY <1>4, <1>7, <2>1, Told
      <3>2. NoAnswer(toFE'[d])
        BY <1>2, <1>7, <2>1, NoAnswerTail
      <3>3. Idle(d)'
        BY <1>1, <1>4, <1>7, <2>1, <3>1, <3>2 DEF Idle
      <3> QED
        BY <3>3 DEF Link
    <2>2. CASE d \notin D
      <3>1. SameButQueue(d)
        BY <1>1, <1>4, <2>2, OthersStay
      <3>2. component[d] = 0
        BY <1>3, <2>2 DEF components
      <3> QED
        BY <1>2, <3>1, <3>2, DropHead DEF Answers
    <2> QED
      BY <2>1, <2>2
  <1>9. ASSUME NEW e \in Daemon, e # d PROVE Link(e)'
    <2>1. e \notin D
      BY <1>3, <1>9
    <2>2. SameLink(e)
      BY <1>1, <1>2, <1>4, <1>9, <2>1, OthersStay DEF SameLink
    <2> QED
      BY <2>2, LinkFrame DEF DataInv, LinkInv
  <1>10. EnabledInv'
    <2>1. \A e \in Daemon : component[e] # 0 /\ component'[e] = 0 => ~node[e].exists
      BY <1>3, <1>4, <1>7
    <2>2. EnabledInv
      BY DEF DataInv
    <2> QED
      BY <1>1, <2>1, <2>2 DEF EnabledInv
  <1> QED
    BY <1>4, <1>5, <1>6, <1>8, <1>9, <1>10 DEF DataInv, LinkInv

-----------------------------------------------------------------------------
(* A daemon takes a message.                                               *)
LEMMA HandledIs ==
    ASSUME DataInv, NEW d \in Daemon, NEW m, HandledBy(d, m)
    PROVE  /\ toDaemon[d] # <<>> /\ Head(toDaemon[d]) = m
           /\ toDaemon' \in [Daemon -> Seq({"enable", "disable"})]
           /\ toDaemon'[d] = Tail(toDaemon[d])
           /\ \A e \in Daemon : e # d => toDaemon'[e] = toDaemon[e]
  <1>1. toDaemon \in [Daemon -> Seq({"enable", "disable"})]
    BY DEF DataInv, TypeInv
  <1>2. /\ toDaemon[d] # <<>> /\ Head(toDaemon[d]) = m
        /\ toDaemon' = [toDaemon EXCEPT ![d] = Tail(@)]
    BY DEF HandledBy
  <1>3. Tail(toDaemon[d]) \in Seq({"enable", "disable"})
    BY <1>1, <1>2, QueueHead
  <1> QED
    BY <1>1, <1>2, <1>3

LEMMA HandleDisableInv ==
    ASSUME DataInv, NEW d \in Daemon, HandleDisable(d)
    PROVE  DataInv'
  <1>1. /\ width' = width /\ fe' = fe /\ component' = component /\ asked' = asked
        /\ refused' = refused /\ enabled' = enabled /\ failed' = failed /\ shown' = shown
        /\ clockNow' = clockNow /\ toFE' = toFE
        /\ node' = node /\ procNode' = procNode /\ live' = live
        /\ waiting' = waiting /\ measured' = measured
        /\ toDelete' = toDelete \union {d}
    BY DEF HandleDisable, frontEnd
  <1>2. /\ toDaemon[d] # <<>> /\ Head(toDaemon[d]) = "disable"
        /\ toDaemon' \in [Daemon -> Seq({"enable", "disable"})]
        /\ toDaemon'[d] = Tail(toDaemon[d])
        /\ \A e \in Daemon : e # d => toDaemon'[e] = toDaemon[e]
    BY HandledIs DEF HandleDisable
  <1>3. TypeInv'
    BY <1>1, <1>2 DEF DataInv, TypeInv
  <1>4. FeInv'
    BY <1>1 DEF DataInv, FeInv
  <1>5. NodesInv' /\ MeasuredInv'
    <2>1. NodesInv /\ MeasuredInv
      BY DEF DataInv
    <2> QED
      BY <1>1, <2>1, SMTT(20) DEF NodesInv, NodeOK, ProcOK, MeasuredInv
  <1>6. Link(d)'
    <2>1. Idle(d) \/ Requested(d)
      BY <1>2 DEF DataInv, LinkInv, Link, Component, Succeeded, Refused
    <2>2. CASE Idle(d)
      <3>1. toDaemon[d] = <<"disable">>
        BY <1>2, <2>2 DEF Idle
      <3>2. toDaemon'[d] = <<>>
        BY <1>2, <3>1, Told
      <3>3. Idle(d)'
        BY <1>1, <2>2, <3>2 DEF Idle
      <3> QED
        BY <3>3 DEF Link
    <2>3. CASE Requested(d)
      <3>1. toDaemon[d] = <<"disable", "enable">>
        <4>1. "enable" # "disable"
          OBVIOUS
        <4> QED
          BY <1>2, <2>3, <4>1, Told DEF Requested
      <3>2. toDaemon'[d] = <<"enable">>
        BY <1>2, <3>1, Told
      <3>3. Requested(d)'
        BY <1>1, <2>3, <3>2 DEF Requested
      <3> QED
        BY <3>3 DEF Link
    <2> QED
      BY <2>1, <2>2, <2>3
  <1>7. ASSUME NEW e \in Daemon, e # d PROVE Link(e)'
    <2>1. SameLink(e)
      BY <1>1, <1>2, <1>7 DEF SameLink, SameButQueue
    <2> QED
      BY <2>1, LinkFrame DEF DataInv, LinkInv
  <1>8. EnabledInv'
    BY <1>1 DEF DataInv, EnabledInv
  <1> QED
    BY <1>3, <1>4, <1>5, <1>6, <1>7, <1>8 DEF DataInv, LinkInv

-----------------------------------------------------------------------------
(* The steps of a daemon: it is asked to enable the instance.              *)

(* The elements of a finite set, one after the other.                      *)
Lists(q, S) ==
    /\ q \in Seq(S) /\ q \in [1 .. Len(q) -> S]
    /\ \A x \in S : \E i \in 1 .. Len(q) : q[i] = x
    /\ \A i, j \in 1 .. Len(q) : q[i] = q[j] => i = j

LEMMA SetToSeqIs ==
    ASSUME NEW S, IsFiniteSet(S)
    PROVE  Lists(SetToSeq(S), S)
  <1>1. PICK n \in Nat : n = Cardinality(S) /\ ExistsBijection(1 .. n, S)
    BY FS_CardinalityType
  <1>2. PICK g \in [1 .. n -> S] : IsInjective(g)
    <2>1. PICK g : g \in Bijection(1 .. n, S)
      BY <1>1 DEF ExistsBijection
    <2> QED
      BY <2>1 DEF Bijection, Injection
  <1>3. PICK q : q = SetToSeq(S)
    OBVIOUS
  <1>4. q \in [1 .. n -> S] /\ IsInjective(q)
    BY <1>1, <1>2, <1>3 DEF SetToSeq
  <1>5. q \in Seq(S) /\ Len(q) = n
    BY <1>4
  <1>6. \A i, j \in 1 .. n : q[i] = q[j] => i = j
    BY <1>4 DEF IsInjective
  <1>7. q \in Surjection(1 .. n, S)
    <2>1. q \in Injection(1 .. n, S)
      BY <1>4 DEF Injection
    <2>2. Cardinality(1 .. n) = n
      <3>1. 1 \in Int /\ n \in Int /\ n - 1 + 1 = n
        OBVIOUS
      <3>2. Cardinality(1 .. n) = IF 1 > n THEN 0 ELSE n - 1 + 1
        BY <3>1, FS_Interval
      <3> QED
        BY <3>1, <3>2
    <2> QED
      BY <1>1, <2>1, <2>2, FS_Injection
  <1>8. \A x \in S : \E i \in 1 .. n : q[i] = x
    BY <1>7 DEF Surjection
  <1> QED
    BY <1>3, <1>4, <1>5, <1>6, <1>8 DEF Lists

-----------------------------------------------------------------------------
(* What starts.                                                            *)
LEMMA SumsOfFew ==
    ASSUME NEW a \in AggType
    PROVE  /\ a.comps = <<>> => SumOf([i \in DOMAIN a.comps |-> Given(a.comps[i])]) = 0
           /\ Len(a.comps) = 1 => SumOf([i \in DOMAIN a.comps |-> Given(a.comps[i])])
                                    = Given(a.comps[1])
  <1>1. /\ DOMAIN a.comps = 1 .. Len(a.comps) /\ Len(a.comps) \in Nat
        /\ \A i \in 1 .. Len(a.comps) : a.comps[i] \in CompType
    BY CompsOf
  <1>2. \A i \in 1 .. Len(a.comps) : Given(a.comps[i]) \in Int
    BY <1>1, GivenType
  <1>3. PICK s \in Seq(Int) : /\ s = [i \in DOMAIN a.comps |-> Given(a.comps[i])]
                              /\ Len(s) = Len(a.comps)
                              /\ \A i \in 1 .. Len(s) : s[i] = Given(a.comps[i])
    <2>1. PICK n \in Nat : n = Len(a.comps)
      BY <1>1
    <2>2. PICK s : s = [i \in 1 .. n |-> Given(a.comps[i])]
      OBVIOUS
    <2>3. s \in [1 .. n -> Int]
      BY <1>2, <2>1, <2>2
    <2>4. s \in Seq(Int) /\ Len(s) = n
      BY <2>3
    <2>5. \A i \in 1 .. n : s[i] = Given(a.comps[i])
      BY <2>2
    <2>6. s = [i \in DOMAIN a.comps |-> Given(a.comps[i])]
      BY <1>1, <2>1, <2>2
    <2> QED
      BY <2>1, <2>4, <2>5, <2>6
  <1>4. a.comps = <<>> => SumOf(s) = 0
    <2>1. a.comps = <<>> => Len(s) = 0
      BY <1>3
    <2>2. Len(s) = 0 => s = <<>>
      BY EmptySeq
    <2> QED
      BY <2>1, <2>2, SumEmpty
  <1>5. Len(a.comps) = 1 => SumOf(s) = Given(a.comps[1])
    <2>1. ASSUME Len(a.comps) = 1 PROVE SumOf(s) = Given(a.comps[1])
      <3>1. PICK x \in Int : x = Given(a.comps[1]) /\ s[1] = x /\ Len(s) = 1
        BY <1>2, <1>3, <2>1
      <3>2. PICK t \in Seq(Int) : t = <<x>> /\ Len(t) = 1 /\ t[1] = x
        <4>1. <<x>> \in Seq(Int)
          OBVIOUS
        <4> QED
          BY <4>1
      <3>3. \A i \in 1 .. 1 : i = 1
        OBVIOUS
      <3>4. s = t
        BY <3>1, <3>2, <3>3, SeqEqual
      <3> QED
        BY <3>1, <3>2, <3>4, SumOne
    <2> QED
      BY <2>1
  <1> QED
    BY <1>3, <1>4, <1>5

LEMMA StartedComp ==
    ASSUME clockNow' \in Nat
    PROVE  /\ startedComponent \in CompType /\ startedComponent.last = clockNow'
           /\ startedComponent.futureSamples = <<>>
           /\ Given(startedComponent) = 0 /\ GivenUpTo(startedComponent) = clockNow'
           /\ ~startedComponent.bIsFinished /\ startedComponent.curActualVal = 0
           /\ CompOK(startedComponent, NotSet)
  <1>1. <<>> \in Seq(SampleType)
    OBVIOUS
  <1>2. PICK e \in Seq(SampleType) : e = <<>> /\ Len(e) = 0
    BY <1>1
  <1>3. PICK c : c = startedComponent
    OBVIOUS
  <1>4. c = [last |-> clockNow', actualSet |-> TRUE, curIntvlVal |-> 0, curActualVal |-> 0,
             futureSamples |-> e, bIsFinished |-> FALSE]
    BY <1>2, <1>3 DEF startedComponent, aggComponent
  <1>5. /\ c \in CompType /\ c.futureSamples = e /\ c.last = clockNow' /\ ~c.bIsFinished
        /\ c.curActualVal = 0 /\ c.curIntvlVal = 0
    BY <1>4 DEF CompType
  <1>6. CompOK(c, NotSet)
    <2>1. NotSet <= clockNow' /\ clockNow' # NotSet
      BY DEF NotSet
    <2>2. Ascending(e, clockNow')
      BY <1>2 DEF Ascending
    <2> QED
      BY <1>2, <1>5, <2>1, <2>2 DEF CompOK
  <1>7. Given(c) = 0 /\ GivenUpTo(c) = clockNow'
    BY <1>2, <1>5, ValuesEmpty DEF Given, GivenUpTo, ActualVal
  <1> QED
    BY <1>2, <1>3, <1>5, <1>6, <1>7

LEMMA EmptyAgg ==
    ASSUME width \in Nat \ {0}
    PROVE  LET a == sampleAggregator(width)
           IN  /\ a \in AggType /\ AggOK(a) /\ a.width = width /\ a.curIntvlStart = NotSet
               /\ a.lastActualVal = 0 /\ a.comps = <<>> /\ Len(a.comps) = 0 /\ Summed(a)
  <1>1. PICK e \in Seq(CompType) : e = <<>> /\ Len(e) = 0 /\ DOMAIN e = 1 .. 0
    <2>1. PICK e \in Seq(CompType) : e = <<>>
      <3>1. <<>> \in Seq(CompType)
        OBVIOUS
      <3> QED
        BY <3>1
    <2>2. Len(e) = 0
      BY <2>1
    <2>3. DOMAIN e = 1 .. Len(e)
      BY LenProperties
    <2> QED
      BY <2>1, <2>2, <2>3
  <1>2. PICK a : a = [curIntvlStart |-> NotSet, width |-> width, lastActualVal |-> 0, comps |-> e]
    OBVIOUS
  <1>3. a \in AggType /\ a.comps = e /\ a.curIntvlStart = NotSet /\ a.width = width
        /\ a.lastActualVal = 0
    BY <1>2 DEF AggType
  <1>4. a = sampleAggregator(width)
    BY <1>1, <1>2 DEF sampleAggregator
  <1>5. AggOK(a)
    BY <1>1, <1>3 DEF AggOK
  <1>6. Summed(a)
    <2>1. PICK s \in Seq(Int) : s = [i \in DOMAIN e |-> e[i].curActualVal] /\ Len(s) = 0
      <3>1. [i \in 1 .. 0 |-> e[i].curActualVal] \in Seq(Int)
            /\ Len([i \in 1 .. 0 |-> e[i].curActualVal]) = 0
        OBVIOUS
      <3> QED
        BY <1>1, <3>1
    <2>2. SumOf(s) = 0
      BY <2>1, SumEmpty, EmptySeq
    <2> QED
      BY <1>3, <2>1, <2>2 DEF Summed
  <1> QED
    BY <1>1, <1>3, <1>4, <1>5, <1>6

(* A process that starts.                                                  *)
LEMMA StartedProc ==
    ASSUME width \in Nat \ {0}, clockNow' \in Nat, NEW i \in Nat
    PROVE  LET s == Started(i)
           IN  /\ s \in ProcNodeType /\ s.part = i /\ s.inserted /\ s.since = clockNow'
               /\ AggOK(s.agg) /\ s.agg.width = width /\ Len(s.agg.comps) = 1
               /\ s.agg.comps[1] = startedComponent /\ s.agg.lastActualVal = 0
               /\ FirstStart(s.agg) = clockNow'
               /\ SumOf([j \in DOMAIN s.agg.comps |-> Given(s.agg.comps[j])]) = 0
  <1>1. PICK a : a = sampleAggregator(width)
    OBVIOUS
  <1>2. /\ a \in AggType /\ AggOK(a) /\ a.width = width /\ a.curIntvlStart = NotSet
        /\ a.lastActualVal = 0 /\ Len(a.comps) = 0
    BY <1>1, EmptyAgg
  <1>3. PICK b : b = addStarted(a)
    OBVIOUS
  <1>4. CompAdded(a, b, startedComponent)
    BY <1>2, <1>3, StartedComp, AddComp DEF addStarted
  <1>5. /\ AggOK(b) /\ Len(b.comps) = 1 /\ b.comps[1] = startedComponent /\ b \in AggType
        /\ b.curIntvlStart = NotSet /\ b.width = width /\ b.lastActualVal = 0
    BY <1>2, <1>4 DEF CompAdded, AggOK
  <1>6. FirstStart(b) = clockNow'
    <2>1. {b.comps[j].last : j \in DOMAIN b.comps} = {clockNow'}
      <3>1. DOMAIN b.comps = 1 .. 1
        BY <1>5, CompsOf
      <3>2. \A j : j \in 1 .. 1 <=> j = 1
        OBVIOUS
      <3> QED
        BY <1>5, <3>1, <3>2, StartedComp
    <2>2. Min({clockNow'}) = clockNow'
      <3>1. {clockNow'} \in SUBSET Nat /\ {clockNow'} # {}
        OBVIOUS
      <3>2. Min({clockNow'}) \in {clockNow'}
        BY <3>1, MinIs
      <3> QED
        BY <3>2
    <2> QED
      BY <1>5, <2>1, <2>2 DEF FirstStart
  <1>7. SumOf([j \in DOMAIN b.comps |-> Given(b.comps[j])]) = 0
    BY <1>5, StartedComp, SumsOfFew
  <1>8. Started(i) = [part |-> i, inserted |-> TRUE, agg |-> b, since |-> clockNow']
    BY <1>1, <1>3 DEF Started
  <1>9. Started(i) \in ProcNodeType
    BY <1>5, <1>8 DEF ProcNodeType
  <1> QED
    BY <1>5, <1>6, <1>7, <1>8, <1>9

LEMMA NoNodeIs ==
    ASSUME width \in Nat \ {0}
    PROVE  /\ NoNode \in NodeType /\ ~NoNode.exists
           /\ NoProcNode \in ProcNodeType /\ NoProcNode.part = 0 /\ ~NoProcNode.inserted
  BY EmptyAgg DEF NoNode, NoProcNode, NodeType, ProcNodeType

(* The node of a daemon stays as it is.                                    *)
LEMMA NodeFrame ==
    ASSUME DataInv, NEW e \in Daemon, node[e].exists, node'[e] = node[e],
           \A p \in Proc : Host[p] = e => procNode'[p] = procNode[p],
           width' = width, clockNow' \in Nat, clockNow <= clockNow'
    PROVE  /\ NodeOK(e, node[e].agg, procNode, clockNow)'
           /\ measured'[e] = measured[e] => MeasuredOK(node[e].agg, procNode, e, measured[e])'
  <1>1. NodeOK(e, node[e].agg, procNode, clockNow)
        /\ MeasuredOK(node[e].agg, procNode, e, measured[e])
    BY DEF DataInv, NodesInv, MeasuredInv
  <1>2. PartsOf(e, procNode') = PartsOf(e, procNode)
    BY DEF PartsOf
  <1>3. \A p \in PartsOf(e, procNode) : procNode'[p] = procNode[p] /\ procNode[p].since \in Nat
    BY DEF PartsOf, DataInv, TypeInv, ProcNodeType
  <1>4. clockNow \in Nat /\ node[e].agg.curIntvlStart \in Nat \union {NotSet}
    BY TypesOf DEF DataInv, TypeInv, AggType
  <1>5. \A p \in PartsOf(e, procNode) : ProcOK(node[e].agg, procNode[p], clockNow)'
    <2>1. ASSUME NEW p \in PartsOf(e, procNode)
          PROVE  ProcOK(node[e].agg, procNode[p], clockNow)'
      <3>1. ProcOK(node[e].agg, procNode[p], clockNow)
        BY <1>1 DEF NodeOK
      <3>2. procNode[p].since <= clockNow => procNode[p].since <= clockNow'
        BY <1>3, <1>4
      <3> QED
        BY <1>3, <3>1, <3>2 DEF ProcOK
    <2> QED
      BY <2>1
  <1>6. node[e].agg.curIntvlStart <= clockNow'
    <2>1. node[e].agg.curIntvlStart <= clockNow
      BY <1>1 DEF NodeOK
    <2> QED
      BY <1>4, <2>1 DEF NotSet
  <1>7. NodeOK(e, node[e].agg, procNode, clockNow)'
    BY <1>1, <1>2, <1>3, <1>5, <1>6 DEF NodeOK
  <1>8. measured'[e] = measured[e] => MeasuredOK(node[e].agg, procNode, e, measured[e])'
    <2>1. MeasuredOK(node[e].agg, procNode', e, measured[e])
      <3> DEFINE m == measured[e]
      <3>1. Len(m) = Len(node[e].agg.comps)
        BY <1>1 DEF MeasuredOK
      <3>2. \A i \in 1 .. Len(node[e].agg.comps) :
               (\A p \in PartsOf(e, procNode) : procNode[p].part # i)
                  => m[i] = Given(node[e].agg.comps[i])
        BY <1>1 DEF MeasuredOK
      <3>3. \A p \in PartsOf(e, procNode) :
               m[procNode[p].part] = Given(node[e].agg.comps[procNode[p].part])
                  + (SumOf([i \in DOMAIN procNode[p].agg.comps |-> Given(procNode[p].agg.comps[i])])
                        - procNode[p].agg.lastActualVal)
        BY <1>1 DEF MeasuredOK
      <3>4. \A p \in PartsOf(e, procNode) :
               m[procNode'[p].part] = Given(node[e].agg.comps[procNode'[p].part])
                  + (SumOf([i \in DOMAIN procNode'[p].agg.comps |-> Given(procNode'[p].agg.comps[i])])
                        - procNode'[p].agg.lastActualVal)
        <4> TAKE p \in PartsOf(e, procNode)
        <4>1. procNode'[p] = procNode[p]
          BY <1>3
        <4> QED
          BY <3>3, <4>1
      <3>5. \A i \in 1 .. Len(node[e].agg.comps) :
               (\A p \in PartsOf(e, procNode) : procNode'[p].part # i)
                  => m[i] = Given(node[e].agg.comps[i])
        BY <1>3, <3>2
      <3> QED
        BY <1>2, <3>1, <3>4, <3>5 DEF MeasuredOK
    <2>2. MeasuredOK(node[e].agg, procNode, e, measured[e])'
            = MeasuredOK(node'[e].agg, procNode', e, measured'[e])
      BY DEF MeasuredOK
    <2> QED
      BY <2>1, <2>2
  <1> QED
    BY <1>7, <1>8

(* A step of the daemon d alone.                                           *)
OnlyAt(d) ==
    /\ width' = width /\ fe' = fe /\ component' = component /\ asked' = asked
    /\ refused' = refused /\ enabled' = enabled /\ shown' = shown
    /\ clockNow <= clockNow'
    /\ \A e \in Daemon : e # d =>
          /\ node'[e] = node[e] /\ toFE'[e] = toFE[e] /\ toDaemon'[e] = toDaemon[e]
          /\ measured'[e] = measured[e] /\ (e \in toDelete' <=> e \in toDelete)
    /\ \A p \in Proc : Host[p] # d => procNode'[p] = procNode[p] /\ (p \in live => p \in live')

ProcsThere(d) ==
    \A p \in Proc : Host[p] = d =>
        /\ procNode[p].part # 0 => p \in live /\ node[d].exists
        /\ procNode[p].inserted => procNode[p].part # 0

LEMMA DaemonInv ==
    ASSUME DataInv, NEW d \in Daemon, OnlyAt(d), TypeInv', live' \intersect waiting' = {},
           ProcsThere(d)',
           node'[d].exists => /\ NodeOK(d, node[d].agg, procNode, clockNow)'
                              /\ MeasuredOK(node[d].agg, procNode, d, measured[d])'
                              /\ node[d].exists \/ d \in asked,
           Link(d)'
    PROVE  DataInv'
  <1>1. /\ width' = width /\ fe' = fe /\ component' = component /\ asked' = asked
        /\ refused' = refused /\ enabled' = enabled /\ shown' = shown /\ clockNow <= clockNow'
        /\ clockNow' \in Nat
    BY DEF OnlyAt, TypeInv
  <1>2. \A e \in Daemon : e # d =>
           /\ node'[e] = node[e] /\ toFE'[e] = toFE[e] /\ toDaemon'[e] = toDaemon[e]
           /\ measured'[e] = measured[e] /\ (e \in toDelete' <=> e \in toDelete)
    BY DEF OnlyAt
  <1>3. \A p \in Proc : Host[p] # d => procNode'[p] = procNode[p] /\ (p \in live => p \in live')
    BY DEF OnlyAt
  <1>4. FeInv'
    <2>1. FeInv
      BY DEF DataInv
    <2> QED
      BY <1>1, <2>1 DEF FeInv
  <1>5. ASSUME NEW e \in Daemon, e # d, node[e].exists
        PROVE  /\ NodeOK(e, node[e].agg, procNode, clockNow)'
               /\ MeasuredOK(node[e].agg, procNode, e, measured[e])'
    <2>1. \A p \in Proc : Host[p] = e => procNode'[p] = procNode[p]
      BY <1>3, <1>5
    <2> QED
      BY <1>1, <1>2, <1>5, <2>1, NodeFrame
  <1>6. NodesInv'
    <2>1. ASSUME NEW p \in Proc
          PROVE  /\ procNode'[p].part # 0 => p \in live' /\ node'[Host[p]].exists
                 /\ procNode'[p].inserted => procNode'[p].part # 0
      <3>1. CASE Host[p] = d
        BY <3>1 DEF ProcsThere
      <3>2. CASE Host[p] # d
        <4>1. Host[p] \in Daemon
          BY CollectionAssumption
        <4>2. /\ procNode[p].part # 0 => p \in live /\ node[Host[p]].exists
              /\ procNode[p].inserted => procNode[p].part # 0
          BY DEF DataInv, NodesInv
        <4> QED
          BY <1>2, <1>3, <3>2, <4>1, <4>2
      <3> QED
        BY <3>1, <3>2
    <2>2. ASSUME NEW e \in Daemon, node'[e].exists
          PROVE  NodeOK(e, node[e].agg, procNode, clockNow)'
      BY <1>2, <1>5, <2>2
    <2> QED
      BY <2>1, <2>2 DEF NodesInv
  <1>7. MeasuredInv'
    <2>1. ASSUME NEW e \in Daemon, node'[e].exists
          PROVE  MeasuredOK(node[e].agg, procNode, e, measured[e])'
      BY <1>2, <1>5, <2>1
    <2> QED
      BY <2>1 DEF MeasuredInv
  <1>8. ASSUME NEW e \in Daemon, e # d PROVE Link(e)'
    <2>1. Link(e)
      BY DEF DataInv, LinkInv
    <2>2. SameLink(e)
      BY <1>1, <1>2, <1>8 DEF SameLink, SameButQueue
    <2> QED
      BY <2>1, <2>2, LinkFrame
  <1>9. EnabledInv'
    <2>1. \A e \in Daemon : node'[e].exists => node[e].exists \/ e \in asked
      BY <1>2
    <2>2. EnabledInv
      BY DEF DataInv
    <2> QED
      BY <1>1, <2>1, <2>2 DEF EnabledInv
  <1> QED
    BY <1>4, <1>6, <1>7, <1>8, <1>9 DEF DataInv, LinkInv

-----------------------------------------------------------------------------
(* A daemon is asked to enable the instance.                               *)
LEMMA AskedIs ==
    ASSUME DataInv, NEW d \in Daemon, HandledBy(d, "enable")
    PROVE  /\ Requested(d) /\ toDaemon'[d] = <<>>
           /\ node[d].exists => d \in toDelete
  <1>1. toDaemon[d] # <<>> /\ Head(toDaemon[d]) = "enable" /\ toDaemon'[d] = Tail(toDaemon[d])
    BY HandledIs
  <1>2. "enable" # "disable"
    OBVIOUS
  <1>3. Requested(d)
    BY <1>1, <1>2, Told DEF DataInv, LinkInv, Link, Component, Idle, Succeeded, Refused
  <1>4. toDaemon[d] = <<"enable">>
    BY <1>1, <1>2, <1>3, Told DEF Requested
  <1>5. toDaemon'[d] = <<>>
    BY <1>1, <1>4, Told
  <1>6. toDaemon[d] # <<"disable", "enable">>
    BY <1>1, <1>2, Told
  <1> QED
    BY <1>3, <1>5, <1>6 DEF Requested

AnswerReported(d, kind) ==
    /\ toFE' \in [Daemon -> Seq(MsgType)]
    /\ \A e \in Daemon : e # d => toFE'[e] = toFE[e]
    /\ \E pre, rest \in Seq(MsgType) : rest = <<>> /\ AnswerIn(toFE'[d], kind, pre, rest)

LEMMA AnswerIsReported ==
    ASSUME DataInv, NEW d \in Daemon, NoAnswer(toFE[d]), NEW kind \in Answers, NEW gone,
           gone = <<[kind |-> "end"]>> \/ gone = <<>>,
           Report(d, EnableAnswer(gone, kind))
    PROVE  AnswerReported(d, kind)
  <1>1. toFE \in [Daemon -> Seq(MsgType)]
    BY DEF DataInv, TypeInv
  <1>2. gone \in Seq(MsgType) /\ NoAnswer(gone)
    <2>1. [kind |-> "end"] \in MsgType /\ [kind |-> "end"].kind = "end"
      BY DEF MsgType
    <2>2. <<[kind |-> "end"]>> \in Seq(MsgType) /\ NoAnswer(<<[kind |-> "end"]>>)
      BY <2>1, KindsOne
    <2>3. <<>> \in Seq(MsgType) /\ NoAnswer(<<>>)
      BY DEF NoAnswer
    <2> QED
      BY <2>2, <2>3
  <1>3. PICK r : r = EnableAnswer(gone, kind)
    OBVIOUS
  <1>4. /\ r \in Seq(MsgType)
        /\ \E pre, rest \in Seq(MsgType) : rest = <<>> /\ AnswerIn(toFE[d] \o r, kind, pre, rest)
    BY <1>1, <1>2, <1>3, AnswerSent
  <1>5. toFE' = [toFE EXCEPT ![d] = @ \o r]
    BY <1>3 DEF Report
  <1>6. toFE[d] \o r \in Seq(MsgType)
    BY <1>1, <1>4, KindsBoth
  <1>7. /\ toFE' \in [Daemon -> Seq(MsgType)] /\ toFE'[d] = toFE[d] \o r
        /\ \A e \in Daemon : e # d => toFE'[e] = toFE[e]
    BY <1>1, <1>5, <1>6
  <1> QED
    BY <1>4, <1>7 DEF AnswerReported

LEMMA ProcsListed ==
    ASSUME DataInv, NEW d \in Daemon
    PROVE  Lists(SetToSeq(procsOf(d)), procsOf(d))
  <1>1. procsOf(d) \subseteq Proc
    BY DEF procsOf, DataInv, TypeInv
  <1>2. IsFiniteSet(procsOf(d))
    BY <1>1, FS_Subset, CollectionAssumption
  <1> QED
    BY <1>2, SetToSeqIs

(* There is no process: the daemon refuses.                                *)
LEMMA EnableRefused ==
    ASSUME DataInv, NEW d \in Daemon, HandleEnable(d), SetToSeq(procsOf(d)) = <<>>
    PROVE  DataInv'
  <1>1. /\ HandledBy(d, "enable") /\ clockNow' = clockNow /\ toDelete' = toDelete \ {d}
        /\ width' = width /\ fe' = fe /\ component' = component /\ asked' = asked
        /\ refused' = refused /\ enabled' = enabled /\ shown' = shown
        /\ live' = live /\ waiting' = waiting
    BY DEF HandleEnable, frontEnd
  <1>2. /\ Requested(d) /\ toDaemon'[d] = <<>>
        /\ node[d].exists => d \in toDelete
        /\ toDaemon' \in [Daemon -> Seq({"enable", "disable"})]
        /\ \A e \in Daemon : e # d => toDaemon'[e] = toDaemon[e]
    BY <1>1, AskedIs, HandledIs
  <1>3. PICK gone : /\ gone = IF node[d].exists THEN EndOfDataCollection(node[d]) ELSE <<>>
                    /\ Report(d, EnableAnswer(gone, "failure"))
                    /\ IF node[d].exists THEN deleteNode(d) ELSE UNCHANGED <<node, procNode>>
                    /\ measured' = measured
    <2>1. (d \in toDelete /\ node[d].exists) = node[d].exists
      <3>1. node[d].exists \in BOOLEAN
        BY TypesOf
      <3> QED
        BY <1>2, <3>1
    <2>2. PICK gone : gone = IF node[d].exists THEN EndOfDataCollection(node[d]) ELSE <<>>
      OBVIOUS
    <2>3. /\ Report(d, EnableAnswer(gone, "failure")) /\ measured' = measured
          /\ IF node[d].exists THEN deleteNode(d) ELSE UNCHANGED <<node, procNode>>
      BY <2>1, <2>2 DEF HandleEnable
    <2> QED
      BY <2>2, <2>3
  <1>4. AnswerReported(d, "failure")
    <2>1. gone = <<[kind |-> "end"]>> \/ gone = <<>>
      BY <1>3 DEF EndOfDataCollection
    <2> QED
      BY <1>2, <1>3, <2>1, AnswerIsReported DEF Requested, Answers
  <1>5. /\ node \in [Daemon -> NodeType] /\ procNode \in [Proc -> ProcNodeType]
        /\ width \in Nat \ {0} /\ clockNow \in Nat
    BY DEF DataInv, TypeInv
  <1>6. /\ node' \in [Daemon -> NodeType] /\ ~node'[d].exists
        /\ \A e \in Daemon : e # d => node'[e] = node[e]
    <2>1. CASE node[d].exists
      <3>1. node' = [node EXCEPT ![d] = NoNode]
        BY <1>3, <2>1 DEF deleteNode
      <3> QED
        BY <1>5, <3>1, NoNodeIs
    <2>2. CASE ~node[d].exists
      BY <1>3, <1>5, <2>2
    <2> QED
      BY <2>1, <2>2
  <1>7. /\ procNode' \in [Proc -> ProcNodeType]
        /\ \A p \in Proc : Host[p] # d => procNode'[p] = procNode[p]
        /\ \A p \in Proc : Host[p] = d => procNode'[p].part = 0 /\ ~procNode'[p].inserted
    <2>1. CASE node[d].exists
      <3>1. procNode' = [p \in Proc |-> IF Host[p] = d THEN NoProcNode ELSE procNode[p]]
        BY <1>3, <2>1 DEF deleteNode
      <3> QED
        BY <1>5, <3>1, NoNodeIs
    <2>2. CASE ~node[d].exists
      <3>1. procNode' = procNode
        BY <1>3, <2>2
      <3>2. ASSUME NEW p \in Proc, Host[p] = d
            PROVE  procNode[p].part = 0 /\ ~procNode[p].inserted
        BY <2>2, <3>2 DEF DataInv, NodesInv
      <3> QED
        BY <1>5, <3>1, <3>2
    <2> QED
      BY <2>1, <2>2
  <1>8. TypeInv'
    BY <1>1, <1>2, <1>3, <1>4, <1>6, <1>7 DEF AnswerReported, DataInv, TypeInv
  <1>9. OnlyAt(d)
    <2>1. clockNow <= clockNow'
      BY <1>1, <1>5
    <2> QED
      BY <1>1, <1>2, <1>3, <1>4, <1>6, <1>7, <2>1 DEF OnlyAt, AnswerReported
  <1>10. ProcsThere(d)'
    BY <1>7 DEF ProcsThere
  <1>11. live' \intersect waiting' = {}
    BY <1>1 DEF DataInv, NodesInv
  <1>12. Link(d)'
    <2>1. \E pre \in Seq(MsgType) : AnswerIn(toFE'[d], "failure", pre, <<>>)
      BY <1>4 DEF AnswerReported
    <2>2. component[d] = 0 /\ d \in asked
      BY <1>2 DEF Requested
    <2>3. Refused(d)'
      BY <1>1, <1>2, <1>6, <2>1, <2>2 DEF Refused
    <2> QED
      BY <2>3 DEF Link
  <1> QED
    BY <1>6, <1>8, <1>9, <1>10, <1>11, <1>12, DaemonInv

-----------------------------------------------------------------------------
(* A node whose n components all start now.                                *)
AllStarted(a, n) ==
    /\ AggOK(a) /\ a.width = width /\ a.curIntvlStart = NotSet /\ a.lastActualVal = 0
    /\ Len(a.comps) = n
    /\ \A i \in 1 .. n : a.comps[i] = startedComponent

LEMMA StartedAgg ==
    ASSUME width \in Nat \ {0}, clockNow' \in Nat, NEW n \in Nat, NEW cs,
           cs = [i \in 1 .. n |-> startedComponent]
    PROVE  /\ AllStarted([sampleAggregator(width) EXCEPT !.comps = cs], n)
           /\ [NoNode EXCEPT !.exists = TRUE, !.agg.comps = cs].exists
           /\ [NoNode EXCEPT !.exists = TRUE, !.agg.comps = cs].agg
                 = [sampleAggregator(width) EXCEPT !.comps = cs]
           /\ [NoNode EXCEPT !.exists = TRUE, !.agg.comps = cs] \in NodeType
  <1>1. PICK a : a = sampleAggregator(width)
    OBVIOUS
  <1>2. a \in AggType /\ a.width = width /\ a.curIntvlStart = NotSet /\ a.lastActualVal = 0
    BY <1>1, EmptyAgg
  <1>3. PICK c \in CompType : c = startedComponent /\ CompOK(c, NotSet)
    BY StartedComp
  <1>4. cs \in [1 .. n -> CompType] /\ \A i \in 1 .. n : cs[i] = c
    BY <1>3
  <1>5. cs \in Seq(CompType) /\ Len(cs) = n /\ DOMAIN cs = 1 .. n
    BY <1>4
  <1>6. PICK b : b = [a EXCEPT !.comps = cs]
    OBVIOUS
  <1>7. /\ b \in AggType /\ b.comps = cs /\ b.width = width /\ b.curIntvlStart = NotSet
        /\ b.lastActualVal = 0
    BY <1>2, <1>5, <1>6 DEF AggType
  <1>8. AllStarted(b, n)
    BY <1>3, <1>4, <1>5, <1>7 DEF AllStarted, AggOK
  <1>9. PICK k : k = NoNode
    OBVIOUS
  <1>10. k = [exists |-> FALSE, agg |-> a, sentInitial |-> FALSE]
    BY <1>1, <1>9 DEF NoNode
  <1>11. PICK j : j = [k EXCEPT !.exists = TRUE, !.agg.comps = cs]
    OBVIOUS
  <1>12. j = [exists |-> TRUE, agg |-> b, sentInitial |-> FALSE]
    BY <1>6, <1>10, <1>11
  <1>13. j \in NodeType
    BY <1>7, <1>12 DEF NodeType
  <1>14. b = [sampleAggregator(width) EXCEPT !.comps = cs]
    BY <1>1, <1>6
  <1>15. j = [NoNode EXCEPT !.exists = TRUE, !.agg.comps = cs]
    BY <1>9, <1>11
  <1>16. j.exists /\ j.agg = b
    BY <1>12
  <1>17. AllStarted([sampleAggregator(width) EXCEPT !.comps = cs], n)
    BY <1>8, <1>14
  <1>18. /\ [NoNode EXCEPT !.exists = TRUE, !.agg.comps = cs].exists
         /\ [NoNode EXCEPT !.exists = TRUE, !.agg.comps = cs].agg = b
         /\ [NoNode EXCEPT !.exists = TRUE, !.agg.comps = cs] \in NodeType
    BY <1>13, <1>15, <1>16
  <1> QED
    BY <1>14, <1>17, <1>18

LEMMA FollowsNothing ==
    ASSUME NEW n, n.exists, n.agg.lastActualVal = 0, NEW q, q = <<>>
    PROVE  Follows(n, q, 0, NotSet)
  <1>1. EntriesIn(q) = <<>>
    BY EntriesEmpty
  <1>2. NoAnswer(q) /\ ~Ended(q)
    BY DEF NoAnswer, Ended
  <1>3. Contiguous(<<>>)
    BY DEF Contiguous
  <1>4. Values(EntriesIn(q)) = 0
    BY <1>1, ValuesEmpty
  <1>5. NextOf(EntriesIn(q), NotSet) = NotSet
    BY <1>1 DEF NextOf
  <1> QED
    BY <1>1, <1>2, <1>3, <1>4, <1>5 DEF Follows

(* The processes of a daemon start, each with the component that is its    *)
(* number among them.                                                      *)
AllProcsStarted(d, q) ==
    \A p \in Proc : Host[p] = d =>
        IF p \in live
        THEN \E i \in 1 .. Len(q) : q[i] = p /\ procNode'[p] = Started(i)
        ELSE procNode'[p].part = 0 /\ ~procNode'[p].inserted

LEMMA ProcsStarted ==
    ASSUME DataInv, NEW d \in Daemon, NEW q, Lists(q, procsOf(d)), clockNow' \in Nat,
           procNode' = [p \in Proc |->
               IF p \in procsOf(d) THEN Started(CHOOSE i \in DOMAIN q : q[i] = p)
               ELSE procNode[p]]
    PROVE  /\ procNode' \in [Proc -> ProcNodeType] /\ AllProcsStarted(d, q)
           /\ \A p \in Proc : Host[p] # d => procNode'[p] = procNode[p]
  <1>1. width \in Nat \ {0} /\ procNode \in [Proc -> ProcNodeType] /\ live \subseteq Proc
    BY DEF DataInv, TypeInv
  <1>2. ASSUME NEW p \in procsOf(d)
        PROVE  /\ procNode'[p] \in ProcNodeType
               /\ \E i \in 1 .. Len(q) : q[i] = p /\ procNode'[p] = Started(i)
    <2>1. PICK i : i = CHOOSE j \in DOMAIN q : q[j] = p
      OBVIOUS
    <2>2. DOMAIN q = 1 .. Len(q) /\ Len(q) \in Nat /\ \E j \in 1 .. Len(q) : q[j] = p
      BY LenProperties DEF Lists
    <2>3. i \in 1 .. Len(q) /\ q[i] = p
      BY <2>1, <2>2
    <2>4. p \in Proc /\ procNode'[p] = Started(i)
      BY <1>1, <2>1 DEF procsOf
    <2>5. i \in Nat
      BY <2>2, <2>3
    <2>6. Started(i) \in ProcNodeType
      BY <1>1, <2>5, StartedProc
    <2> QED
      BY <2>3, <2>4, <2>6
  <1>3. ASSUME NEW p \in Proc, p \notin procsOf(d) PROVE procNode'[p] = procNode[p]
    BY <1>3
  <1>4. procNode' \in [Proc -> ProcNodeType]
    <2>1. procNode' = [p \in Proc |-> procNode'[p]]
      OBVIOUS
    <2>2. \A p \in Proc : procNode'[p] \in ProcNodeType
      BY <1>1, <1>2, <1>3
    <2> QED
      BY <2>1, <2>2
  <1>5. AllProcsStarted(d, q)
    <2>1. ASSUME NEW p \in Proc, Host[p] = d, p \in live
          PROVE  \E i \in 1 .. Len(q) : q[i] = p /\ procNode'[p] = Started(i)
      BY <1>2, <2>1 DEF procsOf
    <2>2. ASSUME NEW p \in Proc, Host[p] = d, p \notin live
          PROVE  procNode'[p].part = 0 /\ ~procNode'[p].inserted
      <3>1. procNode[p].part = 0 /\ ~procNode[p].inserted
        BY <2>2 DEF DataInv, NodesInv
      <3> QED
        BY <1>3, <2>2, <3>1 DEF procsOf
    <2> QED
      BY <2>1, <2>2 DEF AllProcsStarted
  <1> QED
    BY <1>3, <1>4, <1>5 DEF procsOf

LEMMA PartsStarted ==
    ASSUME DataInv, NEW d \in Daemon, NEW q, Lists(q, procsOf(d)), clockNow' \in Nat,
           AllProcsStarted(d, q), live' = live, node'[d].exists
    PROVE  /\ ProcsThere(d)'
           /\ \A p \in PartsOf(d, procNode') :
                 /\ p \in procsOf(d) /\ procNode'[p].part \in 1 .. Len(q)
                 /\ procNode'[p] = Started(procNode'[p].part) /\ q[procNode'[p].part] = p
           /\ \A i \in 1 .. Len(q) : \E p \in PartsOf(d, procNode') : procNode'[p].part = i
  <1>1. width \in Nat \ {0} /\ Len(q) \in Nat
    BY LenProperties DEF DataInv, TypeInv, Lists
  <1>2. ASSUME NEW p \in Proc, Host[p] = d, p \in live
        PROVE  /\ procNode'[p].part \in 1 .. Len(q) /\ q[procNode'[p].part] = p
               /\ procNode'[p] = Started(procNode'[p].part)
    <2>1. PICK i \in 1 .. Len(q) : q[i] = p /\ procNode'[p] = Started(i)
      BY <1>2 DEF AllProcsStarted
    <2>2. i \in Nat
      BY <1>1
    <2>3. Started(i).part = i
      BY <1>1, <2>2, StartedProc
    <2> QED
      BY <2>1, <2>3
  <1>3. ASSUME NEW p \in Proc, Host[p] = d, p \notin live
        PROVE  procNode'[p].part = 0 /\ ~procNode'[p].inserted
    BY <1>3 DEF AllProcsStarted
  <1>4. \A p \in PartsOf(d, procNode') :
           /\ p \in procsOf(d) /\ procNode'[p].part \in 1 .. Len(q)
           /\ procNode'[p] = Started(procNode'[p].part) /\ q[procNode'[p].part] = p
    BY <1>2, <1>3 DEF PartsOf, procsOf
  <1>5. ASSUME NEW i \in 1 .. Len(q)
        PROVE  \E p \in PartsOf(d, procNode') : procNode'[p].part = i
    <2>1. PICK p : p = q[i]
      OBVIOUS
    <2>2. p \in procsOf(d)
      BY <2>1 DEF Lists
    <2>3. p \in Proc /\ Host[p] = d /\ p \in live
      BY <2>2 DEF procsOf, DataInv, TypeInv
    <2>4. procNode'[p].part \in 1 .. Len(q) /\ q[procNode'[p].part] = q[i]
      BY <1>2, <2>1, <2>3
    <2>5. procNode'[p].part = i
      BY <2>4 DEF Lists
    <2>6. procNode'[p].part # 0
      BY <2>4
    <2> QED
      BY <2>3, <2>5, <2>6 DEF PartsOf
  <1>6. ProcsThere(d)'
    <2>1. ASSUME NEW p \in Proc, Host[p] = d
          PROVE  /\ procNode'[p].part # 0 => p \in live' /\ node'[d].exists
                 /\ procNode'[p].inserted => procNode'[p].part # 0
      <3>1. CASE p \in live
        <4>1. procNode'[p].part # 0
          BY <1>1, <1>2, <2>1, <3>1
        <4> QED
          BY <2>1, <3>1, <4>1
      <3>2. CASE p \notin live
        BY <1>3, <2>1, <3>2
      <3> QED
        BY <3>1, <3>2
    <2> QED
      BY <2>1 DEF ProcsThere
  <1> QED
    BY <1>4, <1>5, <1>6

(* Nothing is measured yet.                                                *)
LEMMA StartedNode ==
    ASSUME DataInv, NEW d \in Daemon, NEW q, Lists(q, procsOf(d)), clockNow' \in Nat,
           AllProcsStarted(d, q), live' = live, node'[d].exists, width' = width,
           AllStarted(node'[d].agg, Len(q)),
           NEW m, Len(m) = Len(q), \A i \in 1 .. Len(q) : m[i] = 0
    PROVE  /\ NodeOK(d, node[d].agg, procNode, clockNow)'
           /\ MeasuredOK(node'[d].agg, procNode', d, m)
  <1>10. PICK b : b = node'[d].agg
    OBVIOUS
  <1>1. width \in Nat \ {0} /\ Len(q) \in Nat
    BY LenProperties DEF DataInv, TypeInv, Lists
  <1>2. /\ AggOK(b) /\ b.width = width /\ b.curIntvlStart = NotSet /\ Len(b.comps) = Len(q)
        /\ \A i \in 1 .. Len(q) : b.comps[i] = startedComponent
    BY <1>10 DEF AllStarted
  <1>3. \A p \in PartsOf(d, procNode') :
           /\ procNode'[p].part \in 1 .. Len(q)
           /\ procNode'[p] = Started(procNode'[p].part) /\ q[procNode'[p].part] = p
    BY PartsStarted
  <1>4. \A i \in 1 .. Len(q) : \E p \in PartsOf(d, procNode') : procNode'[p].part = i
    BY PartsStarted
  <1>5. ASSUME NEW p \in PartsOf(d, procNode')
        PROVE  /\ ProcOK(b, procNode[p], clockNow)'
               /\ SumOf([i \in DOMAIN procNode'[p].agg.comps |->
                            Given(procNode'[p].agg.comps[i])]) = 0
               /\ procNode'[p].agg.lastActualVal = 0
               /\ Given(b.comps[procNode'[p].part]) = 0
    <2>1. PICK i \in 1 .. Len(q) : i = procNode'[p].part /\ procNode'[p] = Started(i)
      BY <1>3
    <2>2. i \in Nat /\ b.comps[i] = startedComponent
      BY <1>1, <1>2
    <2>3. PICK s : s = procNode'[p]
      OBVIOUS
    <2>4. /\ s.since = clockNow' /\ AggOK(s.agg) /\ s.agg.width = width /\ Len(s.agg.comps) = 1
          /\ s.agg.comps[1] = startedComponent /\ s.agg.lastActualVal = 0
          /\ FirstStart(s.agg) = clockNow' /\ s.part = i
          /\ SumOf([j \in DOMAIN s.agg.comps |-> Given(s.agg.comps[j])]) = 0
      BY <1>1, <2>1, <2>2, <2>3, StartedProc
    <2>5. /\ startedComponent.last = clockNow' /\ Given(startedComponent) = 0
          /\ GivenUpTo(startedComponent) = clockNow' /\ ~startedComponent.bIsFinished
      BY StartedComp
    <2>6. clockNow' # NotSet /\ clockNow' <= clockNow'
      BY DEF NotSet
    <2>7. ProcOK(b, s, clockNow)'
      BY <1>2, <2>1, <2>2, <2>3, <2>4, <2>5, <2>6 DEF ProcOK
    <2> QED
      BY <2>2, <2>3, <2>4, <2>5, <2>7
  <1>6. b.curIntvlStart <= clockNow'
    BY <1>2 DEF NotSet
  <1>7. \A p, r \in PartsOf(d, procNode') : procNode'[r].part = procNode'[p].part => r = p
    BY <1>3
  <1>8. NodeOK(d, node[d].agg, procNode, clockNow)'
    BY <1>2, <1>5, <1>6, <1>7, <1>10 DEF NodeOK
  <1>9. MeasuredOK(b, procNode', d, m)
    <2>1. \A p \in PartsOf(d, procNode') :
             m[procNode'[p].part] = Given(b.comps[procNode'[p].part])
                 + (SumOf([i \in DOMAIN procNode'[p].agg.comps |->
                               Given(procNode'[p].agg.comps[i])])
                       - procNode'[p].agg.lastActualVal)
      <3>1. ASSUME NEW p \in PartsOf(d, procNode')
            PROVE  m[procNode'[p].part] = Given(b.comps[procNode'[p].part])
                      + (SumOf([i \in DOMAIN procNode'[p].agg.comps |->
                               Given(procNode'[p].agg.comps[i])])
                           - procNode'[p].agg.lastActualVal)
        <4>1. m[procNode'[p].part] = 0
          BY <1>3
        <4>2. 0 = 0 + (0 - 0)
          OBVIOUS
        <4> QED
          BY <1>5, <4>1, <4>2
      <3> QED
        BY <3>1
    <2> QED
      BY <1>2, <1>4, <2>1 DEF MeasuredOK
  <1> QED
    BY <1>8, <1>9, <1>10

LEMMA EnableSucceeded ==
    ASSUME DataInv, NEW d \in Daemon, HandleEnable(d), SetToSeq(procsOf(d)) # <<>>
    PROVE  DataInv'
  <1>1. /\ HandledBy(d, "enable") /\ clockNow' = clockNow /\ toDelete' = toDelete \ {d}
        /\ width' = width /\ fe' = fe /\ component' = component /\ asked' = asked
        /\ refused' = refused /\ enabled' = enabled /\ shown' = shown
        /\ live' = live /\ waiting' = waiting
    BY DEF HandleEnable, frontEnd
  <1>2. /\ Requested(d) /\ toDaemon'[d] = <<>>
        /\ node[d].exists => d \in toDelete
        /\ toDaemon' \in [Daemon -> Seq({"enable", "disable"})]
        /\ \A e \in Daemon : e # d => toDaemon'[e] = toDaemon[e]
    BY <1>1, AskedIs, HandledIs
  <1>3. /\ node \in [Daemon -> NodeType] /\ procNode \in [Proc -> ProcNodeType]
        /\ measured \in [Daemon -> Seq(Int)]
        /\ width \in Nat \ {0} /\ clockNow \in Nat /\ clockNow' \in Nat
    BY <1>1 DEF DataInv, TypeInv
  <1>4. PICK q : q = SetToSeq(procsOf(d))
    OBVIOUS
  <1>5. PICK n \in Nat : n = Len(q) /\ DOMAIN q = 1 .. n /\ Lists(q, procsOf(d))
    <2>1. Lists(q, procsOf(d))
      BY <1>4, ProcsListed
    <2> QED
      BY <2>1, LenProperties DEF Lists
  <1>6. PICK cs : cs = [i \in 1 .. n |-> startedComponent]
    OBVIOUS
  <1>7. PICK m : m = [i \in 1 .. n |-> 0]
    OBVIOUS
  <1>8. PICK gone : /\ gone = <<[kind |-> "end"]>> \/ gone = <<>>
                    /\ Report(d, EnableAnswer(gone, "success"))
    <2>1. PICK deleted : deleted = (d \in toDelete /\ node[d].exists)
      OBVIOUS
    <2>2. PICK gone : gone = IF deleted THEN EndOfDataCollection(node[d]) ELSE <<>>
      OBVIOUS
    <2>3. Report(d, EnableAnswer(gone, "success"))
      BY <2>1, <2>2 DEF HandleEnable
    <2> QED
      BY <2>2, <2>3 DEF EndOfDataCollection
  <1>9. /\ node' = [node EXCEPT ![d] = [NoNode EXCEPT !.exists = TRUE, !.agg.comps = cs]]
        /\ procNode' = [p \in Proc |->
              IF p \in procsOf(d) THEN Started(CHOOSE i \in DOMAIN q : q[i] = p)
              ELSE procNode[p]]
        /\ measured' = [measured EXCEPT ![d] = m]
    <2>1. q # <<>>
      BY <1>4
    <2>2. node' = [node EXCEPT ![d] =
                      [NoNode EXCEPT !.exists = TRUE,
                                     !.agg.comps = [i \in DOMAIN q |-> startedComponent]]]
      BY <1>4, <2>1 DEF HandleEnable
    <2>3. procNode' = [p \in Proc |->
              IF p \in procsOf(d) THEN Started(CHOOSE i \in DOMAIN q : q[i] = p)
              ELSE procNode[p]]
      BY <1>4, <2>1 DEF HandleEnable
    <2>4. measured' = [measured EXCEPT ![d] = [i \in DOMAIN q |-> 0]]
      BY <1>4, <2>1 DEF HandleEnable
    <2>5. cs = [i \in DOMAIN q |-> startedComponent] /\ m = [i \in DOMAIN q |-> 0]
      BY <1>5, <1>6, <1>7
    <2> QED
      BY <2>2, <2>3, <2>4, <2>5
  <1>10. AnswerReported(d, "success")
    BY <1>2, <1>8, AnswerIsReported DEF Requested, Answers
  <1>11. /\ node' \in [Daemon -> NodeType] /\ node'[d].exists
         /\ AllStarted(node'[d].agg, n)
         /\ \A e \in Daemon : e # d => node'[e] = node[e]
    <2>1. PICK k : k = [NoNode EXCEPT !.exists = TRUE, !.agg.comps = cs]
      OBVIOUS
    <2>2. k \in NodeType /\ k.exists /\ AllStarted(k.agg, n)
      <3>1. /\ AllStarted([sampleAggregator(width) EXCEPT !.comps = cs], n)
            /\ [NoNode EXCEPT !.exists = TRUE, !.agg.comps = cs].exists
            /\ [NoNode EXCEPT !.exists = TRUE, !.agg.comps = cs].agg
                  = [sampleAggregator(width) EXCEPT !.comps = cs]
            /\ [NoNode EXCEPT !.exists = TRUE, !.agg.comps = cs] \in NodeType
        BY <1>3, <1>6, StartedAgg
      <3>2. k.agg = [sampleAggregator(width) EXCEPT !.comps = cs]
        BY <2>1, <3>1
      <3> QED
        BY <2>1, <3>1, <3>2
    <2>3. node' = [node EXCEPT ![d] = k]
      BY <1>9, <2>1
    <2> QED
      BY <1>3, <2>2, <2>3
  <1>12. /\ procNode' \in [Proc -> ProcNodeType] /\ AllProcsStarted(d, q)
         /\ \A p \in Proc : Host[p] # d => procNode'[p] = procNode[p]
    BY <1>3, <1>5, <1>9, ProcsStarted
  <1>13. /\ measured' \in [Daemon -> Seq(Int)] /\ measured'[d] = m
         /\ \A e \in Daemon : e # d => measured'[e] = measured[e]
         /\ Len(m) = n /\ \A i \in 1 .. n : m[i] = 0
    <2>1. m \in Seq(Int) /\ Len(m) = n /\ \A i \in 1 .. n : m[i] = 0
      BY <1>7
    <2> QED
      BY <1>3, <1>9, <2>1
  <1>14. TypeInv'
    BY <1>1, <1>2, <1>3, <1>10, <1>11, <1>12, <1>13 DEF AnswerReported, DataInv, TypeInv
  <1>15. OnlyAt(d)
    <2>1. clockNow <= clockNow'
      BY <1>1, <1>3
    <2> QED
      BY <1>1, <1>2, <1>10, <1>11, <1>12, <1>13, <2>1 DEF OnlyAt, AnswerReported
  <1>16. ProcsThere(d)'
    BY <1>1, <1>3, <1>5, <1>11, <1>12, PartsStarted
  <1>17. live' \intersect waiting' = {}
    BY <1>1 DEF DataInv, NodesInv
  <1>18. /\ NodeOK(d, node[d].agg, procNode, clockNow)'
         /\ MeasuredOK(node[d].agg, procNode, d, measured[d])'
    <2>1. /\ NodeOK(d, node[d].agg, procNode, clockNow)'
          /\ MeasuredOK(node'[d].agg, procNode', d, m)
      BY <1>1, <1>3, <1>5, <1>11, <1>12, <1>13, StartedNode
    <2> QED
      BY <1>13, <2>1
  <1>19. component[d] = 0 /\ d \in asked
    BY <1>2 DEF Requested
  <1>20. Link(d)'
    <2>1. PICK pre \in Seq(MsgType), rest \in Seq(MsgType) :
             rest = <<>> /\ AnswerIn(toFE'[d], "success", pre, rest)
      BY <1>10 DEF AnswerReported
    <2>2. Follows(node'[d], rest, 0, NotSet)
      BY <1>11, <2>1, FollowsNothing DEF AllStarted
    <2>3. Succeeded(d)'
      BY <1>1, <1>2, <1>19, <2>1, <2>2 DEF Succeeded
    <2> QED
      BY <2>3 DEF Link
  <1> QED
    BY <1>14, <1>15, <1>16, <1>17, <1>18, <1>19, <1>20, DaemonInv

LEMMA HandleEnableInv ==
    ASSUME DataInv, NEW d \in Daemon, HandleEnable(d)
    PROVE  DataInv'
  BY EnableRefused, EnableSucceeded

-----------------------------------------------------------------------------
(* A process exits.                                                        *)

(* What the node of a daemon sends is what follows from the step.          *)
Carries(d, r) ==
    \A q \in Seq(MsgType), g \in Int : \A u :
        Follows(node[d], q, g, u) => Follows(node'[d], q \o r, g, u)

LEMMA LinkMore ==
    ASSUME DataInv, NEW d \in Daemon, node[d].exists, NEW r \in Seq(MsgType), NoAnswer(r),
           toFE'[d] = toFE[d] \o r, component' = component, fe' = fe, asked' = asked,
           toDelete' = toDelete, toDaemon' = toDaemon, Carries(d, r)
    PROVE  Link(d)'
  <1>1. Link(d) /\ ~Refused(d)
    BY DEF DataInv, LinkInv, Refused
  <1>2. /\ toFE[d] \in Seq(MsgType)
        /\ component[d] # 0 => Given(fe.comps[component[d]]) \in Int
    BY TypesOf
  <1>3. NoAnswer(toFE[d]) => NoAnswer(toFE'[d])
    <2>1. NoAnswer(toFE[d] \o r) <=> NoAnswer(toFE[d]) /\ NoAnswer(r)
      BY <1>2, KindsBoth
    <2> QED
      BY <2>1
  <1>4. CASE Component(d)
    <2>0. PICK u : u = GivenUpTo(fe.comps[component[d]])
      OBVIOUS
    <2>1. PICK g \in Int : /\ g = Given(fe.comps[component[d]])
                           /\ u = GivenUpTo(fe.comps[component[d]])
      BY <1>2, <1>4, <2>0 DEF Component
    <2>2. Follows(node[d], toFE[d], g, u)
      BY <1>4, <2>1 DEF Component
    <2>3. Follows(node'[d], toFE'[d], g, u)
      BY <1>2, <2>2 DEF Carries
    <2>4. Component(d)'
      BY <1>4, <2>1, <2>3 DEF Component
    <2> QED
      BY <2>4 DEF Link
  <1>5. CASE Idle(d)
    <2>1. Idle(d)'
      BY <1>3, <1>5 DEF Idle
    <2> QED
      BY <2>1 DEF Link
  <1>6. CASE Requested(d)
    <2>1. Requested(d)'
      BY <1>3, <1>6 DEF Requested
    <2> QED
      BY <2>1 DEF Link
  <1>7. CASE Succeeded(d)
    <2>1. PICK pre \in Seq(MsgType), rest \in Seq(MsgType) :
             AnswerIn(toFE[d], "success", pre, rest) /\ Follows(node[d], rest, 0, NotSet)
      BY <1>7 DEF Succeeded
    <2>2. PICK zero \in Int : zero = 0
      OBVIOUS
    <2>3. Follows(node'[d], rest \o r, 0, NotSet)
      BY <2>1, <2>2 DEF Carries
    <2>4. rest \o r \in Seq(MsgType) /\ AnswerIn(toFE[d] \o r, "success", pre, rest \o r)
      <3>1. "success" \in Answers
        BY DEF Answers
      <3> QED
        BY <1>2, <2>1, <3>1, AnswerMore
    <2>5. PICK more \in Seq(MsgType) : /\ AnswerIn(toFE'[d], "success", pre, more)
                                       /\ Follows(node'[d], more, 0, NotSet)
      BY <2>3, <2>4
    <2>6. Succeeded(d)'
      BY <1>7, <2>5 DEF Succeeded
    <2> QED
      BY <2>6 DEF Link
  <1> QED
    BY <1>1, <1>4, <1>5, <1>6, <1>7 DEF Link

(* What it leaves alone.                                                   *)
ExitFrame(p) ==
    /\ p \in live /\ live' = live \ {p} /\ clockNow' = clockNow /\ toDelete' = toDelete
    /\ waiting' = waiting /\ toDaemon' = toDaemon
    /\ width' = width /\ fe' = fe /\ component' = component /\ asked' = asked
    /\ refused' = refused /\ enabled' = enabled /\ shown' = shown

LEMMA ExitIs ==
    ASSUME NEW p, ExitProcess(p)
    PROVE  ExitFrame(p)
  BY DEF ExitProcess, ExitFrame, frontEnd

LEMMA ExitTypes ==
    ASSUME DataInv, NEW p \in Proc, ExitFrame(p),
           node' \in [Daemon -> NodeType], procNode' \in [Proc -> ProcNodeType],
           measured' \in [Daemon -> Seq(Int)], toFE' \in [Daemon -> Seq(MsgType)]
    PROVE  TypeInv' /\ live' \intersect waiting' = {} /\ Host[p] \in Daemon
  <1>1. TypeInv'
    BY DEF DataInv, TypeInv, ExitFrame
  <1>2. live' \intersect waiting' = {}
    BY DEF DataInv, NodesInv, ExitFrame
  <1> QED
    BY <1>1, <1>2, CollectionAssumption

(* It has no part in the node.                                             *)
LEMMA ExitApart ==
    ASSUME DataInv, NEW p \in Proc, ExitProcess(p), procNode[p].part = 0
    PROVE  DataInv'
  <1>1. ExitFrame(p)
    BY ExitIs
  <1>2. node' = node /\ procNode' = procNode /\ measured' = measured /\ toFE' = toFE
    BY DEF ExitProcess
  <1>3. PICK d : d = Host[p]
    OBVIOUS
  <1>4. TypeInv' /\ live' \intersect waiting' = {} /\ d \in Daemon
    <2>1. TypeInv
      BY DEF DataInv
    <2> QED
      BY <1>1, <1>2, <1>3, <2>1, ExitTypes DEF TypeInv
  <1>5. OnlyAt(d)
    <2>1. clockNow <= clockNow'
      BY <1>1 DEF ExitFrame, DataInv, TypeInv
    <2> QED
      BY <1>1, <1>2, <1>3, <2>1 DEF OnlyAt, ExitFrame
  <1>6. ProcsThere(d)'
    BY <1>1, <1>2, <1>4 DEF ProcsThere, ExitFrame, DataInv, NodesInv
  <1>7. node'[d].exists => /\ NodeOK(d, node[d].agg, procNode, clockNow)'
                           /\ MeasuredOK(node[d].agg, procNode, d, measured[d])'
    <2>1. width' = width /\ clockNow' \in Nat /\ clockNow <= clockNow'
      BY <1>1, <1>5 DEF ExitFrame, OnlyAt, DataInv, TypeInv
    <2> QED
      BY <1>2, <1>4, <2>1, NodeFrame
  <1>8. Link(d)'
    <2>1. SameLink(d)
      BY <1>1, <1>2 DEF SameLink, SameButQueue, ExitFrame
    <2> QED
      BY <1>4, <2>1, LinkFrame DEF DataInv, LinkInv
  <1> QED
    BY <1>2, <1>4, <1>5, <1>6, <1>7, <1>8, DaemonInv

(* The node goes with its last process.                                    *)
LEMMA ExitLast ==
    ASSUME DataInv, NEW p \in Proc, ExitProcess(p), procNode[p].part # 0,
           \A q \in procsOf(Host[p]) \ {p} : procNode[q].part = 0
    PROVE  DataInv'
  <1>1. ExitFrame(p)
    BY ExitIs
  <1>2. PICK d \in Daemon : d = Host[p]
    BY CollectionAssumption
  <1>3. /\ deleteNode(d) /\ measured' = measured
        /\ Report(d, EndOfDataCollection(node[d])) /\ node[d].exists
    BY <1>2 DEF ExitProcess, DataInv, NodesInv
  <1>4. PICK m \in MsgType : m = [kind |-> "end"] /\ m.kind = "end"
    <2>1. [kind |-> "end"] \in MsgType /\ [kind |-> "end"].kind = "end"
      BY DEF MsgType
    <2> QED
      BY <2>1
  <1>5. /\ node \in [Daemon -> NodeType] /\ procNode \in [Proc -> ProcNodeType]
        /\ measured \in [Daemon -> Seq(Int)] /\ toFE \in [Daemon -> Seq(MsgType)]
        /\ width \in Nat \ {0} /\ clockNow \in Nat
    BY DEF DataInv, TypeInv
  <1>6. PICK r \in Seq(MsgType) : r = <<m>> /\ NoAnswer(r)
    <2>1. <<m>> \in Seq(MsgType) /\ NoAnswer(<<m>>)
      BY <1>4, KindsOne
    <2> QED
      BY <2>1
  <1>7. /\ toFE' \in [Daemon -> Seq(MsgType)] /\ toFE'[d] = toFE[d] \o r
        /\ \A e \in Daemon : e # d => toFE'[e] = toFE[e]
    <2>1. EndOfDataCollection(node[d]) = r
      BY <1>3, <1>4, <1>6 DEF EndOfDataCollection
    <2>2. toFE' = [toFE EXCEPT ![d] = @ \o r]
      BY <1>3, <2>1 DEF Report
    <2>3. toFE[d] \o r \in Seq(MsgType)
      BY <1>5, <1>6, KindsBoth
    <2> QED
      BY <1>5, <2>2, <2>3
  <1>8. /\ node' \in [Daemon -> NodeType] /\ ~node'[d].exists
        /\ \A e \in Daemon : e # d => node'[e] = node[e]
    BY <1>3, <1>5, NoNodeIs DEF deleteNode
  <1>9. /\ procNode' \in [Proc -> ProcNodeType]
        /\ \A q \in Proc : Host[q] # d => procNode'[q] = procNode[q]
        /\ \A q \in Proc : Host[q] = d => procNode'[q].part = 0 /\ ~procNode'[q].inserted
    BY <1>3, <1>5, NoNodeIs DEF deleteNode
  <1>10. TypeInv' /\ live' \intersect waiting' = {}
    BY <1>1, <1>3, <1>5, <1>7, <1>8, <1>9, ExitTypes
  <1>11. OnlyAt(d)
    <2>1. clockNow <= clockNow'
      BY <1>1, <1>5 DEF ExitFrame
    <2> QED
      BY <1>1, <1>2, <1>3, <1>7, <1>8, <1>9, <2>1 DEF OnlyAt, ExitFrame
  <1>12. ProcsThere(d)'
    BY <1>9 DEF ProcsThere
  <1>13. Carries(d, r)
    <2>1. ASSUME NEW q \in Seq(MsgType), NEW g \in Int, NEW u, Follows(node[d], q, g, u)
          PROVE  Follows(node'[d], q \o <<m>>, g, u)
      <3>1. PICK k : k = node'[d] /\ ~k.exists
        BY <1>8
      <3>2. Follows(k, q \o <<m>>, g, u)
        BY <1>4, <2>1, <3>1, FollowsEnd
      <3> QED
        BY <3>1, <3>2
    <2> QED
      BY <1>6, <2>1 DEF Carries
  <1>14. Link(d)'
    BY <1>1, <1>3, <1>6, <1>7, <1>13, LinkMore DEF ExitFrame
  <1> QED
    BY <1>8, <1>10, <1>11, <1>12, <1>14, DaemonInv

(* Component k of the aggregator a gets nothing more, the others stay.     *)
Stays(a, b, k) ==
    /\ AggOK(b) /\ Len(b.comps) = Len(a.comps)
    /\ \A i \in 1 .. Len(a.comps) : i # k => b.comps[i] = a.comps[i]
    /\ Given(b.comps[k]) = Given(a.comps[k])
    /\ b.curIntvlStart = a.curIntvlStart /\ b.width = a.width
    /\ b.lastActualVal = a.lastActualVal

LEMMA MarkedIs ==
    ASSUME NEW a, AggOK(a), NEW k \in 1 .. Len(a.comps)
    PROVE  Stays(a, markAsFinished(a, k), k) /\ Stays(a, a, k)
  <1>1. a \in AggType /\ a.comps[k] \in CompType /\ DOMAIN a.comps = 1 .. Len(a.comps)
    BY CompsOf DEF AggOK
  <1>2. PICK c : c = [a.comps[k] EXCEPT !.bIsFinished = TRUE]
    OBVIOUS
  <1>3. /\ c \in CompType /\ c.last = a.comps[k].last
        /\ c.futureSamples = a.comps[k].futureSamples
        /\ c.curActualVal = a.comps[k].curActualVal /\ c.curIntvlVal = a.comps[k].curIntvlVal
    BY <1>1, <1>2 DEF CompType
  <1>4. c.bIsFinished
    BY <1>1, <1>2 DEF CompType
  <1>5. CompOK(c, a.curIntvlStart)
    <2>1. CompOK(a.comps[k], a.curIntvlStart)
      BY <1>1 DEF AggOK
    <2> QED
      BY <1>3, <1>4, <2>1 DEF CompOK
  <1>6. PICK b : b = [a EXCEPT !.comps[k] = c]
    OBVIOUS
  <1>7. OneChanged(a, b, k, c)
    <2>1. OneChanged(a, [a EXCEPT !.comps[k] = c], k, c)
      BY <1>3, <1>5, OneComp
    <2> QED
      BY <1>6, <2>1
  <1>8. Given(c) = Given(a.comps[k])
    BY <1>3 DEF Given, ActualVal
  <1>9. Stays(a, b, k)
    BY <1>7, <1>8 DEF OneChanged, Stays
  <1>10. b = markAsFinished(a, k)
    BY <1>1, <1>2, <1>6 DEF markAsFinished, AggType
  <1>11. Stays(a, a, k)
    BY DEF Stays
  <1> QED
    BY <1>9, <1>10, <1>11

LEMMA UnsentType ==
    ASSUME NEW p, procNode[p].agg \in AggType
    PROVE  Unsent(p) \in Int
  <1>1. PICK c : c = procNode[p].agg /\ c \in AggType
    OBVIOUS
  <1>2. SumOf([i \in DOMAIN c.comps |-> Given(c.comps[i])]) \in Int
    <2>1. /\ DOMAIN c.comps = 1 .. Len(c.comps) /\ Len(c.comps) \in Nat
          /\ \A i \in 1 .. Len(c.comps) : Given(c.comps[i]) \in Int
      BY <1>1, CompsOf, GivenType
    <2>2. [i \in DOMAIN c.comps |-> Given(c.comps[i])] \in Seq(Int)
      BY <2>1
    <2> QED
      BY <2>2, SumType
  <1>3. c.lastActualVal \in Int
    BY <1>1 DEF AggType
  <1> QED
    BY <1>1, <1>2, <1>3 DEF Unsent

(* The process p, whose component was k, is no longer of the node.         *)
LEMMA PartGone ==
    ASSUME DataInv, NEW d \in Daemon, node[d].exists, NEW p \in PartsOf(d, procNode),
           NEW b, Stays(node[d].agg, b, procNode[p].part), width' = width,
           clockNow' = clockNow, node'[d].agg = b,
           procNode' = [procNode EXCEPT ![p] = NoProcNode],
           \A i \in 1 .. Len(measured[d]) :
               measured'[d][i] = IF i = procNode[p].part THEN measured[d][i] - Unsent(p)
                                 ELSE measured[d][i],
           Len(measured'[d]) = Len(measured[d])
    PROVE  /\ NodeOK(d, node[d].agg, procNode, clockNow)'
           /\ MeasuredOK(node[d].agg, procNode, d, measured[d])'
  <1>1. /\ NodeOK(d, node[d].agg, procNode, clockNow)
        /\ MeasuredOK(node[d].agg, procNode, d, measured[d])
        /\ procNode \in [Proc -> ProcNodeType] /\ node[d].agg \in AggType
        /\ width \in Nat \ {0} /\ clockNow \in Nat
        /\ measured[d] \in Seq(Int)
    BY TypesOf DEF DataInv, NodesInv, MeasuredInv, TypeInv
  <1>2. PICK a : a = node[d].agg
    OBVIOUS
  <1>3. PICK k : k = procNode[p].part
    OBVIOUS
  <1>4. p \in Proc /\ Host[p] = d /\ k \in 1 .. Len(a.comps)
    BY <1>1, <1>2, <1>3 DEF PartsOf, NodeOK, ProcOK
  <1>5. /\ AggOK(b) /\ Len(b.comps) = Len(a.comps)
        /\ \A i \in 1 .. Len(a.comps) : i # k => b.comps[i] = a.comps[i]
        /\ Given(b.comps[k]) = Given(a.comps[k])
        /\ b.curIntvlStart = a.curIntvlStart /\ b.width = a.width
    BY <1>2, <1>3 DEF Stays
  <1>6. /\ PartsOf(d, procNode') = PartsOf(d, procNode) \ {p}
        /\ \A q \in PartsOf(d, procNode') :
              procNode'[q] = procNode[q] /\ q \in PartsOf(d, procNode) /\ procNode[q].part # k
    <2>1. \A q \in Proc : q # p => procNode'[q] = procNode[q]
      BY <1>1
    <2>2. procNode'[p].part = 0
      BY <1>1, <1>4, NoNodeIs
    <2>3. PartsOf(d, procNode') = PartsOf(d, procNode) \ {p}
      BY <2>1, <2>2 DEF PartsOf
    <2>4. \A q \in PartsOf(d, procNode) : procNode[q].part = k => q = p
      BY <1>1, <1>3 DEF NodeOK
    <2> QED
      BY <2>1, <2>3, <2>4 DEF PartsOf
  <1>7. ASSUME NEW q \in PartsOf(d, procNode')
        PROVE  /\ ProcOK(node[d].agg, procNode[q], clockNow)'
               /\ procNode'[q].part \in 1 .. Len(a.comps)
    <2>1. PICK n : n = procNode[q] /\ procNode'[q] = n /\ n.part # k
      BY <1>6
    <2>2. ProcOK(a, n, clockNow)
      <3>1. q \in PartsOf(d, procNode)
        BY <1>6
      <3>2. ProcOK(node[d].agg, procNode[q], clockNow)
        BY <1>1, <3>1 DEF NodeOK
      <3> QED
        BY <1>2, <2>1, <3>2
    <2>3. n.part \in 1 .. Len(a.comps) /\ b.comps[n.part] = a.comps[n.part]
      BY <1>5, <2>1, <2>2 DEF ProcOK
    <2>4. ProcOK(b, n, clockNow)'
      BY <1>5, <2>2, <2>3 DEF ProcOK
    <2> QED
      BY <2>1, <2>3, <2>4
  <1>8. NodeOK(d, node[d].agg, procNode, clockNow)'
    <2>1. b.width = width /\ b.curIntvlStart <= clockNow
      BY <1>1, <1>2, <1>5 DEF NodeOK
    <2>2. \A q, r \in PartsOf(d, procNode') : procNode'[r].part = procNode'[q].part => r = q
      BY <1>1, <1>6 DEF NodeOK
    <2> QED
      BY <1>5, <1>7, <2>1, <2>2 DEF NodeOK
  <1>9. PICK m, mm : m = measured[d] /\ mm = measured'[d]
    OBVIOUS
  <1>10. /\ Len(m) = Len(a.comps) /\ Len(mm) = Len(a.comps)
         /\ \A i \in 1 .. Len(a.comps) : i # k => mm[i] = m[i]
         /\ mm[k] = m[k] - Unsent(p)
    BY <1>1, <1>2, <1>3, <1>4, <1>9 DEF MeasuredOK
  <1>11. mm[k] = Given(b.comps[k])
    <2>1. PICK u : u = Unsent(p)
      OBVIOUS
    <2>2. u \in Int
      <3>1. procNode[p].agg \in AggType
        BY <1>1, <1>4 DEF ProcNodeType
      <3> QED
        BY <2>1, <3>1, UnsentType
    <2>3. Given(a.comps[k]) \in Int
      BY <1>1, <1>2, <1>4, CompsOf, GivenType
    <2>4. m[k] = Given(a.comps[k]) + u
      BY <1>1, <1>2, <1>3, <1>9, <2>1 DEF MeasuredOK, Unsent
    <2>5. mm[k] = m[k] - u
      BY <1>10, <2>1
    <2> QED
      BY <1>5, <2>2, <2>3, <2>4, <2>5
  <1>12. MeasuredOK(b, procNode', d, mm)
    <2>1. ASSUME NEW i \in 1 .. Len(b.comps),
                 \A q \in PartsOf(d, procNode') : procNode'[q].part # i
          PROVE  mm[i] = Given(b.comps[i])
      <3>1. CASE i = k
        BY <1>11, <3>1
      <3>2. CASE i # k
        <4>1. i \in 1 .. Len(a.comps)
          BY <1>5
        <4>2. \A q \in PartsOf(d, procNode) : procNode[q].part # i
          BY <1>3, <1>6, <2>1, <3>2
        <4>3. m[i] = Given(a.comps[i])
          BY <1>1, <1>2, <1>9, <4>1, <4>2 DEF MeasuredOK
        <4> QED
          BY <1>5, <1>10, <3>2, <4>1, <4>3
      <3> QED
        BY <3>1, <3>2
    <2>2. ASSUME NEW q \in PartsOf(d, procNode')
          PROVE  mm[procNode'[q].part] = Given(b.comps[procNode'[q].part])
                     + (SumOf([i \in DOMAIN procNode'[q].agg.comps |->
                                   Given(procNode'[q].agg.comps[i])])
                           - procNode'[q].agg.lastActualVal)
      <3>1. PICK n : n = procNode[q] /\ procNode'[q] = n /\ n.part # k
        BY <1>6
      <3>2. n.part \in 1 .. Len(a.comps)
        BY <1>7, <3>1
      <3>3. m[n.part] = Given(a.comps[n.part])
                + (SumOf([i \in DOMAIN n.agg.comps |-> Given(n.agg.comps[i])])
                       - n.agg.lastActualVal)
        <4>1. q \in PartsOf(d, procNode)
          BY <1>6
        <4>2. measured[d][procNode[q].part] = Given(node[d].agg.comps[procNode[q].part])
                + (SumOf([i \in DOMAIN procNode[q].agg.comps |->
                              Given(procNode[q].agg.comps[i])])
                       - procNode[q].agg.lastActualVal)
          BY <1>1, <4>1 DEF MeasuredOK
        <4> QED
          BY <1>2, <1>9, <3>1, <4>2
      <3>4. mm[n.part] = m[n.part] /\ b.comps[n.part] = a.comps[n.part]
        BY <1>5, <1>10, <3>1, <3>2
      <3> QED
        BY <3>1, <3>3, <3>4
    <2> QED
      BY <1>5, <1>10, <2>1, <2>2 DEF MeasuredOK
  <1> QED
    BY <1>8, <1>9, <1>12

(* The node goes on with its other processes.                              *)
LEMMA ExitPart ==
    ASSUME DataInv, NEW p \in Proc, ExitProcess(p), procNode[p].part # 0,
           ~(\A q \in procsOf(Host[p]) \ {p} : procNode[q].part = 0)
    PROVE  DataInv'
  <1>1. ExitFrame(p)
    BY ExitIs
  <1>2. PICK d \in Daemon : d = Host[p]
    BY CollectionAssumption
  <1>3. PICK k, a, b :
           /\ k = procNode[p].part /\ a = node[d].agg
           /\ b = IF procNode[p].inserted THEN markAsFinished(a, k) ELSE a
    OBVIOUS
  <1>4. /\ node' = [node EXCEPT ![d].agg = b]
        /\ procNode' = [procNode EXCEPT ![p] = NoProcNode]
        /\ measured' = [measured EXCEPT ![d][k] = @ - Unsent(p)]
        /\ toFE' = toFE /\ node[d].exists
    BY <1>2, <1>3 DEF ExitProcess, DataInv, NodesInv
  <1>5. /\ node \in [Daemon -> NodeType] /\ procNode \in [Proc -> ProcNodeType]
        /\ measured \in [Daemon -> Seq(Int)] /\ toFE \in [Daemon -> Seq(MsgType)]
        /\ width \in Nat \ {0} /\ clockNow \in Nat
    BY DEF DataInv, TypeInv
  <1>6. p \in PartsOf(d, procNode)
    BY <1>2 DEF ExitProcess, PartsOf
  <1>7. /\ AggOK(a) /\ k \in 1 .. Len(a.comps) /\ Len(measured[d]) = Len(a.comps)
    BY <1>3, <1>4, <1>6 DEF DataInv, NodesInv, MeasuredInv, NodeOK, ProcOK, MeasuredOK
  <1>8. Stays(a, b, k)
    BY <1>3, <1>7, MarkedIs
  <1>9. /\ node' \in [Daemon -> NodeType] /\ node'[d].exists /\ node'[d].agg = b
        /\ \A e \in Daemon : e # d => node'[e] = node[e]
    <2>1. b \in AggType
      BY <1>8 DEF Stays, AggOK
    <2>2. node[d] \in NodeType
      BY <1>5
    <2>3. PICK j : j = [node[d] EXCEPT !.agg = b]
      OBVIOUS
    <2>4. j \in NodeType /\ j.agg = b /\ j.exists
      BY <1>4, <2>1, <2>2, <2>3 DEF NodeType
    <2>5. node' = [node EXCEPT ![d] = j]
      BY <1>4, <2>3
    <2> QED
      BY <1>5, <2>4, <2>5
  <1>10. /\ procNode' \in [Proc -> ProcNodeType] /\ procNode'[p].part = 0
         /\ ~procNode'[p].inserted
         /\ \A q \in Proc : q # p => procNode'[q] = procNode[q]
    BY <1>4, <1>5, NoNodeIs
  <1>11. PICK m, mm : m = measured[d] /\ mm = [m EXCEPT ![k] = @ - Unsent(p)]
    OBVIOUS
  <1>12. m \in Seq(Int) /\ Len(m) = Len(a.comps) /\ k \in 1 .. Len(m)
    BY <1>5, <1>7, <1>11
  <1>13. Unsent(p) \in Int
    BY <1>5, UnsentType DEF ProcNodeType
  <1>14. /\ measured' \in [Daemon -> Seq(Int)] /\ measured'[d] = mm
         /\ \A e \in Daemon : e # d => measured'[e] = measured[e]
         /\ Len(mm) = Len(m)
         /\ \A i \in 1 .. Len(m) : mm[i] = IF i = k THEN m[i] - Unsent(p) ELSE m[i]
    <2>1. PICK u \in Int : u = Unsent(p)
      BY <1>13
    <2>2. mm = [m EXCEPT ![k] = @ - u]
      BY <1>11, <2>1
    <2>3. /\ mm \in Seq(Int) /\ Len(mm) = Len(m)
          /\ \A i \in 1 .. Len(m) : mm[i] = IF i = k THEN m[i] - u ELSE m[i]
      <3>1. \A i \in 1 .. Len(m) : m[i] \in Int
        BY <1>12
      <3>2. PICK x \in Int : x = m[k] - u
        BY <1>12, <3>1
      <3>3. mm = [m EXCEPT ![k] = x]
        BY <2>2, <3>2
      <3> QED
        BY <1>12, <3>2, <3>3
    <2>4. measured' = [measured EXCEPT ![d] = mm]
      BY <1>4, <1>11
    <2> QED
      BY <1>5, <2>1, <2>3, <2>4
  <1>15. TypeInv' /\ live' \intersect waiting' = {}
    BY <1>1, <1>4, <1>5, <1>9, <1>10, <1>14, ExitTypes
  <1>16. OnlyAt(d)
    <2>1. clockNow <= clockNow'
      BY <1>1, <1>5 DEF ExitFrame
    <2> QED
      BY <1>1, <1>2, <1>4, <1>9, <1>10, <1>14, <2>1 DEF OnlyAt, ExitFrame
  <1>17. ProcsThere(d)'
    <2>1. ASSUME NEW q \in Proc, Host[q] = d
          PROVE  /\ procNode'[q].part # 0 => q \in live' /\ node'[d].exists
                 /\ procNode'[q].inserted => procNode'[q].part # 0
      <3>1. CASE q = p
        BY <1>10, <3>1
      <3>2. CASE q # p
        BY <1>1, <1>9, <1>10, <2>1, <3>2 DEF ExitFrame, DataInv, NodesInv
      <3> QED
        BY <3>1, <3>2
    <2> QED
      BY <2>1 DEF ProcsThere
  <1>18. /\ NodeOK(d, node[d].agg, procNode, clockNow)'
         /\ MeasuredOK(node[d].agg, procNode, d, measured[d])'
    <2>1. Stays(node[d].agg, b, procNode[p].part)
      BY <1>3, <1>8
    <2>2. \A i \in 1 .. Len(measured[d]) :
             measured'[d][i] = IF i = procNode[p].part THEN measured[d][i] - Unsent(p)
                               ELSE measured[d][i]
      BY <1>3, <1>11, <1>14
    <2>3. Len(measured'[d]) = Len(measured[d]) /\ width' = width /\ clockNow' = clockNow
      BY <1>1, <1>11, <1>14 DEF ExitFrame
    <2> QED
      BY <1>4, <1>6, <1>9, <2>1, <2>2, <2>3, PartGone
  <1>19. Link(d)'
    <2>1. SameLink(d)
      BY <1>1, <1>3, <1>4, <1>8, <1>9 DEF SameLink, SameButQueue, ExitFrame, Stays
    <2> QED
      BY <2>1, LinkFrame DEF DataInv, LinkInv
  <1> QED
    BY <1>4, <1>15, <1>16, <1>17, <1>18, <1>19, DaemonInv

LEMMA ExitProcessInv ==
    ASSUME DataInv, NEW p \in Proc, ExitProcess(p)
    PROVE  DataInv'
  BY ExitApart, ExitLast, ExitPart

-----------------------------------------------------------------------------
(* A process starts.                                                       *)

(* A process n whose component is added to the aggregator a of its node:   *)
(* nothing is measured in it yet.                                          *)
JoinsAs(a, b, n) ==
    /\ AggOK(b) /\ Len(b.comps) = Len(a.comps) + 1
    /\ \A i \in 1 .. Len(a.comps) : b.comps[i] = a.comps[i]
    /\ Given(b.comps[Len(a.comps) + 1]) = 0
    /\ b.curIntvlStart = a.curIntvlStart /\ b.width = a.width
    /\ b.lastActualVal = a.lastActualVal
    /\ n \in ProcNodeType /\ n.part = Len(a.comps) + 1 /\ ProcOK(b, n, clockNow')
    /\ SumOf([i \in DOMAIN n.agg.comps |-> Given(n.agg.comps[i])]) = 0
    /\ n.agg.lastActualVal = 0

LEMMA StartedPart ==
    ASSUME width \in Nat \ {0}, clockNow' \in Nat, NEW a, AggOK(a),
           a.curIntvlStart <= clockNow'
    PROVE  JoinsAs(a, addStarted(a), Started(Len(a.comps) + 1))
  <1>1. a \in AggType /\ Len(a.comps) \in Nat /\ a.curIntvlStart \in Nat \union {NotSet}
    BY CompsOf DEF AggOK, AggType
  <1>2. PICK i \in Nat : i = Len(a.comps) + 1
    BY <1>1
  <1>3. PICK c : c = startedComponent
    OBVIOUS
  <1>4. /\ c \in CompType /\ c.last = clockNow' /\ Given(c) = 0 /\ GivenUpTo(c) = clockNow'
        /\ ~c.bIsFinished /\ CompOK(c, NotSet)
    BY <1>3, StartedComp
  <1>5. CompOK(c, a.curIntvlStart)
    BY <1>4 DEF CompOK
  <1>6. PICK b : b = addStarted(a)
    OBVIOUS
  <1>7. CompAdded(a, b, c)
    <2>1. CompAdded(a, [a EXCEPT !.comps = Append(@, c)], c)
      BY <1>4, <1>5, AddComp
    <2> QED
      BY <1>3, <1>6, <2>1 DEF addStarted
  <1>8. /\ AggOK(b) /\ Len(b.comps) = i /\ b.comps[i] = c
        /\ \A j \in 1 .. Len(a.comps) : b.comps[j] = a.comps[j]
        /\ b.curIntvlStart = a.curIntvlStart /\ b.width = a.width
        /\ b.lastActualVal = a.lastActualVal
    BY <1>2, <1>7 DEF CompAdded
  <1>9. PICK s : s = Started(i)
    OBVIOUS
  <1>10. /\ s \in ProcNodeType /\ s.part = i /\ s.since = clockNow'
         /\ AggOK(s.agg) /\ s.agg.width = width /\ Len(s.agg.comps) = 1
         /\ s.agg.comps[1] = c /\ s.agg.lastActualVal = 0
         /\ FirstStart(s.agg) = clockNow'
         /\ SumOf([j \in DOMAIN s.agg.comps |-> Given(s.agg.comps[j])]) = 0
    BY <1>3, <1>9, StartedProc
  <1>11. ProcOK(b, s, clockNow')
    <2>1. i \in 1 .. Len(b.comps)
      BY <1>1, <1>2, <1>8
    <2>2. clockNow' # NotSet /\ clockNow' <= clockNow'
      BY DEF NotSet
    <2> QED
      BY <1>4, <1>8, <1>10, <2>1, <2>2 DEF ProcOK
  <1>12. JoinsAs(a, b, s)
    BY <1>2, <1>4, <1>8, <1>10, <1>11 DEF JoinsAs
  <1> QED
    BY <1>2, <1>6, <1>9, <1>12

LEMMA WaitingPart ==
    ASSUME width \in Nat \ {0}, NEW a, AggOK(a), NEW ins \in BOOLEAN
    PROVE  JoinsAs(a, newComponent(a),
                   [NoProcNode EXCEPT !.part = Len(a.comps) + 1, !.inserted = ins])
  <1>1. a \in AggType /\ Len(a.comps) \in Nat
    BY CompsOf DEF AggOK
  <1>2. PICK i \in Nat : i = Len(a.comps) + 1
    BY <1>1
  <1>3. PICK c : c = aggComponent
    OBVIOUS
  <1>4. PICK b : b = newComponent(a)
    OBVIOUS
  <1>5. CompAdded(a, b, c) /\ Given(c) = 0 /\ ~c.bIsFinished /\ c.last = NotSet
    BY <1>3, <1>4, NewComponentIs
  <1>6. /\ AggOK(b) /\ Len(b.comps) = i /\ b.comps[i] = c
        /\ \A j \in 1 .. Len(a.comps) : b.comps[j] = a.comps[j]
        /\ b.curIntvlStart = a.curIntvlStart /\ b.width = a.width
        /\ b.lastActualVal = a.lastActualVal
    BY <1>2, <1>5 DEF CompAdded
  <1>7. PICK e : e = sampleAggregator(width)
    OBVIOUS
  <1>8. e \in AggType /\ e.lastActualVal = 0 /\ e.comps = <<>>
    BY <1>7, EmptyAgg
  <1>9. PICK n : n = [NoProcNode EXCEPT !.part = i, !.inserted = ins]
    OBVIOUS
  <1>10. n = [part |-> i, inserted |-> ins, agg |-> e, since |-> 0]
    BY <1>7, <1>9 DEF NoProcNode
  <1>11. n \in ProcNodeType /\ n.part = i /\ n.agg = e
    BY <1>8, <1>10 DEF ProcNodeType
  <1>12. ProcOK(b, n, clockNow')
    <2>1. i \in 1 .. Len(b.comps)
      BY <1>1, <1>2, <1>6
    <2> QED
      BY <1>5, <1>6, <1>8, <1>11, <2>1 DEF ProcOK
  <1>13. SumOf([j \in DOMAIN e.comps |-> Given(e.comps[j])]) = 0
    BY <1>8, SumsOfFew
  <1>14. JoinsAs(a, b, n)
    BY <1>2, <1>5, <1>6, <1>8, <1>11, <1>12, <1>13 DEF JoinsAs
  <1> QED
    BY <1>2, <1>4, <1>9, <1>14

(* The process p joins the node.                                           *)
LEMMA PartJoined ==
    ASSUME DataInv, NEW d \in Daemon, node[d].exists, NEW p \in Proc, Host[p] = d,
           procNode[p].part = 0, NEW n, JoinsAs(node[d].agg, node'[d].agg, n),
           procNode' = [procNode EXCEPT ![p] = n],
           width' = width, clockNow' \in Nat, clockNow <= clockNow',
           measured'[d] = Append(measured[d], 0)
    PROVE  /\ NodeOK(d, node[d].agg, procNode, clockNow)'
           /\ MeasuredOK(node[d].agg, procNode, d, measured[d])'
  <1>1. /\ NodeOK(d, node[d].agg, procNode, clockNow)
        /\ MeasuredOK(node[d].agg, procNode, d, measured[d])
        /\ procNode \in [Proc -> ProcNodeType] /\ node[d].agg \in AggType
        /\ width \in Nat \ {0} /\ clockNow \in Nat
        /\ measured[d] \in Seq(Int)
    BY TypesOf DEF DataInv, NodesInv, MeasuredInv, TypeInv
  <1>2. PICK a, b : a = node[d].agg /\ b = node'[d].agg
    OBVIOUS
  <1>3. /\ AggOK(b) /\ Len(b.comps) = Len(a.comps) + 1
        /\ \A i \in 1 .. Len(a.comps) : b.comps[i] = a.comps[i]
        /\ Given(b.comps[Len(a.comps) + 1]) = 0
        /\ b.curIntvlStart = a.curIntvlStart /\ b.width = a.width
        /\ n.part = Len(a.comps) + 1 /\ ProcOK(b, n, clockNow')
        /\ SumOf([i \in DOMAIN n.agg.comps |-> Given(n.agg.comps[i])]) = 0
        /\ n.agg.lastActualVal = 0
    BY <1>2 DEF JoinsAs
  <1>4. PICK k \in Nat : k = Len(a.comps) + 1 /\ k - 1 = Len(a.comps) /\ k # 0
    <2>1. Len(a.comps) \in Nat
      BY <1>1, <1>2, CompsOf
    <2> QED
      BY <2>1
  <1>5. /\ procNode'[p] = n /\ \A q \in Proc : q # p => procNode'[q] = procNode[q]
        /\ PartsOf(d, procNode') = PartsOf(d, procNode) \union {p}
        /\ p \notin PartsOf(d, procNode)
    BY <1>1, <1>3, <1>4 DEF PartsOf
  <1>6. \A q \in PartsOf(d, procNode) :
           /\ procNode'[q] = procNode[q] /\ ProcOK(a, procNode[q], clockNow)
           /\ procNode[q].since \in Nat
           /\ procNode[q].part \in 1 .. Len(a.comps) /\ procNode[q].part # k
           /\ \A r \in PartsOf(d, procNode) : procNode[r].part = procNode[q].part => r = q
    <2>1. \A q \in PartsOf(d, procNode) : q # p /\ q \in Proc
      BY <1>5 DEF PartsOf
    <2>2. \A q \in PartsOf(d, procNode) :
             /\ ProcOK(a, procNode[q], clockNow)
             /\ \A r \in PartsOf(d, procNode) : procNode[r].part = procNode[q].part => r = q
      BY <1>1, <1>2 DEF NodeOK
    <2>3. \A q \in PartsOf(d, procNode) : procNode[q].part \in 1 .. Len(a.comps)
      BY <2>2 DEF ProcOK
    <2>4. \A q \in PartsOf(d, procNode) : procNode[q].part # k
      BY <1>4, <2>3
    <2>5. \A q \in PartsOf(d, procNode) : procNode[q].since \in Nat
      BY <1>1, <2>1 DEF ProcNodeType
    <2> QED
      BY <1>5, <2>1, <2>2, <2>3, <2>4, <2>5
  <1>7. ASSUME NEW q \in PartsOf(d, procNode')
        PROVE  ProcOK(b, procNode[q], clockNow)'
    <2>1. CASE q = p
      <3>1. ProcOK(b, n, clockNow')
        BY <1>3
      <3> QED
        BY <1>5, <2>1, <3>1 DEF ProcOK
    <2>2. CASE q # p
      <3>1. PICK o : o = procNode[q]
        OBVIOUS
      <3>2. /\ procNode'[q] = o /\ ProcOK(a, o, clockNow) /\ o.since \in Nat
            /\ o.part \in 1 .. Len(a.comps)
        BY <1>5, <1>6, <2>2, <3>1
      <3>3. b.comps[o.part] = a.comps[o.part] /\ o.part \in 1 .. Len(b.comps)
        BY <1>3, <1>4, <3>2
      <3>4. o.since <= clockNow => o.since <= clockNow'
        BY <1>1, <3>2
      <3>5. ProcOK(b, o, clockNow)'
        BY <3>2, <3>3, <3>4 DEF ProcOK
      <3> QED
        BY <3>2, <3>5
    <2> QED
      BY <2>1, <2>2
  <1>8. \A q, r \in PartsOf(d, procNode') : procNode'[r].part = procNode'[q].part => r = q
    BY <1>3, <1>4, <1>5, <1>6
  <1>9. NodeOK(d, node[d].agg, procNode, clockNow)'
    <2>1. a.curIntvlStart <= clockNow /\ a.width = width
      BY <1>1, <1>2 DEF NodeOK
    <2>2. a.curIntvlStart \in Nat \union {NotSet}
      BY <1>1, <1>2 DEF AggType
    <2>3. b.curIntvlStart <= clockNow'
      BY <1>1, <1>3, <2>1, <2>2 DEF NotSet
    <2>4. \A q \in PartsOf(d, procNode') : ProcOK(node[d].agg, procNode[q], clockNow)'
      BY <1>2, <1>7
    <2> QED
      BY <1>2, <1>3, <1>8, <2>1, <2>3, <2>4 DEF NodeOK
  <1>10. PICK m, mm : m = measured[d] /\ mm = measured'[d]
    OBVIOUS
  <1>11. /\ Len(m) = Len(a.comps) /\ Len(mm) = Len(b.comps) /\ mm[k] = 0
         /\ \A i \in 1 .. Len(a.comps) : mm[i] = m[i]
    <2>1. Len(m) = Len(a.comps) /\ m \in Seq(Int)
      BY <1>1, <1>2, <1>10 DEF MeasuredOK
    <2>2. mm = Append(m, 0)
      BY <1>10
    <2> QED
      BY <1>3, <1>4, <2>1, <2>2
  <1>12. ASSUME NEW i \in 1 .. Len(b.comps),
                \A q \in PartsOf(d, procNode') : procNode'[q].part # i
         PROVE  mm[i] = Given(b.comps[i])
    <2>1. i # k
      <3>1. p \in PartsOf(d, procNode') /\ procNode'[p].part = k
        BY <1>3, <1>4, <1>5
      <3> QED
        BY <1>12, <3>1
    <2>2. i \in 1 .. Len(a.comps)
      BY <1>3, <1>4, <2>1
    <2>3. \A q \in PartsOf(d, procNode) : procNode[q].part # i
      BY <1>5, <1>6, <1>12
    <2>4. m[i] = Given(a.comps[i])
      BY <1>1, <1>2, <1>10, <2>2, <2>3 DEF MeasuredOK
    <2> QED
      BY <1>3, <1>11, <2>2, <2>4
  <1>13. ASSUME NEW q \in PartsOf(d, procNode')
         PROVE  mm[procNode'[q].part] = Given(b.comps[procNode'[q].part])
                    + (SumOf([i \in DOMAIN procNode'[q].agg.comps |->
                                  Given(procNode'[q].agg.comps[i])])
                          - procNode'[q].agg.lastActualVal)
    <2>1. CASE q = p
      <3>1. procNode'[q] = n
        BY <1>5, <2>1
      <3>2. mm[n.part] = 0 /\ Given(b.comps[n.part]) = 0
        BY <1>3, <1>4, <1>11
      <3>3. 0 = 0 + (0 - 0)
        OBVIOUS
      <3> QED
        BY <1>3, <3>1, <3>2, <3>3
    <2>2. CASE q # p
      <3>1. q \in PartsOf(d, procNode)
        BY <1>5, <2>2
      <3>2. measured[d][procNode[q].part] = Given(node[d].agg.comps[procNode[q].part])
              + (SumOf([i \in DOMAIN procNode[q].agg.comps |->
                            Given(procNode[q].agg.comps[i])])
                     - procNode[q].agg.lastActualVal)
        BY <1>1, <3>1 DEF MeasuredOK
      <3>3. PICK o : o = procNode[q]
        OBVIOUS
      <3>4. procNode'[q] = o /\ o.part \in 1 .. Len(a.comps)
        BY <1>6, <3>1, <3>3
      <3>5. mm[o.part] = m[o.part] /\ b.comps[o.part] = a.comps[o.part]
        BY <1>3, <1>11, <3>4
      <3> QED
        BY <1>2, <1>10, <3>2, <3>3, <3>4, <3>5
    <2> QED
      BY <2>1, <2>2
  <1>14. MeasuredOK(b, procNode', d, mm)
    BY <1>11, <1>12, <1>13 DEF MeasuredOK
  <1> QED
    BY <1>2, <1>9, <1>10, <1>14

LEMMA NewProcessInv ==
    ASSUME DataInv, NEW p \in Proc, NEW insertable \in BOOLEAN, NewProcess(p, insertable)
    PROVE  DataInv'
  <1>1. /\ p \in waiting /\ live' = live \union {p} /\ waiting' = waiting \ {p}
        /\ clockNow' = clockNow + 1 /\ toDelete' = toDelete
        /\ toDaemon' = toDaemon /\ toFE' = toFE
        /\ width' = width /\ fe' = fe /\ component' = component /\ asked' = asked
        /\ refused' = refused /\ enabled' = enabled /\ shown' = shown
    BY DEF NewProcess, ReadClock, frontEnd
  <1>2. PICK d \in Daemon : d = Host[p]
    BY CollectionAssumption
  <1>3. /\ node \in [Daemon -> NodeType] /\ procNode \in [Proc -> ProcNodeType]
        /\ measured \in [Daemon -> Seq(Int)] /\ width \in Nat \ {0}
        /\ clockNow \in Nat /\ clockNow' \in Nat /\ clockNow <= clockNow'
    <2>1. clockNow \in Nat
      BY DEF DataInv, TypeInv
    <2>2. clockNow' \in Nat /\ clockNow <= clockNow'
      BY <1>1, <2>1
    <2> QED
      BY <2>1, <2>2 DEF DataInv, TypeInv
  <1>4. p \notin live /\ procNode[p].part = 0
    BY <1>1 DEF DataInv, NodesInv
  <1>5. live' \intersect waiting' = {}
    BY <1>1 DEF DataInv, NodesInv
  <1>6. CASE ~node[d].exists
    <2>1. node' = node /\ procNode' = procNode /\ measured' = measured
      BY <1>2, <1>6 DEF NewProcess
    <2>2. TypeInv'
      BY <1>1, <1>3, <2>1 DEF DataInv, TypeInv
    <2>3. OnlyAt(d)
      BY <1>1, <1>2, <1>3, <2>1 DEF OnlyAt
    <2>4. ProcsThere(d)'
      BY <1>1, <2>1 DEF ProcsThere, DataInv, NodesInv
    <2>5. Link(d)'
      <3>1. SameLink(d)
        BY <1>1, <2>1 DEF SameLink, SameButQueue
      <3> QED
        BY <3>1, LinkFrame DEF DataInv, LinkInv
    <2> QED
      BY <1>5, <1>6, <2>1, <2>2, <2>3, <2>4, <2>5, DaemonInv
  <1>7. CASE node[d].exists
    <2>1. PICK a : a = node[d].agg
      OBVIOUS
    <2>2. a \in AggType /\ AggOK(a) /\ a.curIntvlStart <= clockNow'
      <3>1. AggOK(a) /\ a.curIntvlStart <= clockNow
        BY <1>7, <2>1 DEF DataInv, NodesInv, NodeOK
      <3>2. a \in AggType /\ a.curIntvlStart \in Nat \union {NotSet}
        BY <3>1 DEF AggOK, AggType
      <3> QED
        BY <1>3, <3>1, <3>2 DEF NotSet
    <2>3. PICK b, n : /\ JoinsAs(a, b, n)
                      /\ node' = [node EXCEPT ![d].agg = b]
                      /\ procNode' = [procNode EXCEPT ![p] = n]
      <3>1. PICK started \in BOOLEAN :
               started = (insertable /\ \A q \in procsOf(d) :
                                           procNode[q].part # 0 => procNode[q].inserted)
        OBVIOUS
      <3>2. PICK i : i = Len(a.comps) + 1
        OBVIOUS
      <3>3. /\ node' = [node EXCEPT ![d].agg =
                           IF started THEN addStarted(@) ELSE newComponent(@)]
            /\ procNode' = [procNode EXCEPT ![p] =
                   IF started THEN Started(i)
                   ELSE [NoProcNode EXCEPT !.part = i, !.inserted = insertable]]
        BY <1>2, <1>7, <2>1, <3>1, <3>2 DEF NewProcess
      <3>4. CASE started
        <4>1. JoinsAs(a, addStarted(a), Started(Len(a.comps) + 1))
          BY <1>3, <2>2, StartedPart
        <4>2. /\ node' = [node EXCEPT ![d].agg = addStarted(a)]
              /\ procNode' = [procNode EXCEPT ![p] = Started(Len(a.comps) + 1)]
          BY <2>1, <3>2, <3>3, <3>4
        <4> QED
          BY <4>1, <4>2
      <3>5. CASE ~started
        <4>1. JoinsAs(a, newComponent(a),
                      [NoProcNode EXCEPT !.part = Len(a.comps) + 1, !.inserted = insertable])
          BY <1>3, <2>2, WaitingPart
        <4>2. /\ node' = [node EXCEPT ![d].agg = newComponent(a)]
              /\ procNode' = [procNode EXCEPT ![p] =
                     [NoProcNode EXCEPT !.part = Len(a.comps) + 1, !.inserted = insertable]]
          BY <2>1, <3>2, <3>3, <3>5
        <4> QED
          BY <4>1, <4>2
      <3> QED
        BY <3>4, <3>5
    <2>4. /\ AggOK(b) /\ b \in AggType /\ n \in ProcNodeType /\ n.part # 0
          /\ b.lastActualVal = a.lastActualVal /\ b.curIntvlStart = a.curIntvlStart
      <3>1. Len(a.comps) \in Nat
        BY <2>2, CompsOf
      <3>2. Len(a.comps) + 1 # 0
        BY <3>1
      <3> QED
        BY <2>3, <3>2 DEF JoinsAs, AggOK
    <2>5. /\ node' \in [Daemon -> NodeType] /\ node'[d].exists /\ node'[d].agg = b
          /\ \A e \in Daemon : e # d => node'[e] = node[e]
      <3>1. PICK j : j = [node[d] EXCEPT !.agg = b]
        OBVIOUS
      <3>2. j \in NodeType /\ j.agg = b /\ j.exists
        BY <1>3, <1>7, <2>4, <3>1 DEF NodeType
      <3>3. node' = [node EXCEPT ![d] = j]
        BY <2>3, <3>1
      <3> QED
        BY <1>3, <3>2, <3>3
    <2>6. /\ procNode' \in [Proc -> ProcNodeType] /\ procNode'[p] = n
          /\ \A q \in Proc : q # p => procNode'[q] = procNode[q]
      BY <1>3, <2>3, <2>4
    <2>7. /\ measured' \in [Daemon -> Seq(Int)] /\ measured'[d] = Append(measured[d], 0)
          /\ \A e \in Daemon : e # d => measured'[e] = measured[e]
      <3>1. measured' = [measured EXCEPT ![d] = Append(@, 0)]
        BY <1>2, <1>7 DEF NewProcess
      <3>2. Append(measured[d], 0) \in Seq(Int)
        BY <1>3
      <3> QED
        BY <1>3, <3>1, <3>2
    <2>8. TypeInv'
      BY <1>1, <1>3, <2>5, <2>6, <2>7 DEF DataInv, TypeInv
    <2>9. OnlyAt(d)
      BY <1>1, <1>2, <1>3, <2>5, <2>6, <2>7 DEF OnlyAt
    <2>10. ProcsThere(d)'
      <3>1. ASSUME NEW q \in Proc, Host[q] = d
            PROVE  /\ procNode'[q].part # 0 => q \in live' /\ node'[d].exists
                   /\ procNode'[q].inserted => procNode'[q].part # 0
        <4>1. CASE q = p
          BY <1>1, <2>4, <2>5, <2>6, <4>1
        <4>2. CASE q # p
          BY <1>1, <2>5, <2>6, <3>1, <4>2 DEF DataInv, NodesInv
        <4> QED
          BY <4>1, <4>2
      <3> QED
        BY <3>1 DEF ProcsThere
    <2>11. /\ NodeOK(d, node[d].agg, procNode, clockNow)'
           /\ MeasuredOK(node[d].agg, procNode, d, measured[d])'
      <3>1. JoinsAs(node[d].agg, node'[d].agg, n)
        BY <2>1, <2>3, <2>5
      <3> QED
        BY <1>1, <1>2, <1>3, <1>4, <1>7, <2>3, <2>7, <3>1, PartJoined
    <2>12. Link(d)'
      <3>1. SameLink(d)
        BY <1>1, <1>7, <2>1, <2>4, <2>5 DEF SameLink, SameButQueue
      <3> QED
        BY <3>1, LinkFrame DEF DataInv, LinkInv
    <2> QED
      BY <1>5, <1>7, <2>8, <2>9, <2>10, <2>11, <2>12, DaemonInv
  <1> QED
    BY <1>6, <1>7

-----------------------------------------------------------------------------
(* A daemon samples processes: an interval of a process is passed on to    *)
(* its component of the node.                                              *)

SampledType == [agg : AggType, procs : [Proc -> ProcNodeType], out : Seq(IntvlType)]

(* From x to s the intervals es are given to component k, and those in o   *)
(* come out.                                                               *)
Moves(x, s, k, es, o) ==
    /\ s \in SampledType /\ s.procs = x.procs /\ Joined(s.out, x.out, o)
    /\ EntriesFed(x.agg, s.agg, k, es, o) /\ Emits(x.agg, s.agg, o)

PassedOn(x, s, k, es) == \E o \in Seq(IntvlType) : Moves(x, s, k, es, o)

Open(a, k) == k \in 1 .. Len(a.comps) /\ a.comps[k].last # NotSet /\ ~a.comps[k].bIsFinished

LEMMA PassOne ==
    ASSUME NEW x \in SampledType, AggOK(x.agg), NEW p, NEW k, k = procNode[p].part,
           Open(x.agg, k), NEW e \in IntvlType, e.start = GivenUpTo(x.agg.comps[k])
    PROVE  \E es \in Seq(IntvlType) : es = <<e>> /\ PassedOn(x, Pass(x, p, e), k, es)
  <1>1. e.start \in Nat /\ e.end \in Nat /\ e.value \in Int /\ e.start < e.end
    BY DEF IntvlType
  <1>2. PICK a : a = x.agg
    OBVIOUS
  <1>3. /\ AggOK(a) /\ a \in AggType /\ x.out \in Seq(IntvlType) /\ k \in 1 .. Len(a.comps)
        /\ a.comps[k].last # NotSet /\ ~a.comps[k].bIsFinished
    BY <1>2 DEF SampledType, Open
  <1>4. PICK t \in SampleType : t = [time |-> e.end, value |-> e.value]
    BY <1>1 DEF SampleType
  <1>5. t.time = e.end /\ t.value = e.value
    BY <1>4
  <1>6. PICK c, o : /\ c = aggregateAll(addSamplePt(a, k, t), MaxReading).agg
                    /\ o = aggregateAll(addSamplePt(a, k, t), MaxReading).out
    OBVIOUS
  <1>7. Fed(a, c, k, e.value, e.end, o)
    <2>1. GivenUpTo(a.comps[k]) < t.time /\ MaxReading \in Nat
      BY <1>1, <1>2, <1>5, CollectionAssumption
    <2>2. Fed(a, c, k, t.value, t.time, o)
      BY <1>3, <1>6, <2>1, FeedOne
    <2> QED
      BY <1>5, <2>2
  <1>8. PICK s : s = [x EXCEPT !.agg = c, !.out = @ \o o]
    OBVIOUS
  <1>9. s = Pass(x, p, e)
    BY <1>2, <1>4, <1>6, <1>8 DEF Pass
  <1>10. PICK es \in Seq(IntvlType) : es = <<e>> /\ Len(es) = 1 /\ es[1] = e /\ es # <<>>
    <2>1. <<e>> \in Seq(IntvlType)
      OBVIOUS
    <2> QED
      BY <2>1
  <1>11. o \in Seq(IntvlType) /\ c \in AggType
    BY <1>7 DEF Fed, Emits, AggOK
  <1>12. EntriesFed(a, c, k, es, o)
    <2>1. Values(es) = e.value /\ NextOf(es, GivenUpTo(a.comps[k])) = e.end
      BY <1>10, AreValued, ValuesOne DEF NextOf
    <2> QED
      BY <1>3, <1>7, <1>10, <2>1 DEF EntriesFed, Fed, Emits
  <1>13. x.out \o o \in Seq(IntvlType)
    BY <1>3, <1>11, ConcatProperties
  <1>14. s \in SampledType /\ s.agg = c /\ s.procs = x.procs /\ s.out = x.out \o o
    BY <1>8, <1>11, <1>13 DEF SampledType
  <1>15. Moves(x, s, k, es, o)
    BY <1>2, <1>7, <1>12, <1>14 DEF Moves, Fed, Joined
  <1> QED
    BY <1>9, <1>10, <1>11, <1>15 DEF PassedOn

LEMMA PassNone ==
    ASSUME NEW x \in SampledType, AggOK(x.agg), NEW k \in 1 .. Len(x.agg.comps)
    PROVE  PassedOn(x, x, k, <<>>)
  <1>1. <<>> \in Seq(IntvlType)
    OBVIOUS
  <1>2. PICK e \in Seq(IntvlType) : e = <<>>
    BY <1>1
  <1>3. EntriesFed(x.agg, x.agg, k, e, e)
    BY <1>2, NothingFed
  <1>4. Emits(x.agg, x.agg, e)
    BY <1>2, Unchanged DEF Aggregated
  <1>5. Joined(x.out, x.out, e)
    BY <1>2, ConcatEmptySeq DEF Joined, SampledType
  <1>6. Moves(x, x, k, e, e)
    BY <1>3, <1>4, <1>5 DEF Moves
  <1> QED
    BY <1>2, <1>6 DEF PassedOn

LEMMA JoinedBoth ==
    ASSUME NEW x \in Seq(IntvlType), NEW y, NEW z, NEW o \in Seq(IntvlType),
           NEW p \in Seq(IntvlType), Joined(y, x, o), Joined(z, y, p)
    PROVE  Joined(z, x, o \o p)
  <1>1. (x \o o) \o p = x \o (o \o p)
    BY IntvlsJoin
  <1> QED
    BY <1>1 DEF Joined

LEMMA PassBoth ==
    ASSUME NEW x \in SampledType, NEW y, NEW z, NEW k \in 1 .. Len(x.agg.comps),
           NEW es \in Seq(IntvlType), NEW fs \in Seq(IntvlType),
           PassedOn(x, y, k, es), PassedOn(y, z, k, fs)
    PROVE  PassedOn(x, z, k, es \o fs)
  <1>1. PICK o \in Seq(IntvlType) : Moves(x, y, k, es, o)
    BY DEF PassedOn
  <1>2. PICK p \in Seq(IntvlType) : Moves(y, z, k, fs, p)
    BY DEF PassedOn
  <1>3. x.agg \in AggType /\ y.agg \in AggType /\ z.agg \in AggType /\ x.out \in Seq(IntvlType)
    BY <1>1, <1>2 DEF SampledType, Moves
  <1>4. EntriesFed(x.agg, z.agg, k, es \o fs, o \o p)
    <2>1. EntriesFed(x.agg, y.agg, k, es, o) /\ EntriesFed(y.agg, z.agg, k, fs, p)
      BY <1>1, <1>2 DEF Moves
    <2> QED
      BY <1>3, <2>1, EntriesBoth
  <1>5. Emits(x.agg, z.agg, o \o p)
    BY <1>1, <1>2, <1>3, EmitsBoth DEF Moves
  <1>6. Joined(z.out, x.out, o \o p)
    BY <1>1, <1>2, <1>3, JoinedBoth DEF Moves
  <1>7. o \o p \in Seq(IntvlType)
    BY ConcatProperties
  <1>8. z \in SampledType /\ z.procs = x.procs
    BY <1>1, <1>2 DEF Moves
  <1>9. PICK op \in Seq(IntvlType) : op = o \o p
    BY <1>7
  <1>10. Moves(x, z, k, es \o fs, op)
    BY <1>4, <1>5, <1>6, <1>8, <1>9 DEF Moves
  <1> QED
    BY <1>10 DEF PassedOn

(* All intervals of a process, one after the other.                        *)
PassAll(x, p, es) ==
    LET passed[i \in 0 .. Len(es)] ==
            IF i = 0 THEN x ELSE Pass(passed[i - 1], p, es[i])
    IN  passed[Len(es)]

LEMMA PassMany ==
    ASSUME NEW x \in SampledType, AggOK(x.agg), NEW p, NEW k, k = procNode[p].part,
           Open(x.agg, k), NEW es \in Seq(IntvlType), Contiguous(es),
           es # <<>> => es[1].start = GivenUpTo(x.agg.comps[k])
    PROVE  PassedOn(x, PassAll(x, p, es), k, es)
  <1> DEFINE n == Len(es)
             T == SampledType
             S == [i \in 0 .. n |-> {r \in T : PassedOn(x, r, k, SubSeq(es, 1, i))}]
             step == [i \in 1 .. n |-> [r \in T |-> Pass(r, p, es[i])]]
             Def(g) == [i \in 0 .. n |-> IF i = 0 THEN x ELSE Pass(g[i - 1], p, es[i])]
             f == CHOOSE g : g = Def(g)
  <1>1. n \in Nat /\ (\A i \in 1 .. n : es[i] \in IntvlType) /\ k \in 1 .. Len(x.agg.comps)
    BY DEF Open
  <1>2. PassedOn(x, x, k, SubSeq(es, 1, 0))
    <2>1. SubSeq(es, 1, 0) = <<>>
      BY SubSeqEmpty
    <2> QED
      BY <1>1, <2>1, PassNone
  <1>3. ASSUME NEW i \in 1 .. n, NEW r \in T, PassedOn(x, r, k, SubSeq(es, 1, i - 1))
        PROVE  /\ Pass(r, p, es[i]) \in T
               /\ PassedOn(x, Pass(r, p, es[i]), k, SubSeq(es, 1, i))
    <2>1. PICK q \in Seq(IntvlType) : q = SubSeq(es, 1, i - 1)
      <3>1. SubSeq(es, 1, i - 1) \in Seq(IntvlType)
        BY <1>1, SubSeqProperties
      <3> QED
        BY <3>1
    <2>2. PICK o \in Seq(IntvlType) : Moves(x, r, k, q, o)
      BY <1>3, <2>1 DEF PassedOn
    <2>3. /\ AggOK(r.agg) /\ Len(r.agg.comps) = Len(x.agg.comps)
          /\ ~r.agg.comps[k].bIsFinished /\ r.agg.comps[k].last # NotSet
          /\ GivenUpTo(r.agg.comps[k]) = NextOf(q, GivenUpTo(x.agg.comps[k]))
      BY <2>2 DEF Moves, EntriesFed, Open
    <2>4. Open(r.agg, k)
      BY <1>1, <2>3 DEF Open
    <2>5. es[i].start = GivenUpTo(r.agg.comps[k])
      <3>1. CASE i = 1
        <4>1. q = <<>>
          BY <2>1, <3>1, SubSeqEmpty
        <4>2. es # <<>>
          BY <1>1, <3>1, EmptySeq
        <4> QED
          BY <2>3, <3>1, <4>1, <4>2 DEF NextOf
      <3>2. CASE i # 1
        <4>1. Len(q) = i - 1 /\ q[Len(q)] = es[i - 1] /\ i - 1 \in Nat \ {0}
          BY <1>1, <2>1, <3>2, SubSeqProperties, SMTT(20)
        <4>2. q # <<>>
          BY <4>1, EmptySeq
        <4>3. i \in 2 .. Len(es)
          BY <3>2
        <4>4. es[i].start = es[i - 1].end
          BY <4>3 DEF Contiguous
        <4> QED
          BY <2>3, <4>1, <4>2, <4>4 DEF NextOf
      <3> QED
        BY <3>1, <3>2
    <2>6. PICK s : s = Pass(r, p, es[i])
      OBVIOUS
    <2>7. PICK e \in Seq(IntvlType) : e = <<es[i]>> /\ PassedOn(r, s, k, e)
      BY <1>1, <2>3, <2>4, <2>5, <2>6, PassOne
    <2>8. SubSeq(es, 1, i) = q \o e
      <3>1. 1 \in 1 .. Len(es) /\ i \in 1 .. Len(es)
        BY <1>1
      <3> QED
        BY <2>1, <2>7, <3>1, SubSeqRecursiveSecond
    <2>9. PassedOn(x, s, k, q \o e)
      BY <1>1, <1>3, <2>1, <2>7, PassBoth
    <2>10. s \in T
      BY <2>7 DEF PassedOn, Moves
    <2> QED
      BY <2>6, <2>8, <2>9, <2>10
  <1>4. S \in [0 .. n -> SUBSET T] /\ x \in S[0]
    <2>1. S \in [0 .. n -> SUBSET T]
      OBVIOUS
    <2> HIDE DEF T
    <2> QED
      BY <1>2, <2>1 DEF T
  <1>5. \A i \in 0 .. n : \A r : r \in S[i] <=> r \in T /\ PassedOn(x, r, k, SubSeq(es, 1, i))
    <2> HIDE DEF T
    <2> QED
      OBVIOUS
  <1>6. \A i \in 1 .. n : i - 1 \in 0 .. n /\ i \in 0 .. n
    OBVIOUS
  <1>7. \A i \in 1 .. n : \A r \in T : step[i][r] = Pass(r, p, es[i])
    <2> HIDE DEF T
    <2> QED
      OBVIOUS
  <1> HIDE DEF S, step, T
  <1>8. f = Def(f)
    <2>1. StepKeeps(n, S, step)
      BY <1>3, <1>5, <1>6, <1>7 DEF StepKeeps
    <2>2. PICK g \in [0 .. n -> T] : IsLoop(n, S, x, step, g)
      BY <1>1, <1>4, <2>1, LoopExists
    <2>3. \A i \in 0 .. n : g[i] = IF i = 0 THEN x ELSE Pass(g[i - 1], p, es[i])
      <3>1. \A i \in 0 .. n : i # 0 => i \in 1 .. n /\ i - 1 \in 0 .. n
        OBVIOUS
      <3> QED
        BY <1>7, <2>2, <3>1 DEF IsLoop
    <2>4. g = Def(g)
      BY <2>2, <2>3
    <2> HIDE DEF Def
    <2> QED
      BY <2>4
  <1>9. PassAll(x, p, es) = f[n]
    BY DEF PassAll
  <1>10. f[0] = x /\ \A i \in 1 .. n : f[i] = Pass(f[i - 1], p, es[i])
    <2>1. Def(f)[0] = x /\ \A i \in 1 .. n : Def(f)[i] = Pass(f[i - 1], p, es[i])
      BY <1>1
    <2> HIDE DEF Def, f
    <2> QED
      BY <1>8, <2>1
  <1> HIDE DEF f, Def
  <1>11. Keeps(n, S, f)
    BY <1>3, <1>5, <1>6, <1>10 DEF Keeps
  <1>12. f[n] \in S[n]
    BY <1>1, <1>4, <1>10, <1>11, LoopKeeps
  <1>13. SubSeq(es, 1, n) = es
    BY SubSeqFull
  <1>14. n \in 0 .. n
    BY <1>1
  <1>15. PassedOn(x, f[n], k, SubSeq(es, 1, n))
    BY <1>5, <1>12, <1>14
  <1> QED
    BY <1>9, <1>13, <1>15

(* The aggregator of a process, when a sample is added.                    *)
Own(p) ==
    aggregateAll(addSamplePt(procNode[p].agg, 1,
                     [time |-> clockNow', value |-> clockNow' - procNode[p].since]), MaxReading)

SamplesItself(r, p) ==
    [r EXCEPT !.procs[p].agg = Own(p).agg, !.procs[p].since = clockNow']

LEMMA UpdateValueIs ==
    ASSUME NEW r, NEW p
    PROVE  updateValue(r, p) = PassAll(SamplesItself(r, p), p, Own(p).out)
  BY DEF updateValue, PassAll, SamplesItself, Own

LEMMA OwnIs ==
    ASSUME NEW p, NEW n, n = procNode[p], AggOK(n.agg), Len(n.agg.comps) = 1,
           n.agg.comps[1].last # NotSet, ~n.agg.comps[1].bIsFinished,
           GivenUpTo(n.agg.comps[1]) = n.since, n.since \in Nat, clockNow' \in Nat,
           n.since < clockNow'
    PROVE  Fed(n.agg, Own(p).agg, 1, clockNow' - n.since, clockNow', Own(p).out)
  <1>1. PICK s \in SampleType : s = [time |-> clockNow', value |-> clockNow' - n.since]
    <2>1. PICK v \in Int : v = clockNow' - n.since
      OBVIOUS
    <2>2. [time |-> clockNow', value |-> v] \in SampleType
      BY <2>1 DEF SampleType
    <2> QED
      BY <2>1, <2>2
  <1>2. s.time = clockNow' /\ s.value = clockNow' - n.since
    BY <1>1
  <1>3. PICK a : a = n.agg
    OBVIOUS
  <1>4. PICK c, o : /\ c = aggregateAll(addSamplePt(a, 1, s), MaxReading).agg
                    /\ o = aggregateAll(addSamplePt(a, 1, s), MaxReading).out
    OBVIOUS
  <1>5. Fed(a, c, 1, s.value, s.time, o)
    <2>1. 1 \in 1 .. Len(a.comps) /\ GivenUpTo(a.comps[1]) < s.time /\ MaxReading \in Nat
      BY <1>2, <1>3, CollectionAssumption
    <2> QED
      BY <1>3, <1>4, <2>1, FeedOne
  <1>6. c = Own(p).agg /\ o = Own(p).out
    BY <1>1, <1>3, <1>4 DEF Own
  <1> QED
    BY <1>2, <1>3, <1>5, <1>6

(* What a process has measured and not passed on.                          *)
Rest(n) == SumOf([i \in DOMAIN n.agg.comps |-> Given(n.agg.comps[i])]) - n.agg.lastActualVal

(* A process that was n and is m, when it is sampled and its component in  *)
(* the aggregator of the node, which was a and is b, gets its intervals.   *)
Took(a, b, n, m) ==
    /\ m.part = n.part /\ m.inserted = n.inserted /\ ProcOK(b, m, clockNow')
    /\ b.comps[n.part].last # NotSet
    /\ Given(b.comps[n.part]) + Rest(m)
          = Given(a.comps[n.part]) + Rest(n) + (clockNow' - n.since)

Emitted(r, s) == \E o \in Seq(IntvlType) : Joined(s.out, r.out, o) /\ Emits(r.agg, s.agg, o)

Updated(r, s, p) ==
    /\ s \in SampledType /\ AggOK(s.agg) /\ s.agg.width = r.agg.width
    /\ Len(s.agg.comps) = Len(r.agg.comps) /\ Emitted(r, s)
    /\ \A i \in 1 .. Len(r.agg.comps) :
          i # procNode[p].part => SameComp(r.agg.comps[i], s.agg.comps[i])
    /\ \A q \in Proc : q # p => s.procs[q] = r.procs[q]
    /\ Took(r.agg, s.agg, procNode[p], s.procs[p])

LEMMA RestOfOne ==
    ASSUME NEW n, n.agg \in AggType, Len(n.agg.comps) = 1
    PROVE  /\ Rest(n) = Given(n.agg.comps[1]) - n.agg.lastActualVal
           /\ Given(n.agg.comps[1]) \in Int /\ n.agg.lastActualVal \in Int
  <1>1. SumOf([i \in DOMAIN n.agg.comps |-> Given(n.agg.comps[i])]) = Given(n.agg.comps[1])
    BY SumsOfFew
  <1>2. n.agg.comps[1] \in CompType
    BY CompsOf
  <1>3. Given(n.agg.comps[1]) \in Int
    BY <1>2, GivenType
  <1> QED
    BY <1>1, <1>3 DEF Rest, AggType

LEMMA UpdateOne ==
    ASSUME NEW r \in SampledType, AggOK(r.agg), NEW p \in Proc, procNode[p] \in ProcNodeType,
           r.procs[p] = procNode[p], ProcOK(r.agg, procNode[p], clockNow),
           r.agg.comps[procNode[p].part].last # NotSet,
           clockNow \in Nat, clockNow' \in Nat, clockNow < clockNow'
    PROVE  Updated(r, updateValue(r, p), p)
  <1>1. PICK n, k, a : n = procNode[p] /\ k = n.part /\ a = r.agg
    OBVIOUS
  <1>2. /\ n \in ProcNodeType /\ n.since \in Nat /\ AggOK(a) /\ a \in AggType
        /\ ProcOK(a, n, clockNow) /\ a.comps[k].last # NotSet
    BY <1>1 DEF ProcNodeType, SampledType
  <1>3. /\ k \in 1 .. Len(a.comps) /\ ~a.comps[k].bIsFinished
        /\ AggOK(n.agg) /\ n.agg.width = width /\ Len(n.agg.comps) = 1
        /\ n.agg.comps[1].last # NotSet /\ ~n.agg.comps[1].bIsFinished
        /\ n.since <= clockNow /\ GivenUpTo(n.agg.comps[1]) = n.since
        /\ GivenUpTo(a.comps[k]) = FirstStart(n.agg)
    BY <1>1, <1>2 DEF ProcOK
  <1>4. PICK own, es : own = Own(p).agg /\ es = Own(p).out
    OBVIOUS
  <1>5. PICK v \in Int : v = clockNow' - n.since
    BY <1>2
  <1>6. Fed(n.agg, own, 1, v, clockNow', es)
    <2>1. n.since < clockNow'
      BY <1>2, <1>3
    <2> QED
      BY <1>1, <1>2, <1>3, <1>4, <1>5, <2>1, OwnIs
  <1>7. /\ AggOK(own) /\ own \in AggType /\ own.width = width /\ Len(own.comps) = 1
        /\ own.comps[1].last # NotSet /\ ~own.comps[1].bIsFinished
        /\ Given(own.comps[1]) = Given(n.agg.comps[1]) + v
        /\ GivenUpTo(own.comps[1]) = clockNow'
        /\ es \in Seq(IntvlType) /\ Contiguous(es)
        /\ Values(es) = own.lastActualVal - n.agg.lastActualVal
        /\ es = <<>> => FirstStart(own) = FirstStart(n.agg)
        /\ es # <<>> => es[1].start = FirstStart(n.agg) /\ own.curIntvlStart = es[Len(es)].end
    BY <1>3, <1>6 DEF Fed, Emits, AggOK
  <1>8. PICK m : m = [n EXCEPT !.agg = own, !.since = clockNow']
    OBVIOUS
  <1>9. /\ m \in ProcNodeType /\ m.agg = own /\ m.since = clockNow' /\ m.part = k
        /\ m.inserted = n.inserted
    BY <1>1, <1>2, <1>7, <1>8 DEF ProcNodeType
  <1>10. PICK x : x = SamplesItself(r, p)
    OBVIOUS
  <1>11. /\ x \in SampledType /\ x.agg = a /\ x.out = r.out /\ x.procs[p] = m
         /\ \A q \in Proc : q # p => x.procs[q] = r.procs[q]
    <2>1. PICK ps : ps = [r.procs EXCEPT ![p] = m]
      OBVIOUS
    <2>2. r.procs \in [Proc -> ProcNodeType]
      BY DEF SampledType
    <2>3. /\ ps \in [Proc -> ProcNodeType] /\ ps[p] = m
          /\ \A q \in Proc : q # p => ps[q] = r.procs[q]
      BY <1>9, <2>1, <2>2
    <2>4. x = [r EXCEPT !.procs = ps]
      BY <1>1, <1>4, <1>8, <1>10, <2>1, <2>2 DEF SamplesItself, SampledType
    <2>5. x \in SampledType /\ x.agg = a /\ x.out = r.out /\ x.procs = ps
      BY <1>1, <2>3, <2>4 DEF SampledType
    <2> QED
      BY <2>3, <2>5
  <1>12. PICK s : s = updateValue(r, p)
    OBVIOUS
  <1>13. PassedOn(x, s, k, es)
    <2>1. s = PassAll(x, p, es)
      BY <1>4, <1>10, <1>12, UpdateValueIs
    <2>2. Open(x.agg, k) /\ AggOK(x.agg) /\ k = procNode[p].part
      BY <1>1, <1>2, <1>3, <1>11 DEF Open
    <2>3. es # <<>> => es[1].start = GivenUpTo(x.agg.comps[k])
      BY <1>3, <1>7, <1>11
    <2> QED
      BY <1>7, <1>11, <2>1, <2>2, <2>3, PassMany
  <1>14. PICK o \in Seq(IntvlType) : Moves(x, s, k, es, o)
    BY <1>13 DEF PassedOn
  <1>15. /\ s \in SampledType /\ s.procs = x.procs /\ Emitted(r, s)
         /\ EntriesFed(a, s.agg, k, es, o)
    BY <1>1, <1>11, <1>14 DEF Moves, Emitted, Joined
  <1>16. /\ AggOK(s.agg) /\ s.agg.width = a.width /\ Len(s.agg.comps) = Len(a.comps)
         /\ \A i \in 1 .. Len(a.comps) : i # k => SameComp(a.comps[i], s.agg.comps[i])
         /\ Given(s.agg.comps[k]) = Given(a.comps[k]) + Values(es)
         /\ GivenUpTo(s.agg.comps[k]) = NextOf(es, GivenUpTo(a.comps[k]))
         /\ ~s.agg.comps[k].bIsFinished /\ s.agg.comps[k].last # NotSet
    BY <1>2, <1>3, <1>15 DEF EntriesFed
  <1>17. GivenUpTo(s.agg.comps[k]) = FirstStart(own)
    <2>1. CASE es = <<>>
      BY <1>3, <1>7, <1>16, <2>1 DEF NextOf
    <2>2. CASE es # <<>>
      <3>1. /\ NextOf(es, GivenUpTo(a.comps[k])) = es[Len(es)].end
            /\ NextOf(es, GivenUpTo(a.comps[k])) # NotSet
        BY <1>7, <2>2, EndOf
      <3>2. FirstStart(own) = own.curIntvlStart
        BY <1>7, <2>2, <3>1, FirstStartIs
      <3> QED
        BY <1>7, <1>16, <2>2, <3>1, <3>2
    <2> QED
      BY <2>1, <2>2
  <1>18. ProcOK(s.agg, m, clockNow')
    <2>1. clockNow' <= clockNow'
      OBVIOUS
    <2> QED
      BY <1>3, <1>7, <1>9, <1>16, <1>17, <2>1 DEF ProcOK
  <1>19. Given(s.agg.comps[k]) + Rest(m) = Given(a.comps[k]) + Rest(n) + v
    <2>1. /\ Rest(m) = Given(own.comps[1]) - own.lastActualVal
          /\ own.lastActualVal \in Int
      BY <1>7, <1>9, RestOfOne
    <2>2. /\ Rest(n) = Given(n.agg.comps[1]) - n.agg.lastActualVal
          /\ Given(n.agg.comps[1]) \in Int /\ n.agg.lastActualVal \in Int
      BY <1>3, RestOfOne DEF AggOK
    <2>3. Given(a.comps[k]) \in Int
      BY <1>2, <1>3, CompsOf, GivenType
    <2>4. PICK g1 \in Int, g2 \in Int, l1 \in Int, l2 \in Int :
             /\ g1 = Given(a.comps[k]) /\ g2 = Given(n.agg.comps[1])
             /\ l1 = n.agg.lastActualVal /\ l2 = own.lastActualVal
      BY <2>1, <2>2, <2>3
    <2>5. Given(s.agg.comps[k]) = g1 + (l2 - l1) /\ Rest(m) = (g2 + v) - l2 /\ Rest(n) = g2 - l1
      BY <1>7, <1>16, <2>1, <2>2, <2>4
    <2> QED
      BY <2>4, <2>5, SMTT(20)
  <1>20. Took(a, s.agg, n, m)
    BY <1>1, <1>5, <1>9, <1>16, <1>18, <1>19 DEF Took
  <1> QED
    BY <1>1, <1>11, <1>12, <1>15, <1>16, <1>20 DEF Updated

(* A process does not notice what happens to the other components.         *)
LEMMA ProcOKSame ==
    ASSUME NEW a, NEW b, NEW n, NEW now \in Nat, NEW then \in Nat, now <= then,
           ProcOK(a, n, now), Len(b.comps) = Len(a.comps), n.since \in Nat,
           SameComp(a.comps[n.part], b.comps[n.part])
    PROVE  ProcOK(b, n, then)
  <1>1. n.since <= now => n.since <= then
    OBVIOUS
  <1> QED
    BY <1>1 DEF ProcOK, SameComp

(* The processes procs[1], ..., procs[i] of daemon d are sampled: r is what *)
(* has become of its aggregator and its processes.                         *)
SampledTo(d, procs, i, r) ==
    /\ r \in SampledType /\ AggOK(r.agg) /\ r.agg.width = width
    /\ Len(r.agg.comps) = Len(node[d].agg.comps)
    /\ Emits(node[d].agg, r.agg, r.out)
    /\ \A p \in Proc : (\A j \in 1 .. i : procs[j] # p) => r.procs[p] = procNode[p]
    /\ \A j \in 1 .. i : Took(node[d].agg, r.agg, procNode[procs[j]], r.procs[procs[j]])
    /\ \A c \in 1 .. Len(node[d].agg.comps) :
          (\A j \in 1 .. i : procNode[procs[j]].part # c)
             => SameComp(node[d].agg.comps[c], r.agg.comps[c])

(* Processes of daemon d that can be sampled.                              *)
CanBeSampled(d, procs) ==
    /\ \A i \in 1 .. Len(procs) :
          /\ procs[i] \in PartsOf(d, procNode)
          /\ node[d].agg.comps[procNode[procs[i]].part].last # NotSet
    /\ \A i, j \in 1 .. Len(procs) : procs[i] = procs[j] => i = j

LEMMA SampledFirst ==
    ASSUME DataInv, NEW d \in Daemon, node[d].exists, NEW procs
    PROVE  LET r == [agg |-> node[d].agg, procs |-> procNode, out |-> <<>>]
           IN  r \in SampledType /\ SampledTo(d, procs, 0, r)
  <1>1. PICK a : a = node[d].agg
    OBVIOUS
  <1>2. /\ AggOK(a) /\ a.width = width /\ a \in AggType
        /\ procNode \in [Proc -> ProcNodeType]
    BY <1>1 DEF DataInv, NodesInv, NodeOK, TypeInv, AggOK
  <1>3. PICK e \in Seq(IntvlType) : e = <<>>
    <2>1. <<>> \in Seq(IntvlType)
      OBVIOUS
    <2> QED
      BY <2>1
  <1>4. PICK r : r = [agg |-> a, procs |-> procNode, out |-> e]
    OBVIOUS
  <1>5. r \in SampledType /\ r.agg = a /\ r.procs = procNode /\ r.out = e
    BY <1>2, <1>4 DEF SampledType
  <1>6. Emits(a, a, e)
    BY <1>2, <1>3, Unchanged DEF Aggregated
  <1>7. \A j \in 1 .. 0 : FALSE
    OBVIOUS
  <1>8. \A c \in 1 .. Len(a.comps) : SameComp(a.comps[c], a.comps[c])
    BY DEF SameComp
  <1>9. SampledTo(d, procs, 0, r)
    BY <1>1, <1>2, <1>5, <1>6, <1>7, <1>8 DEF SampledTo
  <1> QED
    BY <1>1, <1>3, <1>4, <1>5, <1>9

LEMMA SampledNext ==
    ASSUME DataInv, NEW d \in Daemon, node[d].exists, clockNow' \in Nat, clockNow < clockNow',
           NEW procs, Len(procs) \in Nat, CanBeSampled(d, procs),
           NEW i \in 1 .. Len(procs), NEW r, SampledTo(d, procs, i - 1, r)
    PROVE  /\ updateValue(r, procs[i]) \in SampledType
           /\ SampledTo(d, procs, i, updateValue(r, procs[i]))
  <1>1. PICK p, n, k, a : p = procs[i] /\ n = procNode[p] /\ k = n.part /\ a = node[d].agg
    OBVIOUS
  <1>2. /\ p \in PartsOf(d, procNode) /\ p \in Proc /\ n \in ProcNodeType
        /\ a.comps[k].last # NotSet /\ a \in AggType /\ clockNow \in Nat
        /\ n.since \in Nat
    <2>1. p \in PartsOf(d, procNode) /\ a.comps[k].last # NotSet
      BY <1>1 DEF CanBeSampled
    <2>2. p \in Proc
      BY <2>1 DEF PartsOf
    <2>3. procNode \in [Proc -> ProcNodeType] /\ clockNow \in Nat /\ a \in AggType
      BY <1>1, TypesOf DEF DataInv, TypeInv
    <2> QED
      BY <1>1, <2>1, <2>2, <2>3 DEF ProcNodeType
  <1>3. /\ ProcOK(a, n, clockNow) /\ k \in 1 .. Len(a.comps)
        /\ \A q \in PartsOf(d, procNode) : procNode[q].part = k => q = p
    <2>1. NodeOK(d, a, procNode, clockNow)
      BY <1>1 DEF DataInv, NodesInv
    <2>2. /\ ProcOK(a, n, clockNow)
          /\ \A q \in PartsOf(d, procNode) : procNode[q].part = k => q = p
      BY <1>1, <1>2, <2>1 DEF NodeOK
    <2> QED
      BY <1>1, <2>2 DEF ProcOK
  <1>4. \A j \in 1 .. i - 1 :
           /\ j \in 1 .. Len(procs) /\ procs[j] # p /\ procNode[procs[j]].part # k
           /\ procs[j] \in Proc /\ procNode[procs[j]].part \in 1 .. Len(a.comps)
    <2>1. ASSUME NEW j \in 1 .. i - 1
          PROVE  /\ j \in 1 .. Len(procs) /\ procs[j] # p /\ procNode[procs[j]].part # k
                 /\ procs[j] \in Proc /\ procNode[procs[j]].part \in 1 .. Len(a.comps)
      <3>1. j \in 1 .. Len(procs) /\ j # i
        OBVIOUS
      <3>2. procs[j] \in PartsOf(d, procNode) /\ procs[j] # p
        BY <1>1, <3>1 DEF CanBeSampled
      <3>3. ProcOK(a, procNode[procs[j]], clockNow)
        BY <1>1, <3>2 DEF DataInv, NodesInv, NodeOK
      <3>4. procs[j] \in Proc
        BY <3>2 DEF PartsOf
      <3>5. procNode[procs[j]].part \in 1 .. Len(a.comps)
        BY <3>3 DEF ProcOK
      <3> QED
        BY <1>3, <3>1, <3>2, <3>4, <3>5
    <2> QED
      BY <2>1
  <1>5. /\ r \in SampledType /\ AggOK(r.agg) /\ r.agg.width = width /\ r.agg \in AggType
        /\ Len(r.agg.comps) = Len(a.comps) /\ Emits(a, r.agg, r.out)
        /\ \A q \in Proc : (\A j \in 1 .. i - 1 : procs[j] # q) => r.procs[q] = procNode[q]
        /\ \A j \in 1 .. i - 1 : Took(a, r.agg, procNode[procs[j]], r.procs[procs[j]])
        /\ \A c \in 1 .. Len(a.comps) :
              (\A j \in 1 .. i - 1 : procNode[procs[j]].part # c)
                 => SameComp(a.comps[c], r.agg.comps[c])
    BY <1>1 DEF SampledTo, AggOK
  <1>6. SameComp(a.comps[k], r.agg.comps[k]) /\ r.procs[p] = n
    BY <1>1, <1>2, <1>3, <1>4, <1>5
  <1>7. PICK s : s = updateValue(r, p)
    OBVIOUS
  <1>8. Updated(r, s, p)
    <2>1. ProcOK(r.agg, n, clockNow)
      <3>1. clockNow <= clockNow
        BY <1>2
      <3> QED
        BY <1>1, <1>2, <1>3, <1>5, <1>6, <3>1, ProcOKSame
    <2>2. r.agg.comps[k].last # NotSet
      BY <1>2, <1>6 DEF SameComp
    <2> QED
      BY <1>1, <1>2, <1>5, <1>6, <1>7, <2>1, <2>2, UpdateOne
  <1>9. /\ s \in SampledType /\ AggOK(s.agg) /\ s.agg.width = width
        /\ Len(s.agg.comps) = Len(a.comps) /\ s.agg \in AggType
        /\ \A c \in 1 .. Len(a.comps) : c # k => SameComp(r.agg.comps[c], s.agg.comps[c])
        /\ \A q \in Proc : q # p => s.procs[q] = r.procs[q]
        /\ Took(r.agg, s.agg, n, s.procs[p]) /\ Emitted(r, s)
    BY <1>1, <1>5, <1>8 DEF Updated, AggOK
  <1>10. Emits(a, s.agg, s.out)
    <2>1. PICK o \in Seq(IntvlType) : Joined(s.out, r.out, o) /\ Emits(r.agg, s.agg, o)
      BY <1>9 DEF Emitted
    <2>2. Emits(a, s.agg, r.out \o o)
      BY <1>2, <1>5, <1>9, <2>1, EmitsBoth
    <2> QED
      BY <2>1, <2>2 DEF Joined
  <1>11. ASSUME NEW q \in Proc, \A j \in 1 .. i : procs[j] # q
         PROVE  s.procs[q] = procNode[q]
    <2>1. q # p /\ \A j \in 1 .. i - 1 : procs[j] # q
      BY <1>1, <1>11
    <2> QED
      BY <1>5, <1>9, <2>1
  <1>12. ASSUME NEW j \in 1 .. i
         PROVE  Took(a, s.agg, procNode[procs[j]], s.procs[procs[j]])
    <2>1. CASE j = i
      <3>1. Given(r.agg.comps[k]) = Given(a.comps[k])
        BY <1>6 DEF SameComp
      <3> QED
        BY <1>1, <1>9, <2>1, <3>1 DEF Took
    <2>2. CASE j # i
      <3>1. j \in 1 .. i - 1
        BY <2>2
      <3>2. PICK q, u, w : q = procs[j] /\ u = procNode[q] /\ w = r.procs[q]
        OBVIOUS
      <3>3. /\ q # p /\ q \in Proc /\ u.part # k /\ u.part \in 1 .. Len(a.comps)
            /\ Took(a, r.agg, u, w)
        BY <1>4, <1>5, <3>1, <3>2
      <3>4. s.procs[q] = w
        BY <1>9, <3>2, <3>3
      <3>5. SameComp(r.agg.comps[u.part], s.agg.comps[u.part])
        BY <1>9, <3>3
      <3>6. w.since \in Nat
        <4>1. r.procs \in [Proc -> ProcNodeType]
          BY <1>5 DEF SampledType
        <4>2. w \in ProcNodeType
          BY <3>2, <3>3, <4>1
        <4> QED
          BY <4>2 DEF ProcNodeType
      <3>7. ProcOK(r.agg, w, clockNow') /\ w.part = u.part /\ w.inserted = u.inserted
            /\ r.agg.comps[u.part].last # NotSet
            /\ Given(r.agg.comps[u.part]) + Rest(w)
                  = Given(a.comps[u.part]) + Rest(u) + (clockNow' - u.since)
        BY <3>3 DEF Took
      <3>8. PICK now \in Nat : now = clockNow' /\ now <= now
        OBVIOUS
      <3>9. ProcOK(s.agg, w, now)
        BY <1>5, <1>9, <3>5, <3>6, <3>7, <3>8, ProcOKSame
      <3>10. /\ Given(s.agg.comps[u.part]) = Given(r.agg.comps[u.part])
             /\ s.agg.comps[u.part].last # NotSet
        BY <3>5, <3>7 DEF SameComp
      <3>11. Took(a, s.agg, u, w)
        BY <3>7, <3>8, <3>9, <3>10 DEF Took
      <3> QED
        BY <3>2, <3>4, <3>11
    <2> QED
      BY <2>1, <2>2
  <1>13. ASSUME NEW c \in 1 .. Len(a.comps), \A j \in 1 .. i : procNode[procs[j]].part # c
         PROVE  SameComp(a.comps[c], s.agg.comps[c])
    <2>1. c # k /\ \A j \in 1 .. i - 1 : procNode[procs[j]].part # c
      BY <1>1, <1>13
    <2>2. SameComp(a.comps[c], r.agg.comps[c]) /\ SameComp(r.agg.comps[c], s.agg.comps[c])
      BY <1>5, <1>9, <2>1
    <2> QED
      BY <2>2 DEF SameComp
  <1>14. SampledTo(d, procs, i, s)
    BY <1>1, <1>9, <1>10, <1>11, <1>12, <1>13 DEF SampledTo
  <1> QED
    BY <1>1, <1>7, <1>9, <1>14

LEMMA SampleMany ==
    ASSUME DataInv, NEW d \in Daemon, node[d].exists, clockNow' \in Nat, clockNow < clockNow',
           NEW procs, Len(procs) \in Nat, CanBeSampled(d, procs)
    PROVE  SampledTo(d, procs, Len(procs), SampleAll(d, procs))
  <1> DEFINE n == Len(procs)
             T == SampledType
             x == [agg |-> node[d].agg, procs |-> procNode, out |-> <<>>]
             S == [i \in 0 .. n |-> {r \in T : SampledTo(d, procs, i, r)}]
             step == [i \in 1 .. n |-> [r \in T |-> updateValue(r, procs[i])]]
             Def(g) == [i \in 0 .. n |-> IF i = 0 THEN x ELSE updateValue(g[i - 1], procs[i])]
             f == CHOOSE g : g = Def(g)
  <1>1. n \in Nat
    OBVIOUS
  <1>2. x \in T /\ SampledTo(d, procs, 0, x)
    BY SampledFirst
  <1>3. ASSUME NEW i \in 1 .. n, NEW r \in T, SampledTo(d, procs, i - 1, r)
        PROVE  /\ updateValue(r, procs[i]) \in T
               /\ SampledTo(d, procs, i, updateValue(r, procs[i]))
    BY <1>3, SampledNext
  <1>4. S \in [0 .. n -> SUBSET T] /\ x \in S[0]
    <2>1. S \in [0 .. n -> SUBSET T]
      OBVIOUS
    <2> HIDE DEF T, x
    <2> QED
      BY <1>2, <2>1
  <1>5. \A i \in 0 .. n : \A r : r \in S[i] <=> r \in T /\ SampledTo(d, procs, i, r)
    <2> HIDE DEF T
    <2> QED
      OBVIOUS
  <1>6. \A i \in 1 .. n : i - 1 \in 0 .. n /\ i \in 0 .. n
    OBVIOUS
  <1>7. \A i \in 1 .. n : \A r \in T : step[i][r] = updateValue(r, procs[i])
    <2> HIDE DEF T
    <2> QED
      OBVIOUS
  <1> HIDE DEF S, step, T
  <1>8. f = Def(f)
    <2>1. StepKeeps(n, S, step)
      BY <1>3, <1>5, <1>6, <1>7 DEF StepKeeps
    <2> HIDE DEF x
    <2>2. PICK g \in [0 .. n -> T] : IsLoop(n, S, x, step, g)
      BY <1>1, <1>4, <2>1, LoopExists
    <2>3. \A i \in 0 .. n : g[i] = IF i = 0 THEN x ELSE updateValue(g[i - 1], procs[i])
      <3>1. \A i \in 0 .. n : i # 0 => i \in 1 .. n /\ i - 1 \in 0 .. n
        OBVIOUS
      <3> QED
        BY <1>7, <2>2, <3>1 DEF IsLoop
    <2>4. g = Def(g)
      BY <2>2, <2>3
    <2> HIDE DEF Def
    <2> QED
      BY <2>4
  <1>9. SampleAll(d, procs) = f[n]
    BY DEF SampleAll
  <1>10. f[0] = x /\ \A i \in 1 .. n : f[i] = updateValue(f[i - 1], procs[i])
    <2>1. Def(f)[0] = x /\ \A i \in 1 .. n : Def(f)[i] = updateValue(f[i - 1], procs[i])
      BY <1>1
    <2> HIDE DEF Def, f
    <2> QED
      BY <1>8, <2>1
  <1> HIDE DEF f, Def, x
  <1>11. Keeps(n, S, f)
    BY <1>3, <1>5, <1>6, <1>10 DEF Keeps
  <1>12. f[n] \in S[n]
    BY <1>1, <1>4, <1>10, <1>11, LoopKeeps
  <1>13. n \in 0 .. n
    BY <1>1
  <1> QED
    BY <1>5, <1>9, <1>12, <1>13

-----------------------------------------------------------------------------
(* What is sent: the intervals, and before the first of them that the      *)
(* initial actual value is set.                                            *)
BatchOf(sent, out) ==
    IF out = <<>> THEN <<>>
    ELSE (IF sent THEN <<>> ELSE <<[kind |-> "initial"]>>)
         \o <<[kind |-> "batch", entries |-> out]>>

LEMMA BatchIs ==
    ASSUME NEW out \in Seq(IntvlType), NEW sent \in BOOLEAN
    PROVE  LET r == BatchOf(sent, out)
           IN  r \in Seq(MsgType) /\ NoAnswer(r) /\ ~Ended(r) /\ EntriesIn(r) = out
  <1>1. CASE out = <<>>
    <2>1. <<>> \in Seq(MsgType) /\ NoAnswer(<<>>) /\ ~Ended(<<>>)
      BY DEF NoAnswer, Ended
    <2> QED
      BY <1>1, <2>1, EntriesEmpty DEF BatchOf
  <1>2. CASE out # <<>>
    <2>1. PICK m \in MsgType : /\ m = [kind |-> "batch", entries |-> out]
                               /\ m.kind = "batch" /\ m.entries = out
      <3>1. [kind |-> "batch", entries |-> out] \in MsgType
        BY DEF MsgType
      <3> QED
        BY <3>1
    <2>2. PICK b \in Seq(MsgType) : b = <<m>>
      <3>1. <<m>> \in Seq(MsgType)
        OBVIOUS
      <3> QED
        BY <3>1
    <2>3. NoAnswer(b) /\ ~Ended(b) /\ EntriesIn(b) = out
      BY <2>1, <2>2, KindsOne, EntriesOne DEF EntriesOf
    <2>4. PICK h \in MsgType : h = [kind |-> "initial"] /\ h.kind = "initial"
      <3>1. [kind |-> "initial"] \in MsgType
        BY DEF MsgType
      <3> QED
        BY <3>1
    <2>5. PICK i \in Seq(MsgType) : i = <<h>>
      <3>1. <<h>> \in Seq(MsgType)
        OBVIOUS
      <3> QED
        BY <3>1
    <2>6. NoAnswer(i) /\ ~Ended(i) /\ EntriesIn(i) = <<>>
      BY <2>4, <2>5, KindsOne, EntriesOne DEF EntriesOf
    <2>7. CASE sent
      <3>1. <<>> \o b = b
        BY ConcatEmptySeq
      <3> QED
        BY <1>2, <2>1, <2>2, <2>3, <2>7, <3>1 DEF BatchOf
    <2>8. CASE ~sent
      <3>1. BatchOf(sent, out) = i \o b
        BY <1>2, <2>1, <2>2, <2>4, <2>5, <2>8 DEF BatchOf
      <3>2. i \o b \in Seq(MsgType) /\ NoAnswer(i \o b) /\ ~Ended(i \o b)
        BY <2>3, <2>6, KindsBoth
      <3>3. EntriesIn(i \o b) = EntriesIn(i) \o EntriesIn(b)
        BY EntriesConcat
      <3>4. <<>> \o out = out
        BY ConcatEmptySeq
      <3> QED
        BY <2>3, <2>6, <3>1, <3>2, <3>3, <3>4
    <2> QED
      BY <2>7, <2>8
  <1> QED
    BY <1>1, <1>2

(* The interval of the node's aggregator begins no later than the sample.  *)
LEMMA StartsBefore ==
    ASSUME NEW b, AggOK(b), NEW m, m.agg \in AggType, NEW now \in Nat, ProcOK(b, m, now),
           b.comps[m.part].last # NotSet
    PROVE  b.curIntvlStart <= now
  <1>1. PICK c, o : c = b.comps[m.part] /\ o = m.agg.comps[1]
    OBVIOUS
  <1>2. /\ m.part \in 1 .. Len(b.comps) /\ ~c.bIsFinished /\ c.last # NotSet
        /\ AggOK(m.agg) /\ Len(m.agg.comps) = 1 /\ o.last # NotSet /\ ~o.bIsFinished
        /\ m.since <= now /\ GivenUpTo(o) = m.since
        /\ GivenUpTo(c) = FirstStart(m.agg)
    BY <1>1 DEF ProcOK
  <1>3. c \in CompType /\ CompOK(c, b.curIntvlStart) /\ b.curIntvlStart \in Nat \union {NotSet}
    BY <1>1, <1>2, CompsOf DEF AggOK, AggType
  <1>4. o \in CompType /\ CompOK(o, m.agg.curIntvlStart)
        /\ m.agg.curIntvlStart \in Nat \union {NotSet}
    BY <1>1, <1>2, CompsOf DEF AggOK, AggType
  <1>5. b.curIntvlStart <= GivenUpTo(c)
    <2>1. b.curIntvlStart <= c.last
      BY <1>2, <1>3 DEF CompOK
    <2>2. /\ c.last \in Int /\ c.futureSamples \in Seq(SampleType)
          /\ Ascending(c.futureSamples, c.last)
      BY <1>3 DEF CompOK, CompType, NotSet
    <2>3. UpTo(c.futureSamples, c.last) \in Int /\ c.last <= UpTo(c.futureSamples, c.last)
      BY <2>2, UpToIsLater
    <2>4. GivenUpTo(c) = UpTo(c.futureSamples, c.last)
      BY DEF GivenUpTo, UpTo
    <2>5. b.curIntvlStart \in Int
      BY <1>3 DEF NotSet
    <2> QED
      BY <2>1, <2>2, <2>3, <2>4, <2>5
  <1>6. o.last \in Int /\ o.last <= GivenUpTo(o) /\ GivenUpTo(o) \in Int
    <2>1. /\ o.last \in Int /\ o.futureSamples \in Seq(SampleType)
          /\ Ascending(o.futureSamples, o.last)
      BY <1>4 DEF CompOK, CompType, NotSet
    <2>2. UpTo(o.futureSamples, o.last) \in Int /\ o.last <= UpTo(o.futureSamples, o.last)
      BY <2>1, UpToIsLater
    <2>3. GivenUpTo(o) = UpTo(o.futureSamples, o.last)
      BY DEF GivenUpTo, UpTo
    <2> QED
      BY <2>1, <2>2, <2>3
  <1>7. FirstStart(m.agg) <= o.last /\ FirstStart(m.agg) \in Int
    <2>1. CASE m.agg.curIntvlStart # NotSet
      <3>1. FirstStart(m.agg) = m.agg.curIntvlStart
        BY <2>1, FirstStartIs
      <3>2. m.agg.curIntvlStart <= o.last
        BY <1>2, <1>4 DEF CompOK
      <3> QED
        BY <1>4, <2>1, <3>1, <3>2
    <2>2. CASE m.agg.curIntvlStart = NotSet
      <3>1. PICK T \in SUBSET Nat : T = {m.agg.comps[i].last : i \in DOMAIN m.agg.comps} /\ o.last \in T
        <4>1. DOMAIN m.agg.comps = {1}
          BY <1>2, CompsOf
        <4>2. {m.agg.comps[i].last : i \in DOMAIN m.agg.comps} = {o.last}
          BY <1>1, <4>1
        <4>3. o.last \in Nat
          BY <1>2, <1>4 DEF CompType
        <4> QED
          BY <4>2, <4>3
      <3>2. FirstStart(m.agg) = Min(T)
        BY <2>2, <3>1 DEF FirstStart
      <3>3. Min(T) \in T /\ Min(T) <= o.last
        BY <3>1, MinIs
      <3> QED
        BY <3>1, <3>2, <3>3
    <2> QED
      BY <2>1, <2>2
  <1>8. b.curIntvlStart \in Int /\ m.since \in Int
    BY <1>2, <1>3, <1>6 DEF NotSet
  <1> QED
    BY <1>2, <1>5, <1>6, <1>7, <1>8

(* What was measured of the processes that are sampled.                    *)
MeasuredMore(d, procs, m) ==
    /\ Len(m) = Len(measured[d])
    /\ \A j \in 1 .. Len(procs) :
          m[procNode[procs[j]].part] = measured[d][procNode[procs[j]].part]
                                       + (clockNow' - procNode[procs[j]].since)
    /\ \A i \in 1 .. Len(measured[d]) :
          (\A j \in 1 .. Len(procs) : procNode[procs[j]].part # i) => m[i] = measured[d][i]

(* A process of the daemon was sampled, or neither it nor its component    *)
(* have changed.                                                           *)
WasSampled(d, b, ps, p) == Took(node[d].agg, b, procNode[p], ps[p])
Untouched(d, b, ps, p) ==
    ps[p] = procNode[p] /\ SameComp(node[d].agg.comps[procNode[p].part], b.comps[procNode[p].part])

LEMMA EachSampled ==
    ASSUME DataInv, NEW d \in Daemon, node[d].exists, NEW procs, CanBeSampled(d, procs),
           NEW r, SampledTo(d, procs, Len(procs), r),
           NEW p \in PartsOf(d, procNode)
    PROVE  \/ /\ \E j \in 1 .. Len(procs) : procs[j] = p
              /\ WasSampled(d, r.agg, r.procs, p)
           \/ /\ \A j \in 1 .. Len(procs) : procNode[procs[j]].part # procNode[p].part
              /\ Untouched(d, r.agg, r.procs, p)
  <1>1. p \in Proc
    BY DEF PartsOf
  <1>2. CASE \E j \in 1 .. Len(procs) : procs[j] = p
    <2>1. PICK j \in 1 .. Len(procs) : procs[j] = p
      BY <1>2
    <2>2. Took(node[d].agg, r.agg, procNode[procs[j]], r.procs[procs[j]])
      BY DEF SampledTo
    <2> QED
      BY <1>2, <2>1, <2>2 DEF WasSampled
  <1>3. CASE \A j \in 1 .. Len(procs) : procs[j] # p
    <2>1. r.procs[p] = procNode[p]
      BY <1>1, <1>3 DEF SampledTo
    <2>2. NodeOK(d, node[d].agg, procNode, clockNow)
      BY DEF DataInv, NodesInv
    <2>3. \A j \in 1 .. Len(procs) : procNode[procs[j]].part # procNode[p].part
      <3>1. ASSUME NEW j \in 1 .. Len(procs), procNode[procs[j]].part = procNode[p].part
            PROVE  FALSE
        <4>1. procs[j] \in PartsOf(d, procNode)
          BY DEF CanBeSampled
        <4>2. procs[j] = p
          BY <2>2, <3>1, <4>1 DEF NodeOK
        <4> QED
          BY <1>3, <4>2
      <3> QED
        BY <3>1
    <2>4. procNode[p].part \in 1 .. Len(node[d].agg.comps)
      BY <2>2 DEF NodeOK, ProcOK
    <2>5. SameComp(node[d].agg.comps[procNode[p].part], r.agg.comps[procNode[p].part])
      BY <2>3, <2>4 DEF SampledTo
    <2> QED
      BY <2>1, <2>3, <2>5 DEF Untouched
  <1> QED
    BY <1>2, <1>3

(* The processes of the daemon have the parts they had.                    *)
LEMMA PartsSame ==
    ASSUME DataInv, NEW d \in Daemon, node[d].exists, NEW procs, CanBeSampled(d, procs),
           NEW r, SampledTo(d, procs, Len(procs), r), NEW p \in Proc
    PROVE  r.procs[p].part = procNode[p].part /\ r.procs[p].inserted = procNode[p].inserted
  <1>1. CASE \E j \in 1 .. Len(procs) : procs[j] = p
    <2>1. PICK j \in 1 .. Len(procs) : procs[j] = p
      BY <1>1
    <2>2. Took(node[d].agg, r.agg, procNode[procs[j]], r.procs[procs[j]])
      BY DEF SampledTo
    <2> QED
      BY <2>1, <2>2 DEF Took
  <1>2. CASE \A j \in 1 .. Len(procs) : procs[j] # p
    BY <1>2 DEF SampledTo
  <1> QED
    BY <1>1, <1>2

LEMMA SampledNode ==
    ASSUME DataInv, NEW d \in Daemon, node[d].exists, NEW procs,
           CanBeSampled(d, procs), NEW j1 \in 1 .. Len(procs),
           clockNow' \in Nat, clockNow <= clockNow', width' = width,
           NEW r, SampledTo(d, procs, Len(procs), r),
           node'[d].agg = r.agg, procNode' = r.procs,
           MeasuredMore(d, procs, measured'[d])
    PROVE  /\ NodeOK(d, node[d].agg, procNode, clockNow)'
           /\ MeasuredOK(node[d].agg, procNode, d, measured[d])'
  <1>1. PICK a, b, m : a = node[d].agg /\ b = r.agg /\ m = measured'[d]
    OBVIOUS
  <1>2. /\ NodeOK(d, a, procNode, clockNow) /\ MeasuredOK(a, procNode, d, measured[d])
        /\ a \in AggType /\ clockNow \in Nat /\ procNode \in [Proc -> ProcNodeType]
    BY <1>1, TypesOf DEF DataInv, NodesInv, MeasuredInv, TypeInv
  <1>3. /\ r \in SampledType /\ AggOK(b) /\ b.width = width /\ Len(b.comps) = Len(a.comps)
        /\ b \in AggType
        /\ \A c \in 1 .. Len(a.comps) :
              (\A j \in 1 .. Len(procs) : procNode[procs[j]].part # c)
                 => SameComp(a.comps[c], b.comps[c])
    BY <1>1 DEF SampledTo, AggOK
  <1>4. PartsOf(d, r.procs) = PartsOf(d, procNode)
    BY PartsSame DEF PartsOf
  <1>5. ASSUME NEW p \in PartsOf(d, procNode)
        PROVE  ProcOK(b, r.procs[p], clockNow')
    <2>1. CASE WasSampled(d, b, r.procs, p)
      BY <1>1, <2>1 DEF WasSampled, Took
    <2>2. CASE Untouched(d, b, r.procs, p)
      <3>1. PICK n : n = procNode[p] /\ n = r.procs[p]
        BY <2>2 DEF Untouched
      <3>2. ProcOK(a, n, clockNow) /\ SameComp(a.comps[n.part], b.comps[n.part])
        BY <1>1, <1>2, <2>2, <3>1 DEF NodeOK, Untouched
      <3>3. n.since \in Nat
        <4>1. p \in Proc
          BY DEF PartsOf
        <4>2. n \in ProcNodeType
          BY <1>2, <3>1, <4>1
        <4> QED
          BY <4>2 DEF ProcNodeType
      <3>4. ProcOK(b, n, clockNow')
        BY <1>2, <1>3, <3>2, <3>3, ProcOKSame
      <3> QED
        BY <3>1, <3>4
    <2> QED
      BY <1>1, <2>1, <2>2, EachSampled
  <1>6. b.curIntvlStart <= clockNow'
    <2>1. procs[j1] \in PartsOf(d, procNode)
      BY DEF CanBeSampled
    <2>2. PICK p \in PartsOf(d, procNode) : p = procs[j1]
      BY <2>1
    <2>3. PICK k : k = r.procs[p]
      OBVIOUS
    <2>4. Took(a, b, procNode[p], k)
      BY <1>1, <2>2, <2>3 DEF SampledTo
    <2>5. ProcOK(b, k, clockNow') /\ b.comps[k.part].last # NotSet
      BY <2>4 DEF Took
    <2>6. k.agg \in AggType
      <3>1. p \in Proc
        BY DEF PartsOf
      <3>2. k \in ProcNodeType
        BY <1>3, <2>3, <3>1 DEF SampledType
      <3> QED
        BY <3>2 DEF ProcNodeType
    <2> QED
      BY <1>3, <2>5, <2>6, StartsBefore
  <1>7. NodeOK(d, b, r.procs, clockNow')
    <2>1. ASSUME NEW p \in PartsOf(d, r.procs)
          PROVE  /\ ProcOK(b, r.procs[p], clockNow')
                 /\ \A q \in PartsOf(d, r.procs) :
                       r.procs[q].part = r.procs[p].part => q = p
      <3>1. p \in PartsOf(d, procNode) /\ p \in Proc
        BY <1>4 DEF PartsOf
      <3>2. ASSUME NEW q \in PartsOf(d, r.procs), r.procs[q].part = r.procs[p].part
            PROVE  q = p
        <4>1. q \in PartsOf(d, procNode) /\ q \in Proc
          BY <1>4 DEF PartsOf
        <4>2. procNode[q].part = procNode[p].part
          BY <3>1, <3>2, <4>1, PartsSame
        <4> QED
          BY <1>2, <3>1, <4>1, <4>2 DEF NodeOK
      <3> QED
        BY <1>5, <3>1, <3>2
    <2> QED
      BY <1>3, <1>6, <2>1 DEF NodeOK
  <1>8. /\ Len(measured[d]) = Len(a.comps) /\ Len(m) = Len(b.comps)
        /\ \A i \in 1 .. Len(a.comps) :
              (\A p \in PartsOf(d, procNode) : procNode[p].part # i)
                 => measured[d][i] = Given(a.comps[i])
    BY <1>1, <1>2, <1>3 DEF MeasuredOK, MeasuredMore
  <1>9. ASSUME NEW i \in 1 .. Len(b.comps), \A p \in PartsOf(d, r.procs) : r.procs[p].part # i
        PROVE  m[i] = Given(b.comps[i])
    <2>1. \A p \in PartsOf(d, procNode) : procNode[p].part # i
      <3>1. ASSUME NEW p \in PartsOf(d, procNode) PROVE procNode[p].part # i
        <4>1. p \in Proc /\ p \in PartsOf(d, r.procs)
          BY <1>4 DEF PartsOf
        <4> QED
          BY <1>9, <4>1, PartsSame
      <3> QED
        BY <3>1
    <2>2. \A j \in 1 .. Len(procs) : procNode[procs[j]].part # i
      BY <2>1 DEF CanBeSampled
    <2>3. m[i] = measured[d][i]
      BY <1>1, <1>3, <1>8, <2>2 DEF MeasuredMore
    <2>4. Given(b.comps[i]) = Given(a.comps[i])
      BY <1>3, <2>2 DEF SameComp
    <2> QED
      BY <1>3, <1>8, <2>1, <2>3, <2>4
  <1>10. ASSUME NEW p \in PartsOf(d, r.procs)
         PROVE  m[r.procs[p].part] = Given(b.comps[r.procs[p].part]) + Rest(r.procs[p])
    <2>1. p \in PartsOf(d, procNode) /\ p \in Proc
      BY <1>4 DEF PartsOf
    <2>2. PICK n, k, i : n = procNode[p] /\ k = r.procs[p] /\ i = n.part
      OBVIOUS
    <2>3. k.part = i
      BY <2>1, <2>2, PartsSame
    <2>4. i \in 1 .. Len(a.comps)
      BY <1>2, <2>1, <2>2 DEF NodeOK, ProcOK
    <2>5. measured[d][i] = Given(a.comps[i]) + Rest(n)
      BY <1>2, <2>1, <2>2 DEF MeasuredOK, Rest
    <2>6. CASE (\E j \in 1 .. Len(procs) : procs[j] = p) /\ WasSampled(d, b, r.procs, p)
      <3>1. PICK j \in 1 .. Len(procs) : procs[j] = p
        BY <2>6
      <3>2. m[i] = measured[d][i] + (clockNow' - n.since)
        BY <1>1, <2>2, <3>1 DEF MeasuredMore
      <3>3. Given(b.comps[i]) + Rest(k) = Given(a.comps[i]) + Rest(n) + (clockNow' - n.since)
        BY <1>1, <2>2, <2>6 DEF WasSampled, Took
      <3> QED
        BY <2>2, <2>3, <2>5, <3>2, <3>3
    <2>7. CASE /\ \A j \in 1 .. Len(procs) : procNode[procs[j]].part # procNode[p].part
               /\ Untouched(d, b, r.procs, p)
      <3>1. m[i] = measured[d][i]
        BY <1>1, <1>8, <2>2, <2>4, <2>7 DEF MeasuredMore
      <3>2. Given(b.comps[i]) = Given(a.comps[i]) /\ k = n
        BY <1>1, <2>2, <2>7 DEF Untouched, SameComp
      <3> QED
        BY <2>2, <2>3, <2>5, <3>1, <3>2
    <2> QED
      BY <1>1, <2>1, <2>6, <2>7, EachSampled
  <1>11. MeasuredOK(b, r.procs, d, m)
    BY <1>8, <1>9, <1>10 DEF MeasuredOK, Rest
  <1> QED
    <2>1. NodeOK(d, node[d].agg, procNode, clockNow)'
      BY <1>1, <1>7, SMTT(20) DEF NodeOK, ProcOK, PartsOf
    <2>2. MeasuredOK(node[d].agg, procNode, d, measured[d])'
      BY <1>1, <1>11 DEF MeasuredOK, PartsOf
    <2> QED
      BY <2>1, <2>2

(* The processes that are sampled are parts of the node that have started. *)
LEMMA SampledCan ==
    ASSUME DataInv, NEW d \in Daemon, NEW S \in SUBSET Sampled(d), S # {}
    PROVE  /\ Lists(SetToSeq(S), S) /\ CanBeSampled(d, SetToSeq(S)) /\ node[d].exists
           /\ S \subseteq PartsOf(d, procNode) /\ S \subseteq Proc
           /\ Len(SetToSeq(S)) \in Nat /\ 1 \in 1 .. Len(SetToSeq(S))
  <1>1. PICK q : q = SetToSeq(S)
    OBVIOUS
  <1>2. ASSUME NEW p \in S
        PROVE  /\ p \in Proc /\ p \in PartsOf(d, procNode) /\ node[d].exists
               /\ node[d].agg.comps[procNode[p].part].last # NotSet
    <2>1. /\ p \in live /\ Host[p] = d /\ procNode[p].inserted
          /\ isReadyToReceiveSamples(node[d].agg.comps[procNode[p].part])
      BY DEF Sampled, procsOf
    <2>2. p \in Proc
      BY <2>1 DEF DataInv, TypeInv
    <2>3. procNode[p].part # 0 /\ node[d].exists
      BY <2>1, <2>2 DEF DataInv, NodesInv
    <2> QED
      BY <2>1, <2>2, <2>3 DEF PartsOf, isReadyToReceiveSamples
  <1>3. Lists(q, S)
    <2>1. IsFiniteSet(S)
      BY <1>2, CollectionAssumption, FS_Subset
    <2> QED
      BY <1>1, <2>1, SetToSeqIs
  <1>4. Len(q) \in Nat /\ 1 \in 1 .. Len(q)
    <2>1. q \in Seq(S)
      BY <1>3 DEF Lists
    <2>2. Len(q) \in Nat
      BY <2>1
    <2>3. PICK x \in S : TRUE
      OBVIOUS
    <2>4. PICK i \in 1 .. Len(q) : q[i] = x
      BY <1>3, <2>3 DEF Lists
    <2> QED
      BY <2>2, <2>4
  <1>5. CanBeSampled(d, q)
    <2>1. \A i \in 1 .. Len(q) : q[i] \in S
      BY <1>3 DEF Lists
    <2>2. \A i, j \in 1 .. Len(q) : q[i] = q[j] => i = j
      BY <1>3 DEF Lists
    <2> QED
      BY <1>2, <2>1, <2>2 DEF CanBeSampled
  <1> QED
    BY <1>1, <1>2, <1>3, <1>4, <1>5

(* What is measured when the processes in S are sampled.                   *)
LEMMA SampleMeasures ==
    ASSUME DataInv, NEW d \in Daemon, NEW S \in SUBSET Sampled(d), S # {}, Sample(d, S)
    PROVE  /\ measured' \in [Daemon -> Seq(Int)] /\ MeasuredMore(d, SetToSeq(S), measured'[d])
           /\ \A e \in Daemon : e # d => measured'[e] = measured[e]
  <1>1. PICK q : q = SetToSeq(S)
    OBVIOUS
  <1>2. /\ Lists(q, S) /\ CanBeSampled(d, q) /\ node[d].exists
        /\ S \subseteq PartsOf(d, procNode) /\ S \subseteq Proc
    BY <1>1, SampledCan
  <1>3. /\ measured \in [Daemon -> Seq(Int)] /\ clockNow \in Nat
        /\ procNode \in [Proc -> ProcNodeType]
    BY DEF DataInv, TypeInv
  <1>4. clockNow' = clockNow + 1
    BY DEF Sample, ReadClock
  <1>5. PICK n \in Nat : n = Len(measured[d]) /\ DOMAIN measured[d] = 1 .. n
    BY <1>3
  <1> DEFINE chosen(i) == CHOOSE p \in S : procNode[p].part = i
             m == [i \in 1 .. n |->
                     IF \E p \in S : procNode[p].part = i
                     THEN measured[d][i] + clockNow' - procNode[chosen(i)].since
                     ELSE measured[d][i]]
  <1>6. measured' = [measured EXCEPT ![d] = m]
    BY <1>5 DEF Sample
  <1>7. \A i : (\E p \in S : procNode[p].part = i)
                  => chosen(i) \in S /\ procNode[chosen(i)].part = i
    OBVIOUS
  <1>8. /\ \A i \in 1 .. n : (\E p \in S : procNode[p].part = i)
              => m[i] = measured[d][i] + clockNow' - procNode[chosen(i)].since
        /\ \A i \in 1 .. n : ~(\E p \in S : procNode[p].part = i) => m[i] = measured[d][i]
    OBVIOUS
  <1>9. m \in [1 .. n -> Int]
    <2>1. ASSUME NEW i \in 1 .. n
          PROVE  (IF \E p \in S : procNode[p].part = i
                  THEN measured[d][i] + clockNow' - procNode[chosen(i)].since
                  ELSE measured[d][i]) \in Int
      <3>1. measured[d][i] \in Int
        BY <1>3, <1>5
      <3>2. CASE \E p \in S : procNode[p].part = i
        <4>1. chosen(i) \in Proc
          BY <1>2, <1>7, <3>2
        <4> HIDE DEF chosen
        <4>2. procNode[chosen(i)].since \in Int
          BY <1>3, <4>1 DEF ProcNodeType
        <4> QED
          BY <1>3, <1>4, <3>1, <3>2, <4>2
      <3>3. CASE ~(\E p \in S : procNode[p].part = i)
        BY <3>1, <3>3
      <3> QED
        BY <3>2, <3>3
    <2> HIDE DEF chosen
    <2> QED
      BY <2>1
  <1> HIDE DEF m, chosen
  <1>10. m \in Seq(Int) /\ Len(m) = n
    BY <1>9
  <1>11. /\ measured' \in [Daemon -> Seq(Int)] /\ measured'[d] = m
         /\ \A e \in Daemon : e # d => measured'[e] = measured[e]
    BY <1>3, <1>6, <1>10
  <1>12. ASSUME NEW j \in 1 .. Len(q)
         PROVE  m[procNode[q[j]].part] = measured[d][procNode[q[j]].part]
                                         + (clockNow' - procNode[q[j]].since)
    <2>1. PICK p, i : p = q[j] /\ i = procNode[p].part
      OBVIOUS
    <2>2. p \in S
      BY <1>2, <2>1 DEF Lists
    <2>3. p \in PartsOf(d, procNode) /\ p \in Proc
      BY <1>2, <2>2
    <2>4. NodeOK(d, node[d].agg, procNode, clockNow)
      BY <1>2 DEF DataInv, NodesInv
    <2>5. i \in 1 .. n
      <3>1. i \in 1 .. Len(node[d].agg.comps)
        BY <2>1, <2>3, <2>4 DEF NodeOK, ProcOK
      <3>2. Len(measured[d]) = Len(node[d].agg.comps)
        BY <1>2 DEF DataInv, MeasuredInv, MeasuredOK
      <3> QED
        BY <1>5, <3>1, <3>2
    <2>6. chosen(i) = p
      <3>1. chosen(i) \in S /\ procNode[chosen(i)].part = i
        BY <1>7, <2>1, <2>2
      <3>2. chosen(i) \in PartsOf(d, procNode)
        BY <1>2, <3>1
      <3> QED
        BY <2>1, <2>3, <2>4, <3>1, <3>2 DEF NodeOK
    <2>7. m[i] = measured[d][i] + clockNow' - procNode[p].since
      BY <1>8, <2>1, <2>2, <2>5, <2>6
    <2>8. measured[d][i] \in Int /\ clockNow' \in Int /\ procNode[p].since \in Int
      BY <1>3, <1>4, <1>5, <2>3, <2>5 DEF ProcNodeType
    <2> QED
      BY <2>1, <2>7, <2>8
  <1>13. ASSUME NEW i \in 1 .. n, \A j \in 1 .. Len(q) : procNode[q[j]].part # i
         PROVE  m[i] = measured[d][i]
    <2>1. ~(\E p \in S : procNode[p].part = i)
      <3>1. ASSUME NEW p \in S PROVE procNode[p].part # i
        <4>1. PICK j \in 1 .. Len(q) : q[j] = p
          BY <1>2 DEF Lists
        <4> QED
          BY <1>13, <4>1
      <3> QED
        BY <3>1
    <2> QED
      BY <1>8, <2>1
  <1>14. MeasuredMore(d, q, measured'[d])
    BY <1>5, <1>10, <1>11, <1>12, <1>13 DEF MeasuredMore
  <1> QED
    BY <1>1, <1>11, <1>14

(* Processes are sampled.                                                  *)
LEMMA SampleInv ==
    ASSUME DataInv, NEW d \in Daemon, NEW S \in SUBSET Sampled(d), Sample(d, S)
    PROVE  DataInv'
  <1>1. PICK q, r : q = SetToSeq(S) /\ r = SampleAll(d, q)
    OBVIOUS
  <1>2. /\ S # {} /\ clockNow' = clockNow + 1 /\ toDelete' = toDelete
        /\ live' = live /\ waiting' = waiting /\ toDaemon' = toDaemon
        /\ width' = width /\ fe' = fe /\ component' = component /\ asked' = asked
        /\ refused' = refused /\ enabled' = enabled /\ shown' = shown
        /\ node' = [node EXCEPT ![d].agg = r.agg, ![d].sentInitial = @ \/ r.out # <<>>]
        /\ procNode' = r.procs
        /\ Report(d, BatchOf(node[d].sentInitial, r.out))
    <2>1. PICK s \in {SampleAll(d, SetToSeq(S))} :
             /\ node' = [node EXCEPT ![d].agg = s.agg, ![d].sentInitial = @ \/ s.out # <<>>]
             /\ procNode' = s.procs
             /\ Report(d, BatchOf(node[d].sentInitial, s.out))
      BY DEF Sample, BatchOf
    <2>2. s = r
      BY <1>1
    <2>3. /\ S # {} /\ clockNow' = clockNow + 1 /\ toDelete' = toDelete
          /\ live' = live /\ waiting' = waiting /\ toDaemon' = toDaemon
          /\ width' = width /\ fe' = fe /\ component' = component /\ asked' = asked
          /\ refused' = refused /\ enabled' = enabled /\ shown' = shown
      BY DEF Sample, ReadClock, frontEnd
    <2> QED
      BY <2>1, <2>2, <2>3
  <1>3. /\ node \in [Daemon -> NodeType] /\ toFE \in [Daemon -> Seq(MsgType)]
        /\ clockNow \in Nat /\ procNode \in [Proc -> ProcNodeType]
    BY DEF DataInv, TypeInv
  <1>4. clockNow' \in Nat /\ clockNow < clockNow' /\ clockNow <= clockNow'
    BY <1>2, <1>3
  <1>5. /\ CanBeSampled(d, q) /\ node[d].exists /\ Len(q) \in Nat /\ 1 \in 1 .. Len(q)
    BY <1>1, <1>2, SampledCan
  <1>6. SampledTo(d, q, Len(q), r)
    BY <1>1, <1>4, <1>5, SampleMany
  <1>7. /\ r.agg \in AggType /\ r.procs \in [Proc -> ProcNodeType] /\ r.out \in Seq(IntvlType)
        /\ Emits(node[d].agg, r.agg, r.out)
    BY <1>6 DEF SampledTo, SampledType
  <1>8. /\ measured' \in [Daemon -> Seq(Int)] /\ MeasuredMore(d, q, measured'[d])
        /\ \A e \in Daemon : e # d => measured'[e] = measured[e]
    BY <1>1, <1>2, SampleMeasures
  <1>9. /\ node' \in [Daemon -> NodeType] /\ node'[d].exists /\ node'[d].agg = r.agg
        /\ \A e \in Daemon : e # d => node'[e] = node[e]
    <2>1. PICK sent \in BOOLEAN : sent = (node[d].sentInitial \/ r.out # <<>>)
      OBVIOUS
    <2>2. PICK k : k = [node[d] EXCEPT !.agg = r.agg, !.sentInitial = sent]
      OBVIOUS
    <2>3. k \in NodeType /\ k.exists /\ k.agg = r.agg
      BY <1>3, <1>5, <1>7, <2>2 DEF NodeType
    <2>4. node' = [node EXCEPT ![d] = k]
      BY <1>2, <1>3, <2>1, <2>2 DEF NodeType
    <2> QED
      BY <1>3, <2>3, <2>4
  <1>10. PICK ms \in Seq(MsgType) :
            /\ ms = BatchOf(node[d].sentInitial, r.out)
            /\ NoAnswer(ms) /\ ~Ended(ms) /\ EntriesIn(ms) = r.out
    <2>1. node[d].sentInitial \in BOOLEAN
      BY <1>3 DEF NodeType
    <2> QED
      BY <1>7, <2>1, BatchIs
  <1>11. /\ toFE' \in [Daemon -> Seq(MsgType)] /\ toFE'[d] = toFE[d] \o ms
         /\ \A e \in Daemon : e # d => toFE'[e] = toFE[e]
    <2>1. PICK all \in Seq(MsgType) : all = toFE[d] \o ms
      <3>1. toFE[d] \o ms \in Seq(MsgType)
        BY <1>3, KindsBoth
      <3> QED
        BY <3>1
    <2>2. toFE' = [toFE EXCEPT ![d] = all]
      BY <1>2, <1>10, <2>1 DEF Report
    <2> QED
      BY <1>3, <2>1, <2>2
  <1>12. TypeInv'
    <2>1. procNode' \in [Proc -> ProcNodeType]
      BY <1>2, <1>7
    <2> QED
      BY <1>2, <1>4, <1>8, <1>9, <1>11, <2>1 DEF DataInv, TypeInv
  <1>13. OnlyAt(d)
    <2>1. ASSUME NEW p \in Proc, Host[p] # d PROVE procNode'[p] = procNode[p]
      <3>1. \A j \in 1 .. Len(q) : q[j] # p
        BY <1>5, <2>1 DEF CanBeSampled, PartsOf
      <3> QED
        BY <1>2, <1>6, <3>1 DEF SampledTo
    <2> QED
      BY <1>2, <1>4, <1>8, <1>9, <1>11, <2>1 DEF OnlyAt
  <1>14. ProcsThere(d)'
    <2>1. ASSUME NEW p \in Proc, Host[p] = d
          PROVE  /\ procNode'[p].part # 0 => p \in live' /\ node'[d].exists
                 /\ procNode'[p].inserted => procNode'[p].part # 0
      <3>1. procNode'[p].part = procNode[p].part /\ procNode'[p].inserted = procNode[p].inserted
        BY <1>2, <1>5, <1>6, PartsSame
      <3> QED
        BY <1>2, <1>9, <3>1 DEF DataInv, NodesInv
    <2> QED
      BY <2>1 DEF ProcsThere
  <1>15. /\ NodeOK(d, node[d].agg, procNode, clockNow)'
         /\ MeasuredOK(node[d].agg, procNode, d, measured[d])'
    BY <1>2, <1>4, <1>5, <1>6, <1>8, <1>9, SampledNode
  <1>16. Link(d)'
    <2>1. Carries(d, ms)
      <3>1. ASSUME NEW s \in Seq(MsgType), NEW g \in Int, NEW u, Follows(node[d], s, g, u)
            PROVE  Follows(node'[d], s \o ms, g, u)
        <4>1. node[d].agg \in AggType
          BY TypesOf
        <4> QED
          BY <1>5, <1>7, <1>9, <1>10, <3>1, <4>1, FollowsMore
      <3> QED
        BY <3>1 DEF Carries
    <2> QED
      BY <1>2, <1>5, <1>10, <1>11, <2>1, LinkMore
  <1>17. live' \intersect waiting' = {}
    BY <1>2 DEF DataInv, NodesInv
  <1> QED
    BY <1>5, <1>12, <1>13, <1>14, <1>15, <1>16, <1>17, DaemonInv

-----------------------------------------------------------------------------
(* The theorems.                                                           *)

LEMMA InitInv ==
    CollectionInit => CollectionInv
  <1> SUFFICES ASSUME CollectionInit PROVE DataInv
    BY DEF CollectionInv
  <1>1. width \in Nat \ {0}
    BY CollectionAssumption DEF CollectionInit
  <1>2. /\ fe = sampleAggregator(width) /\ component = [d \in Daemon |-> 0]
        /\ asked = {} /\ refused = FALSE /\ enabled = FALSE /\ shown = 0
        /\ node = [d \in Daemon |-> NoNode] /\ procNode = [p \in Proc |-> NoProcNode]
        /\ toDelete = {} /\ live = InitialProcs /\ waiting = Proc \ InitialProcs
        /\ measured = [d \in Daemon |-> <<>>] /\ clockNow = 0
        /\ toDaemon = [d \in Daemon |-> <<>>] /\ toFE = [d \in Daemon |-> <<>>]
    BY DEF CollectionInit
  <1>3. /\ NoNode \in NodeType /\ ~NoNode.exists
        /\ NoProcNode \in ProcNodeType /\ NoProcNode.part = 0 /\ ~NoProcNode.inserted
    BY <1>1, NoNodeIs
  <1>4. /\ fe \in AggType /\ AggOK(fe) /\ fe.width = width /\ fe.lastActualVal = 0 /\ Summed(fe)
    BY <1>1, <1>2, EmptyAgg
  <1>5. TypeInv
    <2>1. PICK none \in Seq(Int) : none = <<>>
      <3>1. <<>> \in Seq(Int)
        OBVIOUS
      <3> QED
        BY <3>1
    <2>2. PICK quiet \in Seq({"enable", "disable"}) : quiet = <<>>
      <3>1. <<>> \in Seq({"enable", "disable"})
        OBVIOUS
      <3> QED
        BY <3>1
    <2>3. PICK silent \in Seq(MsgType) : silent = <<>>
      <3>1. <<>> \in Seq(MsgType)
        OBVIOUS
      <3> QED
        BY <3>1
    <2>4. PICK nought \in Nat : nought = 0
      OBVIOUS
    <2>5. measured \in [Daemon -> Seq(Int)]
      BY <1>2, <2>1
    <2>6. toDaemon \in [Daemon -> Seq({"enable", "disable"})]
      BY <1>2, <2>2
    <2>7. toFE \in [Daemon -> Seq(MsgType)]
      BY <1>2, <2>3
    <2>8. component \in [Daemon -> Nat]
      BY <1>2, <2>4
    <2>9. node \in [Daemon -> NodeType] /\ procNode \in [Proc -> ProcNodeType]
      BY <1>2, <1>3
    <2>10. /\ live \subseteq Proc /\ waiting \subseteq Proc /\ asked \subseteq Daemon
           /\ toDelete \subseteq Daemon
      BY <1>2, CollectionAssumption
    <2>11. refused \in BOOLEAN /\ enabled \in BOOLEAN
      BY <1>2
    <2>12. clockNow \in Nat /\ shown \in Int
      BY <1>2
    <2> QED
      BY <1>1, <1>4, <2>5, <2>6, <2>7, <2>8, <2>9, <2>10, <2>11, <2>12
         DEF TypeInv
  <1>6. FeInv
    BY <1>2, <1>4 DEF FeInv
  <1>7. \A d \in Daemon : ~node[d].exists /\ component[d] = 0 /\ toDaemon[d] = <<>> /\ toFE[d] = <<>>
    BY <1>2, <1>3
  <1>8. NodesInv /\ MeasuredInv
    <2>1. \A p \in Proc : procNode[p].part = 0 /\ ~procNode[p].inserted
      BY <1>2, <1>3
    <2>2. live \intersect waiting = {}
      BY <1>2
    <2> QED
      BY <1>7, <2>1, <2>2 DEF NodesInv, MeasuredInv
  <1>9. LinkInv
    <2>1. \A d \in Daemon : NoAnswer(toFE[d])
      <3>1. NoAnswer(<<>>)
        BY DEF NoAnswer
      <3> QED
        BY <1>7, <3>1
    <2> QED
      BY <1>2, <1>7, <2>1 DEF LinkInv, Link, Idle
  <1>10. EnabledInv
    BY <1>2 DEF EnabledInv
  <1> QED
    BY <1>5, <1>6, <1>8, <1>9, <1>10 DEF DataInv

LEMMA NothingDone ==
    ASSUME DataInv, UNCHANGED collectionVars
    PROVE  DataInv'
  <1>1. /\ UNCHANGED <<width, fe, component, asked, refused, enabled, enables, failed, shown>>
        /\ UNCHANGED <<node, procNode, toDelete, live, waiting, measured>>
        /\ UNCHANGED <<clockNow, toDaemon, toFE>>
    BY DEF collectionVars, frontEnd, daemons
  <1>2. TypeInv'
    BY <1>1 DEF DataInv, TypeInv
  <1>3. FeInv'
    BY <1>1, FeFrame DEF DataInv, FeInv
  <1>4. NodesInv' /\ MeasuredInv'
    BY <1>1, DaemonsFrame DEF daemons
  <1>5. LinkInv'
    <2>1. ASSUME NEW d \in Daemon PROVE Link(d)'
      <3>1. SameLink(d)
        BY <1>1 DEF SameLink, SameButQueue
      <3> QED
        BY <3>1, LinkFrame DEF DataInv, LinkInv
    <2> QED
      BY <2>1 DEF LinkInv
  <1>6. EnabledInv'
    BY <1>1 DEF DataInv, EnabledInv
  <1> QED
    BY <1>2, <1>3, <1>4, <1>5, <1>6 DEF DataInv

(* An assertion that has failed stays so.                                  *)
LEMMA StaysFailed ==
    ASSUME [CollectionNext]_collectionVars, running'
    PROVE  running
  <1>1. CASE failed' = failed
    BY <1>1 DEF running
  <1>2. CASE failed' # failed
    <2>1. CollectionNext
      BY <1>2 DEF collectionVars, frontEnd
    <2>2. CASE Enable \/ Disable
      BY <2>2 DEF Enable, Disable
    <2>3. CASE \E p \in Proc : NewProcess(p, TRUE) \/ NewProcess(p, FALSE) \/ ExitProcess(p)
      BY <1>2, <2>3 DEF NewProcess, ExitProcess, frontEnd
    <2>4. ASSUME NEW d \in Daemon,
                 \/ HandleSuccess(d) \/ HandleFailure(d) \/ setInitialActualValueFE(d)
                 \/ batchSampleDataCallbackFunc(d) \/ HandleEnd(d)
          PROVE  running
      BY <2>4 DEF HandleSuccess, HandleFailure, setInitialActualValueFE,
                  batchSampleDataCallbackFunc, HandleEnd, Received
    <2>5. ASSUME NEW d \in Daemon,
                 \/ HandleEnable(d) \/ HandleDisable(d)
                 \/ \E S \in SUBSET Sampled(d) : Sample(d, S)
          PROVE  FALSE
      BY <1>2, <2>5 DEF HandleEnable, HandleDisable, Sample, frontEnd
    <2> QED
      BY <2>1, <2>2, <2>3, <2>4, <2>5 DEF CollectionNext
  <1> QED
    BY <1>1, <1>2

LEMMA NextInv ==
    CollectionInv /\ [CollectionNext]_collectionVars => CollectionInv'
  <1> SUFFICES ASSUME CollectionInv, [CollectionNext]_collectionVars, running'
               PROVE  DataInv'
    BY DEF CollectionInv
  <1>1. DataInv
    BY StaysFailed DEF CollectionInv
  <1>2. CASE Enable
    BY <1>1, <1>2, EnableInv
  <1>3. CASE Disable
    BY <1>1, <1>3, DisableInv
  <1>4. ASSUME NEW d \in Daemon, HandleSuccess(d) PROVE DataInv'
    BY <1>1, <1>4, HandleSuccessInv
  <1>5. ASSUME NEW d \in Daemon, HandleFailure(d) PROVE DataInv'
    BY <1>1, <1>5, HandleFailureInv
  <1>6. ASSUME NEW d \in Daemon, setInitialActualValueFE(d) PROVE DataInv'
    BY <1>1, <1>6, setInitialInv
  <1>7. ASSUME NEW d \in Daemon, batchSampleDataCallbackFunc(d) PROVE DataInv'
    BY <1>1, <1>7, batchInv
  <1>8. ASSUME NEW d \in Daemon, HandleEnd(d) PROVE DataInv'
    BY <1>1, <1>8, HandleEndInv
  <1>9. ASSUME NEW d \in Daemon, HandleEnable(d) PROVE DataInv'
    BY <1>1, <1>9, HandleEnableInv
  <1>10. ASSUME NEW d \in Daemon, HandleDisable(d) PROVE DataInv'
    BY <1>1, <1>10, HandleDisableInv
  <1>11. ASSUME NEW d \in Daemon, NEW S \in SUBSET Sampled(d), Sample(d, S) PROVE DataInv'
    BY <1>1, <1>11, SampleInv
  <1>12. ASSUME NEW p \in Proc, NEW insertable \in BOOLEAN, NewProcess(p, insertable)
         PROVE  DataInv'
    BY <1>1, <1>12, NewProcessInv
  <1>13. ASSUME NEW p \in Proc, ExitProcess(p) PROVE DataInv'
    BY <1>1, <1>13, ExitProcessInv
  <1>14. CASE UNCHANGED collectionVars
    BY <1>1, <1>14, NothingDone
  <1> QED
    BY <1>2, <1>3, <1>4, <1>5, <1>6, <1>7, <1>8, <1>9, <1>10, <1>11, <1>12, <1>13, <1>14
       DEF CollectionNext

(* What is not yet passed on to a component is of its process, if any.     *)
LEMMA UnsentOfIs ==
    ASSUME DataInv, NEW d \in Daemon, node[d].exists, NEW i \in DOMAIN node[d].agg.comps
    PROVE  measured[d][i] = Given(node[d].agg.comps[i]) + UnsentOf(d, i)
  <1>1. PICK a : a = node[d].agg
    OBVIOUS
  <1>2. a \in AggType /\ i \in 1 .. Len(a.comps) /\ i # 0
    <2>1. a \in AggType
      BY <1>1, TypesOf
    <2>2. DOMAIN a.comps = 1 .. Len(a.comps)
      BY <2>1, CompsOf
    <2> QED
      BY <1>1, <2>1, <2>2
  <1>3. NodeOK(d, a, procNode, clockNow) /\ MeasuredOK(a, procNode, d, measured[d])
    BY <1>1 DEF DataInv, NodesInv, MeasuredInv
  <1>4. PICK S : S = {p \in procsOf(d) : procNode[p].part = i}
    OBVIOUS
  <1>5. \A p : p \in S <=> p \in PartsOf(d, procNode) /\ procNode[p].part = i
    <2>1. \A p \in live : p \in Proc
      BY DEF DataInv, TypeInv
    <2>2. \A p \in Proc : procNode[p].part # 0 => p \in live
      BY DEF DataInv, NodesInv
    <2> QED
      BY <1>2, <1>4, <2>1, <2>2 DEF PartsOf, procsOf
  <1>6. CASE S = {}
    <2>1. UnsentOf(d, i) = 0
      BY <1>4, <1>6 DEF UnsentOf
    <2>2. measured[d][i] = Given(a.comps[i])
      BY <1>2, <1>3, <1>5, <1>6 DEF MeasuredOK
    <2>3. Given(a.comps[i]) \in Int
      BY <1>2, CompsOf, GivenType
    <2> QED
      BY <1>1, <2>1, <2>2, <2>3
  <1>7. CASE S # {}
    <2>1. PICK p : p = (CHOOSE x \in S : TRUE)
      OBVIOUS
    <2>2. p \in S
      BY <1>7, <2>1
    <2>3. UnsentOf(d, i) = Unsent(p)
      BY <1>4, <1>7, <2>1 DEF UnsentOf
    <2>4. p \in PartsOf(d, procNode) /\ procNode[p].part = i
      BY <1>5, <2>2
    <2>5. measured[d][i] = Given(a.comps[i]) + Unsent(p)
      BY <1>3, <2>4 DEF MeasuredOK, Unsent
    <2> QED
      BY <1>1, <2>3, <2>5
  <1> QED
    BY <1>6, <1>7

LEMMA OnlyComponent ==
    ASSUME DataInv, NEW d \in Daemon, component[d] # 0
    PROVE  Component(d)
  BY DEF DataInv, LinkInv, Link, Idle, Requested, Succeeded, Refused

LEMMA InvConserves ==
    CollectionInv => DataConserved
  <1> SUFFICES ASSUME DataInv
               PROVE  /\ \A d \in Daemon : node[d].exists =>
                           \A i \in DOMAIN node[d].agg.comps :
                              measured[d][i] = Given(node[d].agg.comps[i]) + UnsentOf(d, i)
                      /\ \A d \in Daemon : node[d].exists /\ component[d] # 0 =>
                           node[d].agg.lastActualVal
                              = Given(fe.comps[component[d]]) + Values(EntriesIn(toFE[d]))
                      /\ shown = SumOf([i \in DOMAIN fe.comps |-> fe.comps[i].curActualVal])
    BY DEF CollectionInv, DataConserved
  <1>1. ASSUME NEW d \in Daemon, node[d].exists, component[d] # 0
        PROVE  node[d].agg.lastActualVal
                  = Given(fe.comps[component[d]]) + Values(EntriesIn(toFE[d]))
    BY <1>1, OnlyComponent DEF Component, Follows
  <1>2. shown = SumOf([i \in DOMAIN fe.comps |-> fe.comps[i].curActualVal])
    BY DEF DataInv, FeInv, Summed
  <1> QED
    BY <1>1, <1>2, UnsentOfIs

LEMMA AnswerKind ==
    ASSUME DataInv, NEW d \in Daemon, NEW kind \in Answers, NEW pre \in Seq(MsgType),
           NEW rest \in Seq(MsgType), AnswerIn(toFE[d], kind, pre, rest)
    PROVE  kind \in Kinds(d)
  <1>1. PICK m \in MsgType : m = [kind |-> kind] /\ m.kind = kind
    BY AnswerType
  <1>2. PICK one \in Seq(MsgType) : one = <<m>> /\ Len(one) = 1 /\ one[1] = m
    <2>1. <<m>> \in Seq(MsgType)
      OBVIOUS
    <2> QED
      BY <2>1
  <1>3. PICK tail \in Seq(MsgType) : tail = one \o rest
    BY KindsBoth
  <1>4. PICK q \in Seq(MsgType) : q = pre \o tail /\ q = toFE[d]
    <2>1. pre \o tail \in Seq(MsgType)
      BY KindsBoth
    <2> QED
      BY <1>1, <1>2, <1>3, <2>1 DEF AnswerIn
  <1>5. PICK n \in Nat : n = Len(pre)
    OBVIOUS
  <1>6. n + 1 \in DOMAIN q /\ q[n + 1] = m
    <2>1. PICK k \in Nat, l \in Nat : k = Len(rest) /\ l = Len(tail)
      OBVIOUS
    <2>2. /\ Len(tail) = 1 + k
          /\ \A i \in 1 .. 1 + k : tail[i] = IF i <= 1 THEN one[i] ELSE rest[i - 1]
      BY <1>2, <1>3, <2>1, ConcatProperties
    <2>3. tail[1] = m /\ l = 1 + k
      BY <1>2, <2>1, <2>2
    <2>4. /\ Len(q) = n + l
          /\ \A i \in 1 .. n + l : q[i] = IF i <= n THEN pre[i] ELSE tail[i - n]
      <3>1. PICK u \in Seq(MsgType) : u = pre \o tail
        BY <1>4
      <3>2. /\ Len(u) = Len(pre) + Len(tail)
            /\ \A i \in 1 .. Len(pre) + Len(tail) :
                  u[i] = IF i <= Len(pre) THEN pre[i] ELSE tail[i - Len(pre)]
        BY <3>1, ConcatProperties
      <3>3. u = q
        BY <1>4, <3>1
      <3> QED
        BY <1>5, <2>1, <3>2, <3>3
    <2>5. n + 1 \in 1 .. n + l /\ ~(n + 1 <= n) /\ (n + 1) - n = 1
      BY <2>3
    <2>6. q[n + 1] = m
      BY <2>3, <2>4, <2>5
    <2>7. DOMAIN q = 1 .. Len(q)
      OBVIOUS
    <2> QED
      BY <2>4, <2>5, <2>6, <2>7
  <1> QED
    BY <1>1, <1>4, <1>6 DEF Kinds

LEMMA EndKind ==
    ASSUME DataInv, NEW d \in Daemon, Ended(toFE[d])
    PROVE  "end" \in Kinds(d)
  <1>1. PICK q \in Seq(MsgType) : q = toFE[d]
    BY TypesOf
  <1>2. DOMAIN q = 1 .. Len(q)
    OBVIOUS
  <1> QED
    BY <1>1, <1>2 DEF Ended, Kinds

LEMMA InvAgrees ==
    CollectionInv => NodeAndComponentAgree
  <1> SUFFICES ASSUME NEW d \in Daemon, DataInv
               PROVE  LET entries == EntriesIn(toFE[d])
                          upTo == GivenUpTo(fe.comps[component[d]])
                          next == IF entries # <<>> THEN entries[Len(entries)].end ELSE upTo
                      IN  /\ enabled /\ node[d].exists => component[d] # 0
                          /\ node[d].exists /\ d \notin toDelete
                             /\ "disable" \notin ToSet(toDaemon[d])
                                => component[d] # 0 \/ "success" \in Kinds(d)
                          /\ component[d] # 0 =>
                                /\ node[d].exists \/ "end" \in Kinds(d)
                                /\ \A i \in 2 .. Len(entries) :
                                      entries[i].start = entries[i - 1].end
                                /\ entries # <<>> /\ upTo # NotSet => entries[1].start = upTo
                                /\ node[d].exists /\ next # NotSet
                                      => node[d].agg.curIntvlStart = next
    BY DEF CollectionInv, NodeAndComponentAgree
  <1>1. enabled /\ node[d].exists => component[d] # 0
    BY DEF DataInv, EnabledInv
  <1>2. ASSUME node[d].exists, d \notin toDelete, "disable" \notin ToSet(toDaemon[d])
        PROVE  component[d] # 0 \/ "success" \in Kinds(d)
    <2>1. toDaemon[d] # <<"disable">> /\ toDaemon[d] # <<"disable", "enable">>
      <3>1. "disable" \in ToSet(<<"disable">>) /\ "disable" \in ToSet(<<"disable", "enable">>)
        BY DEF ToSet
      <3> QED
        BY <1>2, <3>1
    <2>2. Component(d) \/ Succeeded(d)
      BY <1>2, <2>1 DEF DataInv, LinkInv, Link, Idle, Requested, Refused
    <2>3. CASE Component(d)
      BY <2>3 DEF Component
    <2>4. CASE Succeeded(d)
      <3>1. PICK pre \in Seq(MsgType), rest \in Seq(MsgType) :
               AnswerIn(toFE[d], "success", pre, rest)
        BY <2>4 DEF Succeeded
      <3>2. "success" \in Answers
        BY DEF Answers
      <3> QED
        BY <3>1, <3>2, AnswerKind
    <2> QED
      BY <2>2, <2>3, <2>4
  <1>3. ASSUME component[d] # 0
        PROVE  /\ node[d].exists \/ "end" \in Kinds(d)
               /\ Contiguous(EntriesIn(toFE[d]))
               /\ EntriesIn(toFE[d]) # <<>> /\ GivenUpTo(fe.comps[component[d]]) # NotSet
                     => EntriesIn(toFE[d])[1].start = GivenUpTo(fe.comps[component[d]])
               /\ node[d].exists /\ NextOf(EntriesIn(toFE[d]), GivenUpTo(fe.comps[component[d]])) # NotSet
                     => node[d].agg.curIntvlStart
                          = NextOf(EntriesIn(toFE[d]), GivenUpTo(fe.comps[component[d]]))
    BY <1>3, OnlyComponent, EndKind DEF Component, Follows
  <1> QED
    BY <1>1, <1>2, <1>3 DEF Contiguous, NextOf

(* The invariant of the front end, the daemons and what crosses between    *)
(* them (Component to Refused: the states of the link to a daemon).        *)
THEOREM CollectionInvariant == CollectionSpec => []CollectionInv
  <1>1. CollectionInit => CollectionInv
    BY InitInv
  <1>2. CollectionInv /\ [CollectionNext]_collectionVars => CollectionInv'
    BY NextInv
  <1> QED
    BY <1>1, <1>2, PTL DEF CollectionSpec

(* No data is lost or counted twice on its way from the samples of the     *)
(* processes to the intervals that are shown, for any number of daemons,   *)
(* processes, components and enable requests.                              *)
THEOREM DataIsConserved == CollectionSpec => []DataConserved
  <1>1. CollectionInv => DataConserved
    BY InvConserves
  <1> QED
    BY <1>1, CollectionInvariant, PTL

(* The nodes of the daemons and the components of the front end agree,     *)
(* whatever enable requests, disables, ends and batches cross.             *)
THEOREM NodesAndComponentsAgree == CollectionSpec => []NodeAndComponentAgree
  <1>1. CollectionInv => NodeAndComponentAgree
    BY InvAgrees
  <1> QED
    BY <1>1, CollectionInvariant, PTL
=============================================================================
