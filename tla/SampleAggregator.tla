-------------------------- MODULE SampleAggregator --------------------------
(***************************************************************************)
(* The aggregation of samples (pdutil): a sampleAggregator sums up what    *)
(* its components measure, interval by interval.  A component queues its   *)
(* samples; a sample tells how much was measured since the one before it.  *)
(* The aggregator and its components are records; the operators below map  *)
(* them to what they are after a call.  Of the operators aggSum, aggMin    *)
(* and aggMax the first is modelled, and initial actual values are 0.      *)
(***************************************************************************)
EXTENDS Integers, Sequences, SequencesExt

NotSet == -1   \* a timeStamp that is not initialized

aggComponent == [
    last |-> NotSet,       \* lastProcessedSampleTime, at first the start time
    actualSet |-> FALSE,   \* the initial actual value is set
    curIntvlVal |-> 0, curActualVal |-> 0,
    futureSamples |-> <<>>,
    bIsFinished |-> FALSE ]

sampleAggregator(width) == [
    curIntvlStart |-> NotSet, width |-> width,
    lastActualVal |-> 0, comps |-> <<>> ]

curIntvlEnd(a) == a.curIntvlStart + a.width
isReadyToReceiveSamples(c) == c.last # NotSet /\ c.actualSet

newComponent(a) == [a EXCEPT !.comps = Append(@, aggComponent)]
markAsFinished(a, i) == [a EXCEPT !.comps[i].bIsFinished = TRUE]
setInitialActualValue(a, i) == [a EXCEPT !.comps[i].actualSet = TRUE]
setInitialStartTime(a, i, t) == [a EXCEPT !.comps[i].last = t]
addSamplePt(a, i, sample) ==
    [a EXCEPT !.comps[i].futureSamples = Append(@, sample)]

\* the assertion of setInitialStartTime
MayStart(a, t) == a.curIntvlStart # NotSet => t > a.curIntvlStart

-----------------------------------------------------------------------------
(* aggregate                                                               *)

Earlier(s, t) == IF s < t THEN s ELSE t
Later(s, t) == IF s < t THEN t ELSE s

\* faulty variant: a sample that ends after the interval is not split
processSamplePtWhole(a, c, sample) ==
    [c EXCEPT !.curIntvlVal = @ + sample.value, !.last = Earlier(sample.time, curIntvlEnd(a)),
              !.futureSamples = IF sample.time > curIntvlEnd(a) THEN Append(@, sample) ELSE @]

\* the part of a sample that is of the current interval is added to it, what
\* is left is queued again
processSamplePt(a, c, sample) ==
    LET end == curIntvlEnd(a)
        right == Earlier(sample.time, end)
        left == Later(c.last, a.curIntvlStart)
        now == (sample.value * (right - left)) \div (sample.time - c.last)
        leftOver == [sample EXCEPT !.value = @ - now]
    IN  [c EXCEPT !.curIntvlVal = @ + now, !.last = right,
                  !.futureSamples = IF sample.time > end THEN Append(@, leftOver) ELSE @]

\* the queued samples one after the other, until the interval is complete
updateCurIntvlWithQueuedSamples(a, c) ==
    LET queued == c.futureSamples
        after[i \in 0 .. Len(queued)] ==
            IF i = 0 THEN [c EXCEPT !.futureSamples = <<>>]
            ELSE LET d == after[i - 1]
                 IN  IF d.last >= curIntvlEnd(a)
                     THEN [d EXCEPT !.futureSamples = Append(@, queued[i])]
                     ELSE processSamplePt(a, d, queued[i])
    IN  after[Len(queued)]

allCompsReadyToReceiveSamples(a) ==
    \A i \in DOMAIN a.comps : isReadyToReceiveSamples(a.comps[i])

allCompsCompleteForInterval(a) ==
    \A i \in DOMAIN a.comps :
        a.comps[i].bIsFinished \/ a.comps[i].last >= curIntvlEnd(a)

setupIntvlTimes(a) ==
    IF a.curIntvlStart # NotSet THEN a
    ELSE [a EXCEPT !.curIntvlStart = Min({a.comps[i].last : i \in DOMAIN a.comps})]

updateQueuedSamples(a) ==
    [a EXCEPT !.comps = [i \in DOMAIN a.comps |->
                            updateCurIntvlWithQueuedSamples(a, a.comps[i])]]

SumOf(numbers) ==
    LET sum[i \in 0 .. Len(numbers)] == IF i = 0 THEN 0 ELSE sum[i - 1] + numbers[i]
    IN  sum[Len(numbers)]

ActualVal(c) == c.curActualVal + c.curIntvlVal
ActualVals(a) == SumOf([i \in DOMAIN a.comps |-> ActualVal(a.comps[i])])

actuallyAggregate(a) ==
    [a EXCEPT !.curIntvlStart = curIntvlEnd(a), !.lastActualVal = ActualVals(a),
              !.comps = [i \in DOMAIN a.comps |->
                            [a.comps[i] EXCEPT !.curActualVal = ActualVal(a.comps[i]),
                                               !.curIntvlVal = 0]]]

Interval(a) ==
    [start |-> a.curIntvlStart, end |-> curIntvlEnd(a), value |-> ActualVals(a) - a.lastActualVal]

\* one call: the aggregator after it, and the interval it returned, if any
aggregate(a) ==
    IF a.comps = <<>> \/ ~allCompsReadyToReceiveSamples(a)
    THEN [agg |-> a, out |-> <<>>]
    ELSE LET u == updateQueuedSamples(setupIntvlTimes(a))
         IN  IF allCompsCompleteForInterval(u)
             THEN [agg |-> actuallyAggregate(u), out |-> <<Interval(u)>>]
             ELSE [agg |-> u, out |-> <<>>]

\* calls until one returns nothing, and no more than limit
aggregateAll(a, limit) ==
    LET calls[n \in 0 .. limit] ==
            IF n = 0 THEN [agg |-> a, out |-> <<>>]
            ELSE LET r == calls[n - 1]
                     s == aggregate(r.agg)
                 IN  IF Len(r.out) + 1 = n THEN [agg |-> s.agg, out |-> r.out \o s.out] ELSE r
    IN  calls[limit]

\* the sum of samples or intervals
Values(samples) == SumOf([i \in DOMAIN samples |-> samples[i].value])

\* what a component was given, whether it is aggregated or not
Given(c) == ActualVal(c) + Values(c.futureSamples)

\* up to when it was given samples
GivenUpTo(c) ==
    IF c.futureSamples = <<>> THEN c.last
    ELSE c.futureSamples[Len(c.futureSamples)].time
=============================================================================
