----------------------------- MODULE Collection -----------------------------
(***************************************************************************)
(* The data of one metric instance, from the samples of the processes to   *)
(* the intervals that go into its histograms.  Each daemon has a machine   *)
(* node for the instance, whose aggregator sums up its processes, each of  *)
(* them with an aggregator of its own for its thread.  The node sends its  *)
(* intervals to the front end, whose aggregator sums up the daemons.       *)
(* Enabling, disabling, the end of a program and the samples are messages  *)
(* that cross: a daemon puts a disable off until it is asked to enable     *)
(* something, and goes on sending meanwhile.                               *)
(*                                                                         *)
(* The clocks of the daemons agree and are read at times of their own; a   *)
(* process does one unit of what is measured in each unit of time.  The    *)
(* instance is kept when it is disabled (its data is persistent).          *)
(***************************************************************************)
EXTENDS SampleAggregator, FiniteSets

CONSTANTS
    Daemon,
    Proc,             \* processes
    Host,             \* the daemon of each process
    InitialProcs,     \* those that run at the start, others start later
    Widths,           \* widths of intervals
    MaxReading,       \* bound: readings of the clock
    MaxEnable         \* bound: how often the instance is enabled

ASSUME CollectionAssumption ==
    /\ IsFiniteSet(Daemon) /\ IsFiniteSet(Proc)
    /\ Host \in [Proc -> Daemon]
    /\ InitialProcs \subseteq Proc
    /\ Widths \subseteq Nat \ {0} /\ MaxReading \in Nat /\ MaxEnable \in Nat

VARIABLES
    fe,            \* the aggregator of the metricInstance
    component,     \* for each daemon the number of its aggComponent, or 0
    asked,         \* daemons that have not answered the enable request
    refused,       \* one of them answered that it failed
    enabled,
    enables,       \* how often it was enabled
    failed,        \* an assertion of the front end failed
    node,          \* the machineMetFocusNode of each daemon
    procNode,      \* the processMetFocusNode of each process
    toDelete,      \* daemons with it in metricFocusesRequestedForDelete
    live,          \* processes that run
    waiting,       \* those that did not run yet
    width,         \* of the intervals of all aggregators
    clockNow,
    toDaemon, toFE,  \* messages under way
    measured,      \* history: sampled for each component of a daemon's node
    shown          \* history: the values of all intervals of the front end

frontEnd == <<width, fe, component, asked, refused, enabled, enables, failed, shown>>
daemons == <<node, procNode, toDelete, live, waiting, measured>>
collectionVars == <<frontEnd, daemons, clockNow, toDaemon, toFE>>

NoNode == [exists |-> FALSE, agg |-> sampleAggregator(width), sentInitial |-> FALSE]
\* part: the number of its aggComponent in the node of its daemon, or 0
NoProcNode == [part |-> 0, inserted |-> FALSE, agg |-> sampleAggregator(width), since |-> 0]

running == failed = "no"
currently_enabling == asked # {}
components == {d \in Daemon : component[d] # 0}

\* messages to and from daemons
Tell(D, m) == toDaemon' = [d \in Daemon |-> IF d \in D THEN Append(toDaemon[d], m)
                                            ELSE toDaemon[d]]
Report(d, ms) == toFE' = [toFE EXCEPT ![d] = @ \o ms]
Received(d, kind) ==
    /\ running /\ toFE[d] # <<>> /\ Head(toFE[d]).kind = kind
    /\ toFE' = [toFE EXCEPT ![d] = Tail(@)]
HandledBy(d, m) ==
    /\ toDaemon[d] # <<>> /\ Head(toDaemon[d]) = m
    /\ toDaemon' = [toDaemon EXCEPT ![d] = Tail(@)]

-----------------------------------------------------------------------------
(* The front end.                                                          *)

\* a pair that is neither enabled nor being enabled is asked for; when only
\* some daemons refused, the components of the others stand, and asking again
\* is left to MetricFocusReq (AddedComponentIsNew)
Enable ==
    /\ running /\ ~enabled /\ ~currently_enabling /\ enables < MaxEnable
    /\ components = {}
    /\ enables' = enables + 1
    /\ asked' = Daemon /\ refused' = FALSE
    /\ Tell(Daemon, "enable")
    /\ UNCHANGED <<width, fe, component, enabled, failed, shown, daemons,
                   clockNow, toFE>>

Answered(d, ok) ==
    /\ asked' = asked \ {d}
    /\ refused' = (refused \/ ~ok)
    /\ enabled' = (asked' = {} /\ ~refused')

\* the component of a daemon is added when it succeeds
HandleSuccess(d) ==
    /\ Received(d, "success")
    /\ Answered(d, TRUE)
    /\ fe' = newComponent(fe)
    /\ component' = [component EXCEPT ![d] = Len(fe'.comps)]
    /\ UNCHANGED <<width, enables, failed, shown, daemons, clockNow, toDaemon>>

HandleFailure(d) ==
    /\ Received(d, "failure")
    /\ Answered(d, FALSE)
    /\ UNCHANGED <<width, fe, component, enables, failed, shown, daemons,
                   clockNow, toDaemon>>

setInitialActualValueFE(d) ==
    /\ Received(d, "initial")
    /\ IF component[d] = 0 \/ fe.comps[component[d]].actualSet
       THEN failed' = "setInitialActualValue" /\ UNCHANGED fe
       ELSE fe' = setInitialActualValue(fe, component[d]) /\ UNCHANGED failed
    /\ UNCHANGED <<width, component, asked, refused, enabled, enables, shown,
                   daemons, clockNow, toDaemon>>

\* updateComponent and doAggregation for one entry of a batch
\* (nothing is done any more once an assertion has failed)
AddEntry(r, i, entry) ==
    LET first == r.agg.comps[i].last = NotSet
        started == IF first THEN setInitialStartTime(r.agg, i, entry.start) ELSE r.agg
        added == addSamplePt(started, i, [time |-> entry.end, value |-> entry.value])
        done == IF currently_enabling THEN [agg |-> added, out |-> <<>>]
                ELSE aggregateAll(added, MaxReading)
    IN  IF ~r.ok \/ (first /\ ~MayStart(r.agg, entry.start)) THEN [r EXCEPT !.ok = FALSE]
        ELSE [r EXCEPT !.agg = done.agg, !.out = @ \o done.out]

\* the entries of a batch for component i
AddEntries(a, i, entries) ==
    LET added[n \in 0 .. Len(entries)] ==
            IF n = 0 THEN [agg |-> a, out |-> <<>>, ok |-> TRUE]
            ELSE AddEntry(added[n - 1], i, entries[n])
    IN  added[Len(entries)]

batchSampleDataCallbackFunc(d) ==
    /\ Received(d, "batch")
    /\ IF component[d] = 0
       THEN UNCHANGED <<fe, failed, shown>>
       ELSE \E r \in {AddEntries(fe, component[d], Head(toFE[d]).entries)} :
               /\ fe' = r.agg
               /\ shown' = shown + Values(r.out)
               /\ failed' = IF r.ok THEN failed ELSE "setInitialStartTime"
    /\ UNCHANGED <<width, component, asked, refused, enabled, enables, daemons,
                   clockNow, toDaemon>>

\* the components of D go; with the last one what is aggregated is flushed
aggregatorWithout(D) ==
    LET marked == [fe EXCEPT !.comps = [i \in DOMAIN fe.comps |->
                      [fe.comps[i] EXCEPT !.bIsFinished = @ \/ \E d \in D : component[d] = i]]]
    IN  IF D # {} /\ D = components THEN aggregate(marked)
        ELSE [agg |-> marked, out |-> <<>>]

removeComponents(D) ==
    /\ \E r \in {aggregatorWithout(D)} :
          fe' = r.agg /\ shown' = shown + Values(r.out)
    /\ component' = [d \in Daemon |-> IF d \in D THEN 0 ELSE component[d]]
    /\ Tell(D, "disable")

Disable ==
    /\ running /\ enabled
    /\ enabled' = FALSE
    /\ removeComponents(components)
    /\ UNCHANGED <<width, asked, refused, enables, failed, daemons, clockNow, toFE>>

\* endOfDataCollection: the programs of daemon d have exited
HandleEnd(d) ==
    /\ Received(d, "end")
    /\ removeComponents({d} \intersect components)
    /\ UNCHANGED <<width, asked, refused, enabled, enables, failed, daemons, clockNow>>

-----------------------------------------------------------------------------
(* The daemons.                                                            *)

procsOf(d) == {p \in live : Host[p] = d}
\* a reading is later than the one before, unless that was of another daemon
ReadClock == clockNow < MaxReading /\ clockNow' = clockNow + 1

\* what deleting a machine node sends: the batch buffer is empty
EndOfDataCollection(n) == IF n.exists THEN <<[kind |-> "end"]>> ELSE <<>>

deleteNode(d) ==
    /\ node' = [node EXCEPT ![d] = NoNode]
    /\ procNode' = [p \in Proc |-> IF Host[p] = d THEN NoProcNode ELSE procNode[p]]

\* a component that starts now
startedComponent == [aggComponent EXCEPT !.last = clockNow', !.actualSet = TRUE]
addStarted(a) == [a EXCEPT !.comps = Append(@, startedComponent)]

\* the processMetFocusNode for process p, numbered i: it starts now
Started(i) == [part |-> i, inserted |-> TRUE, agg |-> addStarted(sampleAggregator(width)),
               since |-> clockNow']

\* what a process has measured since its last whole interval
Unsent(p) ==
    LET a == procNode[p].agg
    IN  SumOf([i \in DOMAIN a.comps |-> Given(a.comps[i])]) - a.lastActualVal

\* disableDataCollection
HandleDisable(d) ==
    /\ HandledBy(d, "disable")
    /\ toDelete' = toDelete \union {d}
    /\ UNCHANGED <<frontEnd, node, procNode, live, waiting, measured, clockNow, toFE>>

\* faulty variant: what was put off is done after the answer
AnswerFirst(gone, kind) == <<[kind |-> kind]>> \o gone

\* what enableDataCollection sends: the ends of nodes that are deleted first
EnableAnswer(gone, kind) == gone \o <<[kind |-> kind]>>

\* enableDataCollection: first processInstrDeletionRequests, and then
\* startCollecting
HandleEnable(d) ==
    /\ HandledBy(d, "enable")
    /\ clockNow' = clockNow
    /\ toDelete' = toDelete \ {d}
    /\ LET deleted == d \in toDelete /\ node[d].exists
           gone == IF deleted THEN EndOfDataCollection(node[d]) ELSE <<>>
           procs == SetToSeq(procsOf(d))
       IN  IF procs = <<>>
           THEN /\ IF deleted THEN deleteNode(d) ELSE UNCHANGED <<node, procNode>>
                /\ Report(d, EnableAnswer(gone, "failure"))
                /\ UNCHANGED measured
           ELSE /\ node' = [node EXCEPT ![d] =
                      [NoNode EXCEPT !.exists = TRUE,
                                     !.agg.comps = [i \in DOMAIN procs |-> startedComponent]]]
                /\ procNode' = [p \in Proc |->
                      IF p \in procsOf(d) THEN Started(CHOOSE i \in DOMAIN procs : procs[i] = p)
                      ELSE procNode[p]]
                /\ Report(d, EnableAnswer(gone, "success"))
                /\ measured' = [measured EXCEPT ![d] = [i \in DOMAIN procs |-> 0]]
    /\ UNCHANGED <<frontEnd, live, waiting>>

\* a process starts, and its instrumentation can be inserted or not:
\* propagateToNewProcess
NewProcess(p, insertable) ==
    LET d == Host[p]
        i == Len(node[d].agg.comps) + 1
        instrInserted == \A q \in procsOf(d) : procNode[q].part # 0 => procNode[q].inserted
        started == insertable /\ instrInserted
    IN  /\ p \in waiting
        /\ ReadClock
        /\ waiting' = waiting \ {p}
        /\ live' = live \union {p}
        /\ IF ~node[d].exists THEN UNCHANGED <<node, procNode, measured>>
           ELSE /\ node' = [node EXCEPT ![d].agg =
                      IF started THEN addStarted(@) ELSE newComponent(@)]
                /\ procNode' = [procNode EXCEPT ![p] =
                      IF started THEN Started(i)
                      ELSE [NoProcNode EXCEPT !.part = i, !.inserted = insertable]]
                /\ measured' = [measured EXCEPT ![d] = Append(@, 0)]
        /\ UNCHANGED <<frontEnd, toDelete, toDaemon, toFE>>

\* adjustForExitedProcess with deleteProcNode: what is in the aggregator of the
\* process is not passed on
ExitProcess(p) ==
    LET d == Host[p]
        n == procNode[p]
    IN  /\ p \in live
        /\ live' = live \ {p}
        /\ IF n.part = 0
           THEN UNCHANGED <<node, procNode, measured, toFE>>
           ELSE IF \A q \in procsOf(d) \ {p} : procNode[q].part = 0
           THEN /\ deleteNode(d)
                /\ Report(d, EndOfDataCollection(node[d]))
                /\ UNCHANGED measured
           ELSE /\ node' = [node EXCEPT ![d].agg =
                               IF n.inserted THEN markAsFinished(@, n.part) ELSE @]
                /\ procNode' = [procNode EXCEPT ![p] = NoProcNode]
                /\ measured' = [measured EXCEPT ![d][n.part] = @ - Unsent(p)]
                /\ UNCHANGED toFE
        /\ UNCHANGED <<frontEnd, toDelete, waiting, clockNow, toDaemon>>

\* the processes that can be sampled
Sampled(d) ==
    {p \in procsOf(d) : /\ procNode[p].inserted
                        /\ isReadyToReceiveSamples(node[d].agg.comps[procNode[p].part])}

\* an interval of process p is added to its component of the node
Pass(r, p, intvl) ==
    LET given == addSamplePt(r.agg, procNode[p].part, [time |-> intvl.end, value |-> intvl.value])
        all == aggregateAll(given, MaxReading)
    IN  [r EXCEPT !.agg = all.agg, !.out = @ \o all.out]

\* a sample of process p is added to its thread's component, and then each
\* interval of the process to the node
updateValue(r, p) ==
    LET n == procNode[p]
        sample == [time |-> clockNow', value |-> clockNow' - n.since]
        own == aggregateAll(addSamplePt(n.agg, 1, sample), MaxReading)
        passed[i \in 0 .. Len(own.out)] ==
            IF i = 0 THEN [r EXCEPT !.procs[p].agg = own.agg, !.procs[p].since = clockNow']
            ELSE Pass(passed[i - 1], p, own.out[i])
    IN  passed[Len(own.out)]

\* the processes of a sequence are sampled
SampleAll(d, procs) ==
    LET sampled[i \in 0 .. Len(procs)] ==
            IF i = 0 THEN [agg |-> node[d].agg, procs |-> procNode, out |-> <<>>]
            ELSE updateValue(sampled[i - 1], procs[i])
    IN  sampled[Len(procs)]

\* checkAndDoShmSampling: the processes of S are sampled, for the others the
\* reading was not consistent; then the batch buffer is flushed
Sample(d, S) ==
    /\ S # {} /\ S \subseteq Sampled(d)
    /\ ReadClock
    /\ \E r \in {SampleAll(d, SetToSeq(S))} :
          /\ node' = [node EXCEPT ![d].agg = r.agg, ![d].sentInitial = @ \/ r.out # <<>>]
          /\ procNode' = r.procs
          /\ Report(d, IF r.out = <<>> THEN <<>>
                       ELSE (IF node[d].sentInitial THEN <<>> ELSE <<[kind |-> "initial"]>>)
                            \o <<[kind |-> "batch", entries |-> r.out]>>)
    /\ measured' = [measured EXCEPT ![d] = [i \in DOMAIN @ |->
          IF \E p \in S : procNode[p].part = i
          THEN @[i] + clockNow' - procNode[CHOOSE p \in S : procNode[p].part = i].since
          ELSE @[i]]]
    /\ UNCHANGED <<frontEnd, toDelete, live, waiting, toDaemon>>

-----------------------------------------------------------------------------
CollectionInit ==
    /\ width \in Widths
    /\ fe = sampleAggregator(width)
    /\ component = [d \in Daemon |-> 0]
    /\ asked = {} /\ refused = FALSE /\ enabled = FALSE
    /\ enables = 0 /\ failed = "no" /\ shown = 0
    /\ node = [d \in Daemon |-> NoNode]
    /\ procNode = [p \in Proc |-> NoProcNode]
    /\ toDelete = {} /\ live = InitialProcs /\ waiting = Proc \ InitialProcs
    /\ measured = [d \in Daemon |-> <<>>]
    /\ clockNow = 0
    /\ toDaemon = [d \in Daemon |-> <<>>]
    /\ toFE = [d \in Daemon |-> <<>>]

CollectionNext ==
    \/ Enable \/ Disable
    \/ \E d \in Daemon :
          \/ HandleSuccess(d) \/ HandleFailure(d) \/ setInitialActualValueFE(d)
          \/ batchSampleDataCallbackFunc(d) \/ HandleEnd(d)
          \/ HandleEnable(d) \/ HandleDisable(d)
          \/ \E S \in SUBSET Sampled(d) : Sample(d, S)
    \/ \E p \in Proc : NewProcess(p, TRUE) \/ NewProcess(p, FALSE) \/ ExitProcess(p)

CollectionSpec == CollectionInit /\ [][CollectionNext]_collectionVars

-----------------------------------------------------------------------------
(* Properties.                                                             *)

\* the intervals in a sequence of messages
EntriesIn(q) ==
    LET entries[i \in 0 .. Len(q)] ==
            IF i = 0 THEN <<>>
            ELSE IF q[i].kind = "batch" THEN entries[i - 1] \o q[i].entries ELSE entries[i - 1]
    IN  entries[Len(q)]

\* what is measured by a process and not yet passed on to component i
UnsentOf(d, i) ==
    LET procs == {p \in procsOf(d) : procNode[p].part = i}
    IN  IF procs = {} THEN 0 ELSE Unsent(CHOOSE p \in procs : TRUE)

(* No data is lost or counted twice on its way, but for the last incomplete  *)
(* interval of a process that exits: what the samples of a process measured  *)
(* is in its aggregator or its component of the node; the intervals of a     *)
(* node were given to its component of the front end or are under way; and   *)
(* those of the front end add up to what its components were given and have  *)
(* aggregated, also those of daemons that have gone                          *)
(* (processSamplePt, actuallyAggregate, removeComponent, deleteProcNode).    *)
DataConserved ==
    running =>
        /\ \A d \in Daemon : node[d].exists =>
              \A i \in DOMAIN node[d].agg.comps :
                  measured[d][i] = Given(node[d].agg.comps[i]) + UnsentOf(d, i)
        /\ \A d \in Daemon : node[d].exists /\ component[d] # 0 =>
              node[d].agg.lastActualVal
                  = Given(fe.comps[component[d]]) + Values(EntriesIn(toFE[d]))
        /\ shown = SumOf([i \in DOMAIN fe.comps |-> fe.comps[i].curActualVal])

Kinds(d) == {toFE[d][i].kind : i \in DOMAIN toFE[d]}

(* The daemons and the front end agree, whatever crosses: while an instance *)
(* is enabled each node has a component; a node that is not to be deleted   *)
(* has one unless the answer is under way, a component has a node unless    *)
(* its end is; and the intervals on the way are the next of the component,  *)
(* without a gap or an overlap up to where its node goes on, and none of    *)
(* the node that was there before (enableDataCollection,                    *)
(* processInstrDeletionRequests, endOfDataCollection, batchSampleData).     *)
NodeAndComponentAgree ==
    \A d \in Daemon : running =>
        LET entries == EntriesIn(toFE[d])
            upTo == GivenUpTo(fe.comps[component[d]])
            next == IF entries # <<>> THEN entries[Len(entries)].end ELSE upTo
        IN  /\ enabled /\ node[d].exists => component[d] # 0
            /\ node[d].exists /\ d \notin toDelete /\ "disable" \notin ToSet(toDaemon[d])
                  => component[d] # 0 \/ "success" \in Kinds(d)
            /\ component[d] # 0 =>
                  /\ node[d].exists \/ "end" \in Kinds(d)
                  /\ \A i \in 2 .. Len(entries) : entries[i].start = entries[i - 1].end
                  /\ entries # <<>> /\ upTo # NotSet => entries[1].start = upTo
                  /\ node[d].exists /\ next # NotSet => node[d].agg.curIntvlStart = next

(* A component that has finished does not hold up aggregation, as the       *)
(* comment of aggComponent::markAsFinished says: when those that have not   *)
(* are ready for samples, none that has keeps the aggregator from going on. *)
FinishedHoldsNothingUp ==
    \A a \in {fe} \union {node[d].agg : d \in Daemon} :
        LET open == {i \in DOMAIN a.comps : ~a.comps[i].bIsFinished}
        IN  open # {} /\ (\A i \in open : isReadyToReceiveSamples(a.comps[i]))
                => allCompsReadyToReceiveSamples(a)
=============================================================================
