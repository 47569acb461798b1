# A verification development for Paradyn

TLA+ specifications of Paradyn's own logic, the TLC instances that check them
and proofs that TLAPS checks. File names below are relative to the repository
root; `DM` stands for `paradyn/src/DMthread`.

## 1. Inventory

Paradyn measures parallel programs while they run. A front end process
(`paradyn/`) holds one thread per part: data manager, Performance Consultant,
user interface, one thread per visi, tunable constants. Its threads exchange
messages through `pdthread`. It talks to one daemon (`paradynd/`) per machine
through generated stubs (`igen/`) over MRNet; a daemon inserts and removes
instrumentation in application processes, whose run-time library (`rtinst/`)
writes counters and timers into shared memory (`sharedMem/`). Visualisation
programs (`visiClients/`) link `visi/` and talk to a visi thread.

| component | state | operations | hard behaviour | what makes it correct |
| --- | --- | --- | --- | --- |
| Data manager, enable protocol (`DM/DMmetricFocusReq*.C`) | bundles of requests, shared values with one state per daemon, parent lists | request, piggyback, answers, deferred answers, propagation to new programs, cancellation at a phase start | answers in any order, sharing, late answers, deletion under references | one correct final answer per pair and request, no use of deleted objects, nobody waits for ever |
| Data manager, metric instances (`DM/DMmetric.C`, `DMpublic.C`) | users, histograms, persistence flags, components | add and remove users, disable, clear persistent data, archive at a phase start | long legal sequences, counters of histograms, archived data | collection runs while it has a user, counters match, no histogram is lost |
| Data manager, phases (`DM/DMphase.C`) | list of phases, current phase | start phase | cancels and disables in the middle of requests | phases do not overlap, requests of a dead phase end |
| Data manager, daemons (`DM/DMdaemon.C`) | daemons, programs, sample aggregators | attach, new program, exit, sample delivery | a daemon joins late or dies, samples of a value no longer known | samples are aggregated from all components |
| Performance Consultant (`paradyn/src/PCthread`) | filters, experiments, the search history graph | enable data, new sample, refine, prune | answers after the experiment ended, cost limit | each node concludes once, cost stays below the limit |
| Visi threads (`paradyn/src/VISIthread`, `VMthread`) | pending enable requests, phase, remote visi | enable request, callback, phase start, exit | callbacks out of order with user actions | a request leaves the list on its last packet |
| Daemon (`paradynd/src`) | metric-focus nodes, variables, shared memory slots, deferred list | enable, disable, deferred instrumentation, sample, exec, exit | deferral while a process runs, propagation to new threads | one answer per pair, no slot used twice |
| `pdthread` | thread table, mailboxes, wait set, bounded lists, locks | send, receive, poll, bind, unbind, join | lost wake-ups, stale descriptors, full queues | no lost message, exclusion, progress |
| `pdutil` | histograms, sample aggregators, priority queue, MDL | add interval, fold, aggregate | intervals that straddle bins and folds | total value is preserved |
| `TCthread`, `UIthread`, `pdMain`, `met`, `igen`, `rtinst`, `sharedMem`, `visi`, `visiClients`, `autoparadyn` | | | drawing, configuration, generated code, counters | see section 8 |

`PROJECT.json` lists them with their sources and, under `hazards`, what is hard
to test in this code, each at its line.

## 2. Plan

| order | module | what | proofs |
| --- | --- | --- | --- |
| 1, done | `EnableService`, `MetricFocusReq` | the service promised to clients and the enable protocol that implements it | types, every safety and action property but `AddedComponentIsNew`, the refinement |
| 2, done | `MetricInstances` | users, histograms, persistence flags, phases, and visis and searches as clients | all its properties |
| 2, done | `LockService`, `RWLock` | `pdthread/src/rwlock.C` and the lock it implements | all safety properties and the safety part of the refinement |
| 2, done | `Mailbox` | lists, wake-up pipe, wait set, bind and unbind | all safety properties |
| 2, done | `DataPath` | composes the histograms of `pdutil`, a performance stream, a visi thread and the data grid of a visi | types, all safety properties but `CellsComplete` |
| 2, done | `SampleAggregator`, `Collection` | the aggregators of `pdutil`; the data of one instance in the daemons and the data manager, which are composed of them | all safety properties |
| 2, done | `SharedTimer` | a timer in shared memory, written by `rtinst` and read by `paradynd` | all its properties |
| later | `PCSearch`, `VariableManager` | the search, the daemon's slots | |

`MetricInstances` takes the decision of a value as one action, which
`MetricFocusReq` details: `Answer` is its last daemon's answer. `Collection` is about one
instance and its components, which `MetricFocusReq` adds and `MetricInstances` keeps;
the intervals it ends with are those `DataPath` begins with. `DataPath` takes
up where an instance is enabled: `Open` and `Close` are what `Ready` and
`Disable` of `MetricInstances` do to the global histogram. They are separate
modules because their product has no interesting interleavings of its own (a
value's state and an instance's histograms meet in `Ready` only) and no checkable
instance.

## 3. The enable protocol: `MetricFocusReq`

A client asks for metric-focus pairs. The data manager builds a
`metricFocusReqBundle` with one `metricFocusReq` per pair; requests for the same
pair share one `metricFocusReq_Val`, which knows every daemon's answer and their
merge. Daemons answer each message once, and again when a deferred pair is
decided. A value's change is sent to the clients of all its bundles.

A pair is identified with its metric instance, `m \in MI`; a metric instance
that was deleted gets a new handle when it is asked for again, so a deleted one
is not asked for again in the model.

| variable | in the code |
| --- | --- |
| `val[m]` | the `metricFocusReq_Val` of `m`: `num` = `num_daemons`, `st` = `dmn_state_buf`, `overall` = `cur_overall_state`, `sent` = `request_sent_to_daemon`, `reported` = `have_reported_state`, `parents` and `first` = the parent list and its first bundle. `asked` is a history variable: the daemons the pair was sent to |
| `bundle`, `req`, `requestedOn` | `all_mfReq_bundles`, what each bundle was made for, `daemons_requested_on` |
| `freed[r]` | pairs of bundle `r` whose value was deleted while the bundle refers to it |
| `mi`, `comps` | metric instances (idle, enabled, deleted) and their components, by daemon |
| `pending`, `deferrals` | the enable messages a daemon has still to answer, in order, each with the disables it finds noted; answers it holds with a deferred pair |
| `disabled[d]` | the disables sent to daemon `d` since its last enable message, its `metricFocusesRequestedForDelete` when the next one comes |
| `nodes[d]` | its `machineMetFocusNode::allMachNodes`, as far as the data manager has heard of them |
| `told`, `last` | what a client has heard of each pair; whether a packet was flagged as the last |
| `open`, `allDaemons`, `phase`, `programs` | open performance streams, attached daemons, the current phase, new programs so far |
| `fault` | a freed value or a deleted bundle was used, or an assertion failed; nothing happens after that |

| action | handler |
| --- | --- |
| `EnableDataRequest` | `enableDataRequest`, `enableDataRequest2`, `DMdoEnableData`, the bundle's constructor, `createMetricFocusReq`, `addParent`, `enableWithDaemons` |
| `RejectStaleRequest`, `DropStaleRequest` | the early returns of the two entry points for a phase that is over |
| `EndOfDataCollection` | a daemon's `processInstrDeletionRequests`, one node of it, and the data manager's `endOfDataCollection` for the destructor's upcall |
| `EnableDataCallback` | a daemon's `enableDataCollection` after that, and the data manager's `enableDataCallback` for its answer |
| `EnableDataCollection2` | what is left of a synchronous `enableDataCollection2` after that, its nodes |
| `DeferredCallback` | a daemon's `doDeferredInstrumentation` and the data manager's callback |
| `AddDaemon`, `NewProgram` | a daemon's constructor; `addRunningProgram` with `propagateMetrics`, `attachToOutstandingRequest`, `propagateToDaemon` |
| `StartPhase` | `phaseInfo::startPhase` with `stopAllCurrentDataCollection` and `cancelOutstandingMetricFocusesInCurrentPhase`, which disables a cancelled pair on every daemon (`CancelDisables`) |
| `DisableDataCollection`, `ClearPersistentData` | `DMdisableRoutine`, `clearPersistentData` |
| `DestroyPerformanceStream` | `destroyPerformanceStream` |

The handlers run in one thread to completion, so each is one step. Messages of
one daemon are answered in order (one MRNet stream of requests and a
single-threaded daemon); different daemons interleave freely. A daemon's answer
and the data manager's handling of it are one step: an answer in transit differs
in nothing from one not yet given, except that deferred answers of the same
daemon could overtake only their own repetition, which is ordered.

A daemon does not carry out a disable when it comes. It notes it, and deletes the
noted nodes when the next enable message comes, before it makes new ones; the upcalls
of their destructors reach the data manager before the answer, and the component of
the daemon goes with the first. So a pair that was cancelled when it was half answered
loses its old components before the answers to a second request can add new ones
(`AddedComponentIsNew`). A disable that was sent after an enable message is not found
by it, hence the `disables` of a message are those of the time it was sent. The destructor of a
component sends a disable too (`DisableComponents`), also when the daemon itself said
that its node is gone.

Abstractions. Hash tables are iterated in an unspecified order: where the code
stops at the first incomplete pair (`isBundleComplete`), a bundle with a freed
value may or must read it, and the model takes both (`MayReadFreed`,
`MustReadFreed`). The synchronous `enableDataCollection2`, for instances that are enabled
when a program starts, succeeds or fails for each of them at will. The data manager
waits for its result but handles the upcalls that came before it only afterwards, so
`NewProgram` takes the result at once and leaves a message, of no request, for the rest. A
failed answer that deletes the node of an earlier request for the same pair
(`DeferredCallback`, and the second ask of disagreement 4) is one step with the
upcall that precedes it. Which
enabled instances a phase start stops, and which are kept, depends on users and
persistence flags, which `MetricInstances` models; here any set of enabled
instances may be stopped and any of those kept.

Left out here: the end of data collection that a daemon reports when its processes exit
(`Collection` has it); that the destructor of a node deletes the answer object which other
deferred pairs of the same message share; a focus that matches no daemon (`FocusMatched`), a daemon that
disconnects (one that stays silent is a daemon outside `Reliable`), the
performance and trace streams of one client as two (they are one client), and
error texts.

`EnableService` is what clients may rely on: each pair is open, perhaps
deferred, then decided; each listening request hears each move in the step that
makes it; a late request hears the decision at once; a request is closed only
when its pairs are decided; a phase start fails the undecided pairs of the
current phase's requests. `ImplementsService` is the refinement, checked by TLC and
proved.

## 4. Metric instances, pdthread and the path of the data

### `MetricInstances`

A `metricInstance` per metric-focus pair lives while it has users or data to
keep. `MetricInstances` models what `DMdoEnableData`, `DMdisableRoutine`,
`readyMetricInstanceForSampling`, `stopAllCurrentDataCollection`,
`clearPersistentData` and `startPhase` do to it, and the two kinds of clients
that call them: visi threads and the searches of the Performance Consultant.

| variable | in the code |
| --- | --- |
| `inst[id]` | the instance with handle `id`: `enabled`, `users` and `gusers` (users of the current and the global phase), `data` and `gdata` (its histograms), `old` (archived ones), `pdata` and `phasepd` (`persistent_data`, `phase_persistent_data`) |
| `val`, `parents` | the state of its value, the requests that wait for it, in order |
| `numCurr`, `numGlobal`, `rate` | `num_curr_hists`, `num_global_hists`; the bucket width daemons were last told to sample at |
| `phase`, `cphase[c]`, `ended` | the current phase, the phase client `c` believes in, and the searches of the current phase that a notice of another phase has ended |
| `pend[c]`, `hold[c]`, `again[c]`, `life[c]`, `inbox[c]` | the pairs a client waits for, the handles it uses, a handle to be disabled a second time, whether it exits, the upcalls on their way to it |
| `failed`, `crossed` | an assertion failed; history: pairs whose request crossed a disable, a cancellation or a phase change |

`Enable`, `Answer`, `StartPhase`, `CancelSubRequest`, `InActivateFilter`,
`StopMetricResource`, `Quit`, `DisableOnExit` and `DestroyPerformanceStream` are
named for their handlers; `ReceiveVisi`, `ReceivePC` and `HearOfPhase` handle the
upcalls `enableDataCallback` and `phase`, `Begin` starts a search or a visi of the
current phase. A search drops replies of a phase it is not of (`Wanted`). A call to the data manager blocks the caller, so a call and the
data manager's work are one step; upcalls wait in `inbox`, in order.

`HeldIsCollected`, `NoOrphan`, `CountsFit`, `RateFits` and `DataKept` are the
properties. `HeldIsCollected` and `NoOrphan` leave out pairs in `crossed`: when a
client gives up a pair and asks for it again before the first answer, or a request
of an ended phase is readied in the next, the code mixes up the two requests, as
nothing in an upcall names the request it answers to the client's filter.
Not modelled: `persistent_collection`, which every caller passes as 0.

### `Mailbox` and `RWLock`

`Mailbox` is `thr_mailbox` with the two-list structure, the wake-up pipe, poll(2),
the bounded `dllist` and the main loop of the threads of the front end that own a
mailbox. A sender's `put` is the list operation (`Send`, `PutAgain`), then the
byte (`Raise`); the owner's `check_for` is `Drain`, one of the looks, and
`WaitForInput`. Sockets get input and are closed by peers (`Arrive`, `PeerClose`).

A socket is unbound in three places. The handler that reads the end of its input says
`clear_ready` and unbinds it (`ClearReady`, `Unbind`). `removeDaemon` unbinds one without
`clear_ready` when a remote call fails, inside a handler, which may be that of the input
of a socket, before its `clear_ready` or after it (`RemoveDaemon`, in the states `serve`,
`clear` and `buffered`). And when poll(2) fails, `wait_for_input` unbinds each
descriptor that is closed, without `clear_ready` too (`CloseBound`, `WaitFails`). In
the last two cases `ready_socks` and `sock_messages` keep what they had. `stale` and
`orphans` are histories of exactly that: descriptors and identities that were unbound as
ready without `clear_ready`. A message of an orphan makes `DMmain` abort
(`ReadAborts`, disagreement 5).

| variable | in the code |
| --- | --- |
| `messages`, `sock_messages` | the two lists of a mailbox |
| `bound_socks`, `ready_socks`, `tid`, `nextTid` | the sets of `thr_mailbox`, the thread table's identities of sockets |
| `pipe`, `data`, `eof`, `closed` | bytes in the pipe, unread input, connections closed by the peer, descriptors closed here while bound |
| `opc`, `want`, `fd_first`, `cur` | where the owner is, what it receives, `DMmain`'s alternation, what it serves |
| `spc`, `out`, `asked` | where a sender is, its message, calls to it without a reply |
| `stale`, `orphans` | histories: what was unbound as ready without `clear_ready` |

The identity that `removeDaemon` unbinds is that of a member nobody sets
(`DMdaemon.h:489`; `DMdaemon.C:829` declares a local of its name), so `RemoveDaemon` takes
any bound socket of the mailbox, or does not happen; a socket of another thread's mailbox
is not considered. Not modelled: a descriptor that is closed while it is bound and
given to another socket before it is unbound.

`RWLock` has the monitor's two conditions as program counters: a thread that is
signalled (`read_woken`, `write_woken`) takes the monitor again later, and may
find the lock taken. `LockService` is a readers-writer lock with no queue:
readers share, a writer is alone, and a free lock that is waited for is granted.
`ImplementsLock` is the refinement, with liveness.

xplat's mutexes, conditions and monitors are not in the repository: they are
modelled from their use (marked external in the map), with spurious wake-ups.

### `SharedTimer`

A thread of the application starts and stops a timer in shared memory while the
daemon samples it: no lock, but two counters, `protector1` incremented before an
update and `protector2` after it, read in the opposite order. Every access to
memory and to the clock is a step. Where `MEMORY_BARRIER` is empty (x86) stores
wait in a store buffer (`stores`, `Drain`); elsewhere the barriers complete them,
and stores between two barriers happen in program order, which is coarser than
PowerPC and IA-64 allow.

| variable | in the code |
| --- | --- |
| `mem`, `stores`, `clock` | the `tTimer`, the processor's store buffer, the time both sides read |
| `todo` | what remains of `DYNINSTstartWallTimer` and its three siblings |
| `at`, `read`, `lastTimeValueUsed` | where `wallTimerHK::perform` or `processTimerHK::perform` is, what it has read, the largest sample so far |
| `published`, `rolledBack` | histories: the timer after each update; a sample was less than the one before |

### `SampleAggregator` and `Collection`

`SampleAggregator` is the algorithm: components with queues of samples, a current
interval that all of them must have filled, samples that reach beyond it and are
split. It has no variables; an aggregator is a record, and a method an operator
from the record before to the one after it. `aggSum` is the operation modelled,
with initial actual values of 0. Division is integer division: nothing is lost by
it, as what is left of a split sample is queued.

`Collection` has three layers of aggregators: of a process for its thread, of a
machine node for its processes, of the metric instance for its daemons.

| variable | in the code |
| --- | --- |
| `fe`, `component[d]` | `metricInstance::aggregator` and which of its components is that of daemon `d` |
| `asked`, `refused`, `enabled` | the enable request under way and its outcome (`MetricFocusReq` has it in detail) |
| `node[d]` | the `machineMetFocusNode` with its aggregator and `_sentInitialActualValue` |
| `procNode[p]` | the `processMetFocusNode`: its component in the node, whether it is instrumented, its aggregator, when its thread was last sampled |
| `toDelete` | daemons with the instance in `metricFocusesRequestedForDelete` |
| `live`, `waiting` | processes that run, and those that have not started |
| `toDaemon`, `toFE` | MRNet messages on their way, in order for each daemon |
| `failed` | an assertion of the data manager failed; nothing happens after that |
| `measured`, `shown` | histories: what was sampled for each component of a node, what the front end's intervals add up to |

`HandleEnable` is `enableDataCollection` with the deletions that were put off
(`processInstrDeletionRequests`), `Sample` is one round of `checkAndDoShmSampling`
with the flush of the batch buffer; a process not in `S` is one whose reading was
inconsistent or that was stopped. `NewProcess` and `ExitProcess` are
`propagateToNewProcess` and `adjustForExitedProcess`. The messages `initial`,
`batch`, `end`, `success` and `failure` are handled by `setInitialActualValueFE`,
`batchSampleDataCallbackFunc`, `HandleEnd` and the callbacks of an enable request.
Left out: several threads of a process, forks and execs, changes of the sampling
rate, clocks of daemons that differ, minimum and maximum.

### `DataPath`

The data of an instance goes from the sample aggregator to the histogram of the
global phase (`Histogram::addInterval`), through the buffer of a performance
stream to a visi thread, from there to the visi process and its data grid. When
the time of a histogram is used up, all fold: two bins become one, and each
stream is told. The bin numbers in data of before the fold are of the old width.

A bin's value is modelled by the set of units of time it has data of, and a
normalised value by that set with its divisor: what is lost, put in the wrong bin
or divided by the wrong width shows. Proportional distribution of a value over
bins, floating point, and the sum of components are not in it.

| variable | in the code |
| --- | --- |
| `hist[m]`, `globalBucketSize`, `lastGlobalBin` | an instance's histogram and the class statics |
| `globalWidth`, `intvl[m]` | `metricInstance::global_bucket_width`; the next interval of the aggregator |
| `users`, `others`, `opened` | instances with the visi as a user, with another user; how often one was opened |
| `buffer`, `mail` | the stream's buffer, the visi thread's mailbox |
| `mrlist`, `vbuffer`, `vsize`, `vwidth`, `fetching`, `bulk` | the visi thread's list, buffer with its size, width, the instances whose old bins it fetches, the bins fetched |
| `grid`, `binWidth` | the visi's cells and bin width |
| `kept`, `torn`, `odd` | histories: what each histogram was given; instances fetched across a fold; a width taken from a stale static |

Actions are named for the handlers; `Open` and `Close` are parts of
`Subscribe`, `OpenOther`, `StopMetricResource` and `CloseOther`.

`MCDataPath` puts the three stages of the data next to each other for TLC: a
behaviour uses one of `SharedTimer`, `Collection` and `DataPath`, the others
staying as they were built.

## 5. Runs

| run | instance | shows |
| --- | --- | --- |
| `safety` | daemons d1, d2 (d2 attaches later), pairs m1 (both daemons) and m2 (d1), one client, two requests, one new phase | type invariant, the safety properties, the action properties and the refinement of `EnableService`; about 509 000 states |
| `propagate` | the same daemons, one pair, two requests, one phase, one new program on either daemon | that a daemon asked late is waited for, a safety property that a propagation could break, and `EveryPairIsTold` under `FairSpec` |
| `complete`, `late`, `reenable`, `count` | one pair, one or two requests | disagreements 1 to 4 of section 7 |
| `pdthread` | two senders, one socket bound twice, a list of two, a pipe of one byte; or a lock of four threads, either preference | the properties of the mailbox, with all three ways to unbind, and of the lock, safety and liveness, and the refinement of `LockService`; about 121 000 states |
| `stale` | the mailbox of `pdthread` | disagreement 5 |
| `users` | two pairs, three handles, two visis and two searches of both phases (all for one pair, or two of them for two pairs), two new phases, three requests (two if the second phase starts) | the properties of metric instances; about 1 266 000 states |
| `flow` | two instances, one of them kept for its data, four bins, eight units of time (four after the last of three openings), two waiting upcalls (one after it); or two daemons with three processes, one of them started later, two enablings, intervals of one or two units; or a timer of either kind, with or without store buffers, two updates, a clock of two readings | that bins and cells hold the data of their own time; that samples become intervals without loss, gap or overlap; that a sample is a snapshot; about 389 000 states |
| `finished` | the same | disagreement 7 |
| `normalised` | `DataPath` of `flow` with two openings | disagreement 6 |

Two daemons are the least that can disagree, join late or overtake each other;
two pairs the least for a bundle that is half decided, with unequal focuses; two
requests the least that share a value; one phase change the least that cancels.
`NumReq`, `MaxPhase` and `MaxPrograms` bound the environment, not the protocol.
A pipe of one byte loses every second wake-up and a list of two is full after two
puts; a socket bound twice has two identities, and its second binding can meet what the
first has left; four threads are two readers and
two writers. A visi and a search of each phase are every kind of client; a third
request is one that is made while two are on their way or after both were
answered, a third handle one that replaces a deleted instance. The second phase change overtakes
the notice of the first; a third request adds nothing to that (`MaxReqLast`). Four bins fold twice
in eight units of time, so a fold of a fold and a catching-up histogram happen.
In `Collection`, intervals of two units (`Widths`) have samples that end within
one, processes whose intervals do not begin together, and processes that start and
exit at a daemon with another process; with them an instance is enabled once and
the clock read four times (`MaxReadingWide`). Intervals of one unit let a second
enabling follow the first closely: three readings before it (`MaxReadingFirst`),
five in all (`MaxReading`), two if a process has exited (`MaxReadingExited`), so
that data of both enablings reaches the histograms. Two messages are on their
way to the data manager (`MaxMessages`): the two of one round or one enabling, or one
of each daemon. Processes exit or start after the first
request only. Two updates of a timer (`MaxUpdate`) are a start and a stop, or a start
within a start, so that a sample can meet the end of one update and the
beginning of the next.
Behaviours stop when the bounds are used up, so deadlock is not checked. In
`pdthread` there is a second reason: an owner whose list is full of requests while
it waits for a reply (`Jam`) stops with its senders, in the code too; the liveness
properties say that nothing else stops it.

`pdthread` checks two modules that share no variable. `MCPdthread` lets a
behaviour use one of them, the other staying as it was built.

Fairness. In `MetricFocusReq` it is weak fairness of `Answering` for the
daemons in `Reliable`, the next thing the data manager hears of the oldest message: the
daemon's handler deletes the noted nodes, runs its loop over the pairs and calls
back before it returns (`paradynd/src/dynrpc.C`, `startCollecting` sets one status
per pair), and the data manager's main loop handles every message. No
fairness is assumed of the decision of a deferred pair: `doDeferredInstrumentation`
may be refused for ever while the process runs in the code to be instrumented.
In `Mailbox` the owner is scheduled, a put that has begun goes on, and a thread
that was called replies, as its own loop serves requests; nothing is assumed of
other sends, of peers, or of failures (`CloseBound`, `WaitFails`, `RemoveDaemon` in
`Owner` may be chosen or not). `MessagesServed` and `SocketsServed` end where an
assertion has failed, and `SocketsServed` leaves out a descriptor that is bound with its old
flag in place, of which the main loop hears nothing again. In `RWLock` a woken thread gets the monitor, as a
mutex is released in finitely many steps, and a lock is released by its holder.
`MetricInstances` and the modules of the data have safety properties only.

Each property of a passing run has a mutant in `PROJECT.json`, a plausible bug
of a definition that the property catches.

## 6. Proofs

All theorems hold for every value of the constants that the modules' assumptions
allow: finite sets, and bounds that are numbers (`ConstantsAssumption`,
`MailboxAssumption`, `ThreadAssumption`, `InstancesAssumption`, `DataPathAssumption`,
`CollectionAssumption`, `SharedTimerAssumption`). The one assumption about the system is
`FocusMatched`, under which the enable protocol is studied: a focus selects some daemon
that is attached at the start. The inductive invariants
were first checked by TLC on the instances of section 5 or smaller ones.

### The enable protocol

`MetricFocusReqProofs` proves `Spec => []TypeOK`, and that `ProtocolInv` is an
invariant, which TLC had confirmed on the instance of `safety`. None of the properties is inductive by itself. `NoDanglingBundle`
needs that a deleted bundle's pairs are all decided (`ClosedInv`), which needs
that a decided value does not become undecided (`ValuesInv`: the merged state is
up to date, and a final state of a daemon is final) and that parent lists and
bundles name each other (`SharingInv`). That a daemon's answer does not make a
value of an unsent pair known needs `MessagesInv`: an outstanding message is
about values of its bundle that were sent to that daemon, or were freed.
Counting the answers needs `Cardinality(asked) <= num` and that only daemons
asked have answered. From it follow

* `DeletedBundleUnreached`: no handler reaches a deleted bundle;
* `UnanimousSuccess`: success means every daemon asked has answered success;
* `EnabledSucceeded`: an enabled instance has a value in state success;
* `StableDecision`: a decision is never changed or deleted;
* `LastIsLast`: nothing follows the packet flagged as the last.

`MetricFocusReqClientProofs` is about the clients. The actions with their helpers are
too many ways to reach a client, so a lemma per handler first shows that clients see
one of five steps: nothing (`Unheard`), an answer merged and a set of pairs reported
(`Answered`), a request that joins values (`Joined`), a request of a phase that is over,
and a phase start (`PhaseStarted`). Invariant and refinement are then proved once per
kind of step. `ClientInv` adds to the properties that reports keep up with the merged
state (`ReportedInv`: without it a decision could be merged and not told), that nobody
was told a decision of an undecided pair (`QuietInv`), and that until a phase starts a
success of its daemon, or of the pair, stands behind each component (`FirstPhaseInv`),
so that a daemon whose first success is on its way has none yet. It follows that

* `DecisionsTold`, `OneFinal`, `LastArrives`: every client that listens is told each
  decision, once, and the last packet comes when all pairs have succeeded;
* `FirstPhaseSafe`: until a phase starts, no deleted value is used and no assertion
  fails (disagreement 2 shows what happens after that);
* `ServiceImplemented`: the protocol implements `EnableService`.

### The lock

`PdthreadProofs` proves `LockInv`: the counters are the threads inside and asleep
(`CountersAgree`), a writer is alone, a reader sleeps only while the lock's rule makes it
wait, and if nobody has the lock a writer sleeps only if somebody who was woken goes
first. The last two are why `NoneStranded` holds: `stop_writing` wakes all readers or
one writer, and a woken thread may lose the lock again to one that comes fresh.
Theorems: `CountersCorrect`, `NobodyStranded`, `WriterAlone`, and `LockRefinesService`,
every step is one of `LockService` or none.

### The mailbox

`PdthreadProofs` also proves `MailInv`. `NoLostWakeup` is nearly inductive: it speaks of where
the owner is, so that a put between the look at the lists and `poll` is covered by the
byte it raises. `NoLostSignal` needs `SignalInv`: while a sender sleeps there are at
least as many woken senders as free places, as each receive frees one place and wakes
one. `ReadNeverBlocks` needs `EventInv` and `BindingInv`: a ready socket that is not stale has
input unless it is the one just consumed, and identities are unique and orphans those of no
bound socket, so that clearing one socket never clears another. `ReadinessAgrees` and
`ReadNeverBlocks` say what they say of every socket but what an unbind without
`clear_ready` has left; that they cannot be had without this exception is
disagreement 5. Theorems: `MailTypes`, `NothingSleptOn`, `ReadinessCorrect`,
`ReadsReturn`, `SignalsSuffice`.

### Metric instances

`MetricInstancesProofs` proves `BaseInv`: of each instance that it is enabled exactly
while it has users, has an active histogram of the current phase exactly while it has
users of that phase, and is live while its value is undecided (`Sound`, `InstanceInv`);
that a pair has one live instance (`OnePerPair`); and that the counters are what they
count and settle the rate (`CountInv`). `RateFits` is not inductive without the counters:
whether a disable sends a new rate is decided by them alone. A lemma for each operation
(`Disable`, `Ready`, `Stopped`) says what it does to one instance and the counters, and a
lemma for each action takes it from there. A phase start changes all instances at once:
its counts are an argument about cardinalities of sets. What a decision and a phase start
send is built with `FlattenSeq`; `FlattenSeqGathers` says that it holds the elements of
all its parts, each once. That is an induction over data, done by induction over a set of
numbers (`NatSetInduction`), which needs no operator as a parameter. Theorems:
`InstancesTypes`, `CountsCorrect`, `RateCorrect`, `DataIsKept`.

`MetricInstancesClientProofs` proves `ClientInv`, six facts about each client:

* it is of a phase that was started, and uses handles that were given out (`PhaseOK`);
* it has one request at most waiting for a value, and a visi waits for the pair (`AskOK`);
* a reply on its way says what was decided, and of what it grants the client is a user
  (`MailOK`), and there is one per instance at most (`UniqueOK`);
* what it uses it is a user of, and nothing more is coming to a search for it (`HoldOK`);
* what it is a user of it uses or will hear of, or it left or was ended (`UserOK`).

`HeldIsCollected` needs `MailOK`, as a reply makes the client use the instance. `MailOK`
needs `UniqueOK` and the second half of `HoldOK`: a client that disables an instance it
uses must not have another grant of it on its way, by which it would use what is no
longer collected for it. `NoOrphan` is `UserOK` with
`BaseInv`; its exceptions are in the property and not in the proof. A client's facts are
disturbed by its own steps, by decisions and by phase starts; every other step leaves
them (`Untouched`), which is proved once from `Steady`: the phase stays, handles are not
reused, decisions stay, and no request, message or user of the client is added or lost.
Theorems: `HeldCollected`, `NoneOrphaned`.

Stating `NoOrphan` for more than one phase change found an error in the model and a
weakness of the code: the notices of phases reach a search in order, but a new search
may be started for a phase whose notice waits behind an older one (section 7). The
model now has `ended`, and the run `users` two phase changes.

### The timer

`SharedTimerProofs` proves `TimerInv`, of which `SampleIsSnapshot` is a consequence. What
needs care is the store buffer: the daemon sees the memory after any number of the stores
that the thread has made. So the invariant is about all of these memories (`After(n)`),
and not only the present one. `MemoryInv`: in each of them the timer is as an update left
it if the protectors are the same, and the protectors only grow from one to the next.
`WriterInv`: in the eyes of the thread, all stores done, `protector1` is ahead by one
during an update. `ReaderInv`: what the daemon has read so far is of the update that
`protector2` counts, unless another has begun. The lemma that carries it is that a store
is seen late but in order (`DrainedAppend`, `DrainedTail`). `FloorInv` is for
`lastTimeValueUsed`: where the stores are not buffered, the samples so far are at most the
least that a later one can be, which the value of the timer itself is not, as a stop has
read the clock before it adds the time. Theorems: `TimerInvariant`, `SamplesAreSnapshots`.

### The data path

`DataPathProofs` proves four invariants, each of which rests on those before it, for any
number of bins, instances, folds and messages.

* `DMInv`, of the data manager: every bin of a histogram has exactly the data of its span,
  and there is a bin for all data. A fold keeps it because the span of a bin of twice the
  width is the union of two spans of before; the folds before an interval is added are
  enough for its end. This holds whether or not the histograms have the same width, so
  `BinsExact` has no exception for `odd`.
* `FlowInv`, of what is told: the folds in the mailbox are in ascending order and lead from
  the width the visi thread was told to the data manager's. `WidthsAgree` is the case of
  an empty mailbox. It needs `SameWidth`: unless a histogram was made with a stale width
  all have the same, so that the widths told double each time.
* `GridInv`, of the visi's side: values are of its instances and in bins that exist, and
  the thread's buffer is sent before it is full. With it `TypeOK` follows.
* `CellsInv`: each message in the mailbox finds the visi with the width that the message was
  made for, which is the one the visi has now or the one of the last fold before the message
  (`WidthAt`), and has data for bins of that width. `CellsSound` is not inductive without
  it: a value is put in the stream's buffer, sent, ignored or buffered by the thread, and
  shown, and a fold may come at each point. The exceptions are in the property: `torn`
  instances were fetched across a fold, and `odd` histories have a stale width.

The model's recursive functions (`Doubled`, `Folded`, `Data`, `Selected`) are used through
lemmas that say what they compute, by induction over a set of numbers. Theorems:
`HistogramsInvariant`, `BinsAreExact`, `FlowInvariant`, `WidthsAlwaysAgree`,
`GridInvariant`, `DataTypes`, `CellsInvariant`, `CellsAreSound`.

### The data of an instance

`CollectionProofs` proves `CollectionInv` for any number of daemons, processes, enable
requests and messages. It holds until an assertion of the code has failed (`running`),
and has six parts:

* `TypeInv`;
* `FeInv`: the front end's aggregator is sound and shows what it has aggregated; a
  daemon's component is its own and has not finished. Sound (`AggOK`) is that the samples
  of each component ascend from the time it has samples up to, and that none begins
  before the interval the aggregator is at;
* `NodesInv`: so are the nodes of the daemons, and of each process (`ProcOK`) the component
  of the node has got what the process gave away, up to where the process has got;
* `MeasuredInv`: what was measured is in the component of the node or not yet passed on;
* `LinkInv`: as the front end sees it a daemon is in one of five states, `Idle`, `Requested`,
  `Succeeded`, `Refused` or with a component (`Component`), each of which says what may be
  on the way in either direction. What holds after a success is `Follows`: the intervals on
  the way are contiguous, begin where the component ends, add up to what the node has
  aggregated and the component was not given, and lead to where the node is now;
* `EnabledInv`: between requests each node has a component.

`DataConserved` and `NodeAndComponentAgree` alone are not inductive. The second does not
say what an answer on the way is followed by, so that the component made on its arrival
might get intervals of a node that is gone: a daemon works off its requests in order, and
`Succeeded` says that a success is of the last of them. And neither says that an aggregator
takes each sample once: an interval takes a share of the first sample and leaves the rest
in the queue, and removing a component flushes it.

The step lemmas say what the operations of an aggregator do to these facts, for the
daemons' and the front end's alike: `addSamplePt` gives a sample to one component,
`aggregateAll` and `removeComponent` emit intervals that continue those before and whose
values are by how much the actual value has grown (`Emits`). The loops of the model are
recursive functions over data. They are reached without induction over an operator:
`LoopExists` has the function, and `LoopKeeps` says that a loop keeps what each round keeps,
where this is given as the sets `S[i]` of the states that are sound after `i` rounds.
Sums (`SumOf`) are taken apart in the same way. The helper `AddEntry` does nothing once an
assertion has failed, as the program does, which the proof needs and no property sees.
Theorems: `CollectionInvariant`, `DataIsConserved`, `NodesAndComponentsAgree`.

### Only model-checked

* Liveness: `EveryPairIsTold`, the liveness properties of the mailbox and of the lock,
  and the leads-to part of `ImplementsLock`. The prover has no rules for fairness and
  ENABLED here.
* `AddedComponentIsNew` after the first phase. Its invariant would have to say of each
  cancelled pair that its disable is noted at every daemon with a component or is ahead of each
  answer on its way.
* `CellsComplete` of `DataPath`. It says of the visi's cells when nothing is on its way
  that they lack nothing, so its invariant would have to say, of each whole bin of each
  instance, in which of the stream's buffer, the mailbox, the thread's buffer, the
  fetched bins and the cell each of its units is, at a fold also which half.
* `Normalized` and the other properties of section 7, which do not hold.

## 7. Where the code and its own words disagree

1. `complete`: a bundle may be completed and deleted without the packet that
   ends the request, when one daemon fails first and another answers later.
2. `late`: a late answer to a cancelled request is not ignored but merged in a
   deleted value.
3. `reenable`: an instance kept for its persistent data is enabled again
   without any daemon collecting for it.
4. `count`: a daemon attached late is counted once per new program.
5. `stale`: `DMmain` asserts that the socket of a message that says a socket is ready
   exists (`DMmain.C:916-917`). `removeDaemon` unbinds a socket without `clear_ready`
   (`DMdaemon.C:271`), its message stays in the list, no later `clear_ready` finds it, and
   the next poll fails the assertion.
6. `normalised`: the visi thread divides a value of before a fold by the bucket
   width of after it, so the visi shows half the value.
7. `finished`: a component that has finished before its first interval arrived
   holds up the aggregation of all others, which `markAsFinished` is there to
   prevent.

Also seen:

* `enableDataRequest2` never answers a request for a phase that is over
  (`DropStaleRequest`), as a local variable shadows the stream handle.
* A search that ends clears the persistence flags of its instances, also those the
  tunable constant `persistentData` had set, of which `DMmain.C:877-882` says "Don't
  delete internal paradyn data when instrumentation disabled": in `MetricInstances`
  `Enable` by a global search, `CancelSubRequest`, `Answer` and `ReceivePC` lose it.
* `PCsearch::updateCurrentPhase` (`PCsearch.C:356`) compares phases for equality only.
  The user may start a search of a new phase while the notice of an older one still
  waits; the notice then ends the new search and sets the phase back, the replies to the
  search are dropped, and what they granted stays enabled with it as a user
  (`HearOfPhase`, `ended`).
* Bins that a visi thread fetches for a new subscriber may be those of after a fold
  whose upcall is still in its mailbox; the visi folds them again (`torn`).
* A fold by a histogram that is catching up doubles `Histogram::globalBucketSize`
  though no other histogram is of that width; a grid or a histogram made next takes
  its width from it (`odd`).
* The `stid` that `removeDaemon` unbinds is never set (`DMdaemon.h:489`,
  `DMdaemon.C:829`), so what it unbinds, if anything, is not the daemon's socket.
* A new socket with the number of one that was unbound as ready is in `ready_socks` from
  the start and never polled (`stale`, `thr_mailbox.C:780`).
* The descriptors that `wait_for_input` unbinds after poll(2) fails are in fact not found
  so: of a closed descriptor poll(2) returns at once and reports POLLNVAL, and the owner
  goes round its loop until something else comes (`thr_mailbox.C:405-413`).
* Removing a component because its daemon reported the end of data collection sends the
  daemon a disable for it again. If the pair has been asked for again in the meantime, the
  next enable message deletes its new node (`EndOfDataCollection`, `DisableComponents`).
* The flush of the last component is of one interval, also of one that is not over;
  what else is queued is dropped. An instance that is enabled again before that
  interval would have ended fails an assertion of `setInitialStartTime`.
* `removeComponent` adds `start - end` of that interval to `enabledTime`
  (`DMmetric.C:824`), `doAggregation` the opposite.
* What is in the aggregator of a process is not passed on when it exits. A process
  that starts and cannot be instrumented, or whose instrumentation is deferred,
  leaves a component that gets no start time, and its machine node delivers nothing
  from then on (`machineMetFocusNode.C:376-386`).
* On x86 `MEMORY_BARRIER` is empty: a stop may read the clock while its increment of
  `protector1` is still buffered, and a sample taken then is larger than the next
  one, the rollback that `varInstanceHKs.C:274-284` rules out. `SampleIsSnapshot`
  asks for no rollback only where barriers order the stores.
* `dllist::yank_nb` returns with the monitor locked, and `thr_join` of any thread
  never returns, as `register_joinable` lists nobody; nothing reaches either.

## 8. Not modelled

* `paradynd`'s instrumentation proper: its insertion through dyninst, which is not in
  the repository, threads that come and go, forks and execs, variable tables with
  their shared memory slots (`sharedMem`), process and thread managers. The slot
  allocator is planned.
* Minimum and maximum aggregation, and internal metrics.
* The Performance Consultant beyond its subscriptions: experiments, the search
  history graph, the cost limit. Planned.
* Histograms of the current phase in `DataPath`, and of sampled functions; their
  fold is the same code.
* Resource trees, call graph and abstractions of the data manager, tunable constants:
  containers.
* The user interface, `igen`'s generation, the MDL compiler and `met`'s parser, the
  visualisation programs, start-up and the build scripts: they draw, parse, generate
  or configure, with no protocol to get wrong. They are most of the repository's lines.
* xplat, MRNet, common and dyninst are not in the repository.
