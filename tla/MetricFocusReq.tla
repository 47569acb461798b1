--------------------------- MODULE MetricFocusReq ---------------------------
(***************************************************************************)
(* The enable protocol of Paradyn's data manager (DMthread).  A client     *)
(* (a visi or the Performance Consultant) asks for a set of metric-focus   *)
(* pairs; the data manager keeps one metricFocusReqBundle per request and  *)
(* one metricFocusReq_Val per metric instance, shared by every bundle that *)
(* asks for it.  Only the request that creates a value is sent to the      *)
(* daemons; later requests for it piggyback.  A daemon answers each        *)
(* message once, with "success", "failure" or "deferred" per pair, and     *)
(* again when a deferred pair is decided.  The answers are merged in the   *)
(* value, and each change of the merged state is sent to the clients of    *)
(* all its bundles, with a flag on the packet that says it is the last.    *)
(*                                                                         *)
(* A component that goes, and a pair a new phase cancels, are disabled: a  *)
(* daemon notes the disable, deletes the node when the next enable message *)
(* comes, and the data manager hears of it before the answer to that.      *)
(*                                                                         *)
(* A handler of the data manager thread runs to completion, so an action   *)
(* is one handler.  A use of freed memory, a use of a deleted bundle and a *)
(* failed assertion set "fault", after which the model takes no step.      *)
(***************************************************************************)
EXTENDS Naturals, FiniteSets, Sequences

CONSTANTS
    Daemon,           \* paradynd processes, attached now or later
    InitialDaemons,   \* those attached when the first request is made
    Reliable,         \* those that answer every message (the others may die)
    MI,               \* metric instances, one per handle
    Focus,            \* Focus[m]: the daemons the focus of m selects
    Client,           \* performance streams, one per visi or PC
    NumReq,           \* bound: requests the clients make
    MaxPhase,         \* bound: phases started after phase 0
    MaxPrograms       \* bound: new programs reported by the daemons

ASSUME ConstantsAssumption ==
    /\ IsFiniteSet(Daemon) /\ IsFiniteSet(MI)
    /\ InitialDaemons \subseteq Daemon
    /\ Reliable \subseteq Daemon
    /\ Focus \in [MI -> SUBSET Daemon]
    /\ Client # {}
    /\ NumReq \in Nat /\ MaxPhase \in Nat /\ MaxPrograms \in Nat

Req == 1 .. NumReq
PhaseType == {"CurrentPhase", "GlobalPhase"}

(* inst_insert_result_t *)
Final == {"success", "failure"}
Known == Final \union {"deferred"}
Status == Known \union {"unknown"}

VARIABLES
    allDaemons,   \* paradynDaemon::allDaemons
    phase,        \* phaseInfo::CurrentPhaseHandle()
    programs,     \* number of new programs so far (bounds NewProgram)
    open,         \* performance streams that exist
    nreq,         \* requests made so far; also the latest request id
    req,          \* what each request asked for
    bundle,       \* metricFocusReqBundle::all_mfReq_bundles
    requestedOn,  \* metricFocusReq::daemons_requested_on
    freed,        \* pairs of a bundle whose metricFocusReq_Val was deleted
    val,          \* metricFocusReq_Val::allMetricFocusReqVals
    mi,           \* metricInstance::allMetricInstances and their enabled flag
    comps,        \* metricInstance::components, as the daemons they are for
    disabled,     \* disables sent to a daemon since its last enable message
    nodes,        \* machineMetFocusNode::allMachNodes of a daemon, as far as
                  \* the data manager has heard of it
    pending,      \* enable messages a daemon has not answered, oldest first
    deferrals,    \* answers of a daemon that still hold a deferred pair
    told,         \* what a client has been told of each pair of a request
    last,         \* the request's client got a packet flagged as the last
    fault         \* "none", or the undefined behaviour or abort reached

vars == <<allDaemons, phase, programs, open, nreq, req, bundle, requestedOn,
          freed, val, mi, comps, disabled, nodes, pending, deferrals, told,
          last, fault>>

-----------------------------------------------------------------------------
(* metricFocusReq_Val *)

NoVal == [live |-> FALSE, num |-> 0, st |-> [d \in Daemon |-> "unknown"],
          overall |-> "unknown", sent |-> FALSE, reported |-> {},
          parents |-> {}, first |-> 0, asked |-> {}]

\* paradynDaemon::findMatchingDaemons
Matching(m) == allDaemons \intersect Focus[m]

\* parents and first are the parent list and its first entry; asked is a
\* history variable: the daemons the pair was really sent to
NewVal(m) == [NoVal EXCEPT !.live = TRUE, !.num = Cardinality(Matching(m))]

In(st, S) == {d \in Daemon : st[d] \in S}

\* Faulty variants of the merge: daemons that have not answered are not
\* counted; one success is enough; the count is off by one; a pending
\* deferral hides a failure
OverallOfAnswered(st, num) ==
    IF In(st, {"failure"}) # {} THEN "failure"
    ELSE IF In(st, {"deferred"}) # {} THEN "deferred"
    ELSE IF In(st, {"success"}) # {} THEN "success" ELSE "unknown"
OverallOneSuccess(st, num) ==
    IF In(st, {"success"}) # {} THEN "success"
    ELSE IF In(st, {"failure"}) # {} THEN "failure"
    ELSE IF In(st, {"deferred"}) # {} THEN "deferred" ELSE "unknown"
OverallOffByOne(st, num) ==
    IF In(st, {"failure"}) # {} THEN "failure"
    ELSE IF In(st, {"deferred"}) # {} THEN "deferred"
    ELSE IF Cardinality(In(st, {"success"})) > num THEN "success"
    ELSE "unknown"
OverallDeferredFirst(st, num) ==
    IF In(st, {"deferred"}) # {} THEN "deferred"
    ELSE IF In(st, {"failure"}) # {} THEN "failure"
    ELSE IF Cardinality(In(st, {"success"})) = num THEN "success"
    ELSE "unknown"

\* calculateNewOverallState: the merge of the daemons' answers
Overall(st, num) ==
    IF In(st, {"failure"}) # {} THEN "failure"
    ELSE IF In(st, {"deferred"}) # {} THEN "deferred"
    ELSE IF Cardinality(In(st, {"success"})) = num THEN "success"
    ELSE "unknown"

\* faulty variant: a deferral counts as a final answer
IsEachDaemonAnswered(v) == Cardinality(In(v.st, Known)) = v.num

IsEachDaemonComplete(v) == Cardinality(In(v.st, Final)) = v.num

SetNewDmnState(v, d, s) ==
    LET st == [v.st EXCEPT ![d] = s]
    IN  [v EXCEPT !.st = st, !.overall = Overall(st, v.num)]

\* Faulty variants: "unknown" is reported too; nothing follows a deferral;
\* a final state is reported at each answer
ShouldReportUnknown(v) == v.overall \notin v.reported
ShouldReportOnce(v) == v.overall # "unknown" /\ v.reported = {}
ShouldReportAlways(v) ==
    v.overall \in Final \/ (v.overall = "deferred" /\ v.reported = {})

\* should_report_new_state
ShouldReport(v) ==
    \/ v.overall \in Final /\ v.reported \intersect Final = {}
    \/ v.overall = "deferred" /\ v.reported = {}

\* faulty variant: a repeated answer is taken for a new one
ReportableAgain(old, new) == new # "unknown"

\* state_transition_response: the pairs of states answered report_transition
Reportable(old, new) ==
    \/ old = "unknown" /\ new # "unknown"
    \/ old = "deferred" /\ new \in Final

-----------------------------------------------------------------------------
(* metricFocusReqBundle *)

NoRequest == [mis |-> {}, type |-> "GlobalPhase",
              client |-> CHOOSE c \in Client : TRUE]

\* isBundleComplete over values v, where no value the bundle uses is freed
IsBundleComplete(r, v) ==
    freed[r] = {} /\ \A m \in req[r].mis : IsEachDaemonComplete(v[m])

\* isBundleComplete stops at the first incomplete pair, in hash order: it
\* may read a freed value, and must when all the others are complete
MayReadFreed(rs) == \E r \in rs : freed[r] # {}
MustReadFreed(rs, v) ==
    \E r \in rs : /\ freed[r] # {}
                  /\ \A m \in req[r].mis \ freed[r] : IsEachDaemonComplete(v[m])

Parents(v, S) == UNION {v[m].parents : m \in S}
Dangling(rs) == \E r \in rs : bundle[r] = "deleted"

\* faulty variant: only the latest of the bundles that share a pair is told
TellLatest(S, to, status) ==
    [r \in Req |-> [m \in MI |->
        IF m \in S /\ r \in to[m] /\ req[r].client \in open
           /\ \A q \in to[m] : q <= r
        THEN Append(told[r][m], status[m]) ELSE told[r][m]]]

\* accumulatePerfStreamMsgs and flushPerfStreamMsgs: one packet to each
\* bundle of some pair of S whose client still has its stream
Tell(S, to, status) ==
    [r \in Req |-> [m \in MI |->
        IF m \in S /\ r \in to[m] /\ req[r].client \in open
        THEN Append(told[r][m], status[m]) ELSE told[r][m]]]

\* faulty variant: completeness is computed before the answer is merged
FlagLastEarly(rs, v) ==
    [r \in Req |-> last[r] \/ ( /\ r \in rs
                                /\ req[r].client \in open
                                /\ IsBundleComplete(r, val))]

\* flushPerfStreamMsgs: the flag that goes with the packet
FlagLast(rs, v) ==
    [r \in Req |-> last[r] \/ ( /\ r \in rs
                                /\ req[r].client \in open
                                /\ IsBundleComplete(r, v))]

Fail(kind) ==
    /\ fault' = kind
    /\ UNCHANGED <<allDaemons, phase, programs, open, nreq, req, bundle,
                   requestedOn, freed, val, mi, comps, disabled, told, last>>

-----------------------------------------------------------------------------
\* no step is taken after undefined behaviour or an abort
Running == fault = "none"

Init ==
    /\ allDaemons = InitialDaemons
    /\ phase = 0 /\ programs = 0 /\ nreq = 0
    /\ open = Client
    /\ req = [r \in Req |-> NoRequest]
    /\ bundle = [r \in Req |-> "none"]
    /\ requestedOn = [r \in Req |-> [m \in MI |-> {}]]
    /\ freed = [r \in Req |-> {}]
    /\ val = [m \in MI |-> NoVal]
    /\ mi = [m \in MI |-> "none"]
    /\ comps = [m \in MI |-> {}]
    /\ disabled = [d \in Daemon |-> {}]
    /\ nodes = [d \in Daemon |-> {}]
    /\ pending = [d \in Daemon |-> <<>>]
    /\ deferrals = [d \in Daemon |-> {}]
    /\ told = [r \in Req |-> [m \in MI |-> <<>>]]
    /\ last = [r \in Req |-> FALSE]
    /\ fault = "none"

\* createMetricFocusReq: the value a new request for m uses
CreateReq(m) == IF val[m].live THEN val[m] ELSE NewVal(m)

\* enableWithDaemons: the pairs to send, and the message to daemon d; the
\* disables the daemon has noted are carried out when the message comes
Unsent(mis, v) == {m \in mis : ~v[m].sent /\ Matching(m) # {}}
EnableMessage(r, mis, d) ==
    [req |-> r, mis |-> {m \in mis : d \in Matching(m)},
     disables |-> disabled[d]]

\* addParent: a decided value readies the instance for the new request
ReadyMI(m, v) ==
    IF v.overall = "success" THEN "enabled"
    ELSE IF mi[m] = "none" THEN "idle" ELSE mi[m]

(* enableDataRequest, enableDataRequest2 and DMdoEnableData, for a request *)
(* of the global phase or of the phase that is current: the bundle is      *)
(* built, a pair that is already decided is reported and readied at once,  *)
(* and the pairs never sent go out, one message per daemon.                *)
EnableDataRequest(c, mis, type) ==
    LET r == nreq + 1
        base == [m \in MI |-> IF m \in mis THEN CreateReq(m) ELSE val[m]]
        decided == {m \in mis : base[m].overall # "unknown"}
        unsent == Unsent(mis, base)
        request == [mis |-> mis, type |-> type, client |-> c]
        complete == \A m \in mis : IsEachDaemonComplete(base[m])
        message(d) == EnableMessage(r, unsent, d)
    IN  /\ Running /\ nreq < NumReq
        /\ c \in open
        /\ mis # {} /\ \A m \in mis : mi[m] # "deleted"
        /\ nreq' = r
        /\ req' = [req EXCEPT ![r] = request]
        /\ bundle' = [bundle EXCEPT ![r] = "active"]
        /\ requestedOn' = [requestedOn EXCEPT ![r] =
               [m \in MI |-> IF m \in mis THEN Matching(m) ELSE {}]]
        /\ val' = [m \in MI |->
               IF m \notin mis THEN val[m]
               ELSE [base[m] EXCEPT
                       !.parents = @ \union {r},
                       !.first = IF val[m].live THEN @ ELSE r,
                       !.sent = @ \/ m \in unsent,
                       !.asked = IF m \in unsent THEN Matching(m) ELSE @]]
        /\ mi' = [m \in MI |-> IF m \in mis THEN ReadyMI(m, base[m]) ELSE mi[m]]
        /\ told' = [told EXCEPT ![r] = [m \in MI |->
               IF m \in decided THEN <<base[m].overall>> ELSE <<>>]]
        /\ last' = [last EXCEPT ![r] = decided # {} /\ complete]
        /\ pending' = [d \in Daemon |->
               IF message(d).mis = {} THEN pending[d]
               ELSE Append(pending[d], message(d))]
        /\ disabled' = [d \in Daemon |->
               IF message(d).mis = {} THEN disabled[d] ELSE {}]
        /\ UNCHANGED <<allDaemons, phase, programs, open, freed, comps, nodes,
                       deferrals, fault>>

(* enableDataRequest for a current phase that is over: every pair is       *)
(* refused in one packet, which is the last.                               *)
RejectStaleRequest(c, mis) ==
    LET r == nreq + 1
    IN  /\ Running /\ nreq < NumReq /\ phase > 0
        /\ c \in open /\ mis # {}
        /\ nreq' = r
        /\ req' = [req EXCEPT ![r] =
               [mis |-> mis, type |-> "CurrentPhase", client |-> c]]
        /\ told' = [told EXCEPT ![r] = [m \in MI |->
               IF m \in mis THEN <<"failure">> ELSE <<>>]]
        /\ last' = [last EXCEPT ![r] = TRUE]
        /\ UNCHANGED <<allDaemons, phase, programs, open, bundle, requestedOn,
                       freed, val, mi, comps, disabled, nodes, pending,
                       deferrals, fault>>

(* enableDataRequest2 for a current phase that is over: the stream handle  *)
(* is compared with a local pointer that shadows it, so no stream matches  *)
(* and the client is told nothing.                                         *)
DropStaleRequest(c, mis) ==
    LET r == nreq + 1
    IN  /\ Running /\ nreq < NumReq /\ phase > 0
        /\ c \in open /\ mis # {}
        /\ nreq' = r
        /\ req' = [req EXCEPT ![r] =
               [mis |-> mis, type |-> "CurrentPhase", client |-> c]]
        /\ UNCHANGED <<allDaemons, phase, programs, open, bundle, requestedOn,
                       freed, val, mi, comps, disabled, nodes, pending,
                       deferrals, told, last, fault>>

-----------------------------------------------------------------------------
(* paradynDaemon::endOfDataCollection for the pairs in S: the component of *)
(* daemon d goes, if the instance has one, and its destructor sends the    *)
(* daemon a disable.                                                       *)
WithoutComponents(S, d) == [m \in MI |-> IF m \in S THEN comps[m] \ {d}
                                                    ELSE comps[m]]
DisableComponents(S, d) ==
    [disabled EXCEPT ![d] = @ \union {m \in S : d \in comps[m]}]

\* a pair whose node was deleted is no longer on the deferred list
DropDeferred(S, as) ==
    {[a EXCEPT !.open = @ \ S] : a \in {b \in as : ~(b.open \subseteq S)}}

(* updateWithEnableCallback: the answer st of daemon d for bundle r.  The  *)
(* new daemon states are merged; the values whose merged state must be     *)
(* reported are readied if they succeeded, and every bundle that shares    *)
(* them is sent a packet; the answered bundle is deleted when complete.    *)
(* The daemon has lost the nodes of the pairs in "lost".                   *)
UpdateWithEnableCallback(r, d, st, lost) ==
    LET news == {m \in DOMAIN st : Reportable(val[m].st[d], st[m])}
        now == [m \in MI |-> IF m \in news THEN SetNewDmnState(val[m], d, st[m])
                                           ELSE val[m]]
        report == {m \in news : ShouldReport(now[m])}
        ready == {m \in report : now[m].overall = "success"}
        clients == Parents(val, report)
        touched == clients \union {r}
        hitFreed == DOMAIN st \intersect freed[r] # {}
        hitAssert == \E m \in news : st[m] = "success" /\ d \in comps[m]
        hitDangling == Dangling(clients)
        parentsOf == [m \in MI |-> val[m].parents]
        newState == [m \in MI |-> now[m].overall]
    IN  \/ hitFreed /\ Fail("freed")
        \/ hitAssert /\ ~hitFreed /\ Fail("assert")
        \/ hitDangling /\ ~hitFreed /\ ~hitAssert /\ Fail("dangling")
        \/ /\ ~hitFreed /\ ~hitAssert /\ ~hitDangling
           /\ MayReadFreed(touched)
           /\ Fail("freed")
        \/ /\ ~hitFreed /\ ~hitAssert /\ ~hitDangling
           /\ ~MustReadFreed(touched, now)
           /\ val' = [m \in MI |->
                  IF m \in report
                  THEN [now[m] EXCEPT !.reported = @ \union {now[m].overall}]
                  ELSE now[m]]
           /\ comps' = [m \in MI |->
                  IF m \in news /\ st[m] = "success"
                  THEN comps[m] \union {d} ELSE WithoutComponents(lost, d)[m]]
           /\ disabled' = DisableComponents(lost, d)
           /\ mi' = [m \in MI |-> IF m \in ready THEN "enabled" ELSE mi[m]]
           /\ told' = Tell(report, parentsOf, newState)
           /\ last' = FlagLast(clients, now)
           /\ bundle' = IF IsBundleComplete(r, now)
                        THEN [bundle EXCEPT ![r] = "deleted"] ELSE bundle
           /\ UNCHANGED <<allDaemons, phase, programs, open, nreq, req,
                          requestedOn, freed, fault>>

\* dynRPCUser::enableDataCallback: an answer to a deleted bundle is ignored
Deliver(r, d, st, lost) ==
    IF bundle[r] = "active"
    THEN UpdateWithEnableCallback(r, d, st, lost)
    ELSE /\ comps' = WithoutComponents(lost, d)
         /\ disabled' = DisableComponents(lost, d)
         /\ UNCHANGED <<allDaemons, phase, programs, open, nreq, req, bundle,
                        requestedOn, freed, val, mi, told, last, fault>>

\* the nodes deleted for the disables the oldest message found are reported
\* before the message is answered
Deleted(d) == Head(pending[d]).disables \intersect nodes[d]

(* processInstrDeletionRequests, for one of the disabled pairs the daemon  *)
(* has a node of: the node and its deferral go, and its destructor's       *)
(* upcall makes the data manager remove the component.                     *)
EndOfDataCollection(d) ==
    /\ Running
    /\ pending[d] # <<>>
    /\ \E m \in Deleted(d) :
          /\ nodes' = [nodes EXCEPT ![d] = @ \ {m}]
          /\ comps' = WithoutComponents({m}, d)
          /\ disabled' = DisableComponents({m}, d)
          /\ deferrals' = [deferrals EXCEPT ![d] = DropDeferred({m}, @)]
    /\ UNCHANGED <<allDaemons, phase, programs, open, nreq, req, bundle,
                   requestedOn, freed, val, mi, pending, told, last, fault>>

(* enableDataCollection: the daemon answers its oldest message, one status *)
(* per pair, and the data manager handles the answer.  A pair has a node   *)
(* unless it failed; when it was asked for before (see DaemonsCountedOnce) *)
(* the failure may delete the node it had, and is preceded by that upcall. *)
EnableDataCallback(d) ==
    /\ Running
    /\ pending[d] # <<>> /\ Head(pending[d]).req # 0 /\ Deleted(d) = {}
    /\ \E st \in [Head(pending[d]).mis -> Known] :
          LET with(s) == {m \in DOMAIN st : st[m] = s}
              answer == [req |-> Head(pending[d]).req, st |-> st,
                         open |-> with("deferred")]
          IN  \E lost \in SUBSET (with("failure") \intersect nodes[d]) :
                /\ nodes' = [nodes EXCEPT ![d] =
                       (@ \ lost) \union with("success") \union with("deferred")]
                /\ deferrals' = [deferrals EXCEPT ![d] =
                       DropDeferred(lost, @) \union
                       (IF answer.open = {} THEN {} ELSE {answer})]
                /\ Deliver(answer.req, d, st, lost)
    /\ pending' = [pending EXCEPT ![d] = Tail(@)]

(* doDeferredInstrumentation: one deferred pair is decided, and the whole  *)
(* answer it was part of is sent again.  The node of a pair that failed    *)
(* is deleted, and so is its component if there is one.                    *)
DeferredCallback(d) ==
    \E a \in deferrals[d], s \in Final :
      \E m \in a.open :
        LET st == [a.st EXCEPT ![m] = s]
            lost == IF s = "failure" THEN {m} ELSE {}
            rest == [a EXCEPT !.st = st, !.open = @ \ {m}]
        IN  /\ Running
            /\ nodes' = [nodes EXCEPT ![d] = @ \ lost]
            /\ deferrals' = [deferrals EXCEPT ![d] =
                   DropDeferred(lost, @ \ {a}) \union
                   (IF rest.open = {} THEN {} ELSE {rest})]
            /\ Deliver(a.req, d, st, lost)
            /\ UNCHANGED pending

(* What the data manager hears of a synchronous enableDataCollection2 once *)
(* the upcalls before it are through: its answer has come already, the     *)
(* nodes it made are there now.                                            *)
EnableDataCollection2(d) ==
    /\ Running
    /\ pending[d] # <<>> /\ Head(pending[d]).req = 0 /\ Deleted(d) = {}
    /\ nodes' = [nodes EXCEPT ![d] = @ \union Head(pending[d]).mis]
    /\ pending' = [pending EXCEPT ![d] = Tail(@)]
    /\ UNCHANGED <<allDaemons, phase, programs, open, nreq, req, bundle,
                   requestedOn, freed, val, mi, comps, disabled, deferrals,
                   told, last, fault>>

-----------------------------------------------------------------------------
(* A daemon attaches (paradynDaemon's constructor). *)
AddDaemon(d) ==
    /\ Running /\ d \notin allDaemons
    /\ allDaemons' = allDaemons \union {d}
    /\ UNCHANGED <<phase, programs, open, nreq, req, bundle, requestedOn,
                   freed, val, mi, comps, disabled, nodes, pending, deferrals,
                   told, last, fault>>

Orderings(S) ==
    {f \in [1 .. Cardinality(S) -> S] : \A x \in S : \E i \in DOMAIN f : f[i] = x}

\* request_already_sent_on_daemon
AlreadySentOn(m, d) == \E r \in val[m].parents : d \in requestedOn[r][m]

\* propagateToDaemon
Ask(v, d) == [v EXCEPT !.num = @ + 1, !.asked = @ \union {d}]

\* one message per pair: of an undecided pair in the name of its first
\* bundle, of an enabled one without a bundle and with its node, if made;
\* the first message finds the disables
ProgramMessages(d, f, attach, ok) ==
    [i \in DOMAIN f |->
        [req |-> IF f[i] \in attach THEN val[f[i]].first ELSE 0,
         mis |-> {f[i]} \intersect (attach \union ok),
         disables |-> IF i = 1 THEN disabled[d] ELSE {}]]

(* addRunningProgram and propagateMetrics: a new process on daemon d.      *)
(* Every undecided value that no request listed for d is sent to d, in     *)
(* the name of its first bundle; every enabled instance without a          *)
(* component for d is enabled there by a synchronous call, whose answer    *)
(* overtakes the upcalls.                                                  *)
NewProgram(d) ==
    LET attach == {m \in MI : /\ mi[m] = "idle" /\ val[m].live
                              /\ val[m].overall \notin Final
                              /\ ~AlreadySentOn(m, d)}
        missing == {m \in MI : mi[m] = "enabled" /\ d \notin comps[m]}
    IN  /\ Running /\ d \in allDaemons
        /\ programs < MaxPrograms
        /\ \/ /\ Dangling({val[m].first : m \in attach})
              /\ Fail("dangling")
              /\ UNCHANGED <<nodes, pending, deferrals>>
           \/ /\ ~Dangling({val[m].first : m \in attach})
              /\ programs' = programs + 1
              /\ val' = [m \in MI |-> IF m \in attach THEN Ask(val[m], d)
                                                    ELSE val[m]]
              /\ \E ok \in SUBSET missing, f \in Orderings(attach \union missing) :
                    /\ pending' = [pending EXCEPT ![d] =
                          @ \o ProgramMessages(d, f, attach, ok)]
                    /\ disabled' = [disabled EXCEPT ![d] =
                          IF attach \union missing = {} THEN @ ELSE {}]
                    /\ comps' = [m \in MI |-> IF m \in ok
                                             THEN comps[m] \union {d}
                                             ELSE comps[m]]
              /\ UNCHANGED <<allDaemons, phase, open, nreq, req, bundle,
                             requestedOn, freed, mi, nodes, deferrals, told,
                             last, fault>>

-----------------------------------------------------------------------------
\* faulty variant: the daemons are not told of the cancellation
CancelQuietly(d, gone) == {}

\* the pairs whose value is deleted are disabled on every daemon
CancelDisables(d, gone) == IF d \in allDaemons THEN gone ELSE {}

(* startPhase.  stopAllCurrentDataCollection disables the instances in     *)
(* "stop" (which ones depends on their users and flags) and deletes those  *)
(* not in "keep"; then cancelOutstandingMetricFocusesInCurrentPhase fails  *)
(* every undecided pair for its current phase requests, and when no global *)
(* request shares it deletes its value and disables it on all daemons.     *)
StartPhase(stop, keep) ==
    LET undecided == {m \in MI : val[m].live /\ val[m].overall \notin Final}
        currentParents == [m \in MI |->
            {r \in val[m].parents : req[r].type = "CurrentPhase"}]
        gone == {m \in undecided : currentParents[m] = val[m].parents}
        cancelled == UNION {currentParents[m] : m \in undecided}
        failure == [m \in MI |-> "failure"]
        hitDangling == Dangling(Parents(val, undecided))
    IN  /\ Running /\ phase < MaxPhase
        /\ \/ /\ hitDangling /\ Fail("dangling")
              /\ UNCHANGED <<nodes, pending, deferrals>>
           \/ /\ ~hitDangling /\ MayReadFreed(cancelled) /\ Fail("freed")
              /\ UNCHANGED <<nodes, pending, deferrals>>
           \/ /\ ~hitDangling /\ ~MustReadFreed(cancelled, val)
              /\ phase' = phase + 1
              /\ mi' = [m \in MI |-> IF m \notin stop THEN mi[m]
                                     ELSE IF m \in keep THEN "idle"
                                     ELSE "deleted"]
              /\ comps' = [m \in MI |-> IF m \in stop THEN {} ELSE comps[m]]
              /\ disabled' = [d \in Daemon |->
                     disabled[d] \union {m \in stop : d \in comps[m]}
                                 \union CancelDisables(d, gone)]
              /\ told' = Tell(undecided, currentParents, failure)
              /\ last' = FlagLast(cancelled, val)
              /\ val' = [m \in MI |-> IF m \in gone THEN NoVal ELSE val[m]]
              /\ freed' = [r \in Req |-> freed[r] \union
                                {m \in gone : r \in val[m].parents}]
              /\ UNCHANGED <<allDaemons, programs, open, nreq, req, bundle,
                             requestedOn, nodes, pending, deferrals, fault>>

(* disableDataCollection by the last user of an enabled instance: its      *)
(* components go, and so does the instance unless its data is persistent.  *)
DisableDataCollection(m) ==
    /\ Running /\ mi[m] = "enabled"
    /\ \E next \in {"idle", "deleted"} : mi' = [mi EXCEPT ![m] = next]
    /\ comps' = [comps EXCEPT ![m] = {}]
    /\ disabled' = [d \in Daemon |-> IF d \in comps[m]
                                     THEN disabled[d] \union {m}
                                     ELSE disabled[d]]
    /\ UNCHANGED <<allDaemons, phase, programs, open, nreq, req, bundle,
                   requestedOn, freed, val, nodes, pending, deferrals, told,
                   last, fault>>

(* clearPersistentData: an instance that is not enabled and was kept for    *)
(* its persistent data goes.  Only a readied instance has such data.       *)
ClearPersistentData(m) ==
    /\ Running /\ mi[m] = "idle" /\ val[m].overall = "success"
    /\ mi' = [mi EXCEPT ![m] = "deleted"]
    /\ UNCHANGED <<allDaemons, phase, programs, open, nreq, req, bundle,
                   requestedOn, freed, val, comps, disabled, nodes, pending,
                   deferrals, told, last, fault>>

DestroyPerformanceStream(c) ==
    /\ Running /\ c \in open
    /\ open' = open \ {c}
    /\ UNCHANGED <<allDaemons, phase, programs, nreq, req, bundle,
                   requestedOn, freed, val, mi, comps, disabled, nodes,
                   pending, deferrals, told, last, fault>>

-----------------------------------------------------------------------------
Enabled == {m \in MI : mi[m] = "enabled"}

\* what the data manager hears from daemon d of its oldest enable message
Answering(d) == \/ EndOfDataCollection(d)
                \/ EnableDataCallback(d)
                \/ EnableDataCollection2(d)

Next ==
    \/ \E c \in Client, mis \in SUBSET MI :
          \/ \E type \in PhaseType : EnableDataRequest(c, mis, type)
          \/ RejectStaleRequest(c, mis)
          \/ DropStaleRequest(c, mis)
    \/ \E d \in Daemon : \/ Answering(d)
                         \/ DeferredCallback(d)
                         \/ AddDaemon(d)
                         \/ NewProgram(d)
    \/ \E stop \in SUBSET Enabled : \E keep \in SUBSET stop :
          StartPhase(stop, keep)
    \/ \E m \in MI : DisableDataCollection(m) \/ ClearPersistentData(m)
    \/ \E c \in Client : DestroyPerformanceStream(c)

Spec == Init /\ [][Next]_vars

(* A daemon's enableDataCollection handler answers before it returns, so a *)
(* daemon that keeps running answers every message.  Nothing obliges a     *)
(* deferred pair to be decided, a client to ask or a phase to start.       *)
Fairness == \A d \in Reliable : WF_vars(Answering(d))

FairSpec == Spec /\ Fairness

-----------------------------------------------------------------------------
(* Properties *)

Value == [live : BOOLEAN, num : Nat, st : [Daemon -> Status],
          overall : Status, sent : BOOLEAN, reported : SUBSET Known,
          parents : SUBSET Req, first : Req \union {0},
          asked : SUBSET Daemon]
Request == [mis : SUBSET MI, type : PhaseType, client : Client]
Messages == [req : Req \union {0}, mis : SUBSET MI, disables : SUBSET MI]
IsAnswer(a) == /\ a.req \in Req
               /\ DOMAIN a.st \subseteq MI
               /\ a.st \in [DOMAIN a.st -> Known]
               /\ a.open \subseteq DOMAIN a.st

(* Every variable has its type. *)
TypeOK ==
    /\ allDaemons \subseteq Daemon
    /\ phase \in 0 .. MaxPhase /\ programs \in 0 .. MaxPrograms
    /\ nreq \in 0 .. NumReq
    /\ open \subseteq Client
    /\ req \in [Req -> Request]
    /\ bundle \in [Req -> {"none", "active", "deleted"}]
    /\ requestedOn \in [Req -> [MI -> SUBSET Daemon]]
    /\ freed \in [Req -> SUBSET MI]
    /\ val \in [MI -> Value]
    /\ \A m \in MI : val[m].live => val[m].first # 0
    /\ mi \in [MI -> {"none", "idle", "enabled", "deleted"}]
    /\ comps \in [MI -> SUBSET Daemon]
    /\ disabled \in [Daemon -> SUBSET MI]
    /\ nodes \in [Daemon -> SUBSET MI]
    /\ pending \in [Daemon -> Seq(Messages)]
    /\ DOMAIN deferrals = Daemon
    /\ \A d \in Daemon : \A a \in deferrals[d] : IsAnswer(a)
    /\ told \in [Req -> [MI -> Seq(Known)]]
    /\ last \in [Req -> BOOLEAN]
    /\ fault \in {"none", "freed", "dangling", "assert"}

Accepted(r) == bundle[r] # "none"
Listening(r) == req[r].client \in open

(* Every focus selects a daemon that is attached from the start: the case  *)
(* in which a value is created with num_daemons = 0 is left out.           *)
FocusMatched == \A m \in MI : Focus[m] \intersect InitialDaemons # {}

(* A deleted bundle is never reached again through the parent list of a    *)
(* value, although deleting a bundle does not take it off that list: by    *)
(* then all its values are decided, and only undecided ones use the list.  *)
NoDanglingBundle == fault # "dangling"

(* Before any phase starts no handler touches a deleted value and the      *)
(* assertion that a daemon's component is new holds.                       *)
FirstPhaseIsSafe == phase = 0 => fault = "none"

(* DMmetricFocusReq.C:140: assert(aflag).  The component that a daemon's   *)
(* success adds is never there already, though a pair may be cancelled     *)
(* when some daemons have succeeded and be asked for again at once: the    *)
(* cancelled pair was disabled on all daemons, and a daemon deletes the    *)
(* node, and says so, before it answers the next enable message.           *)
AddedComponentIsNew == fault # "assert"

(* A client is told of a decided pair whenever it still has its stream:    *)
(* the last thing it heard of the pair is the value's merged state, be it  *)
(* the creator of the value or a request that joined before or after the   *)
(* decision.                                                               *)
DecisionIsTold ==
    \A r \in Req : \A m \in req[r].mis \ freed[r] :
        /\ Accepted(r) /\ Listening(r)
        /\ val[m].overall \in Final
        => told[r][m] # <<>> /\ told[r][m][Len(told[r][m])] = val[m].overall

(* A client that heard a final answer for a pair hears no other, unless    *)
(* it asked in the current phase and a new phase began.                    *)
OneFinalAnswer ==
    \A r \in Req, m \in MI :
        (req[r].type = "CurrentPhase" => phase = 0) =>
            \A i \in 1 .. Len(told[r][m]) :
                told[r][m][i] \in Final => i = Len(told[r][m])

(* Success is reported only when every daemon that was sent the pair,      *)
(* those attached while it was pending included, has answered success.     *)
SuccessIsUnanimous ==
    \A m \in MI : val[m].overall = "success" =>
        \A d \in val[m].asked : val[m].st[d] = "success"

(* When all pairs of a request succeed its client is sent a packet flagged *)
(* as the last, whichever request and daemon the final answer came for.    *)
LastWhenAllSucceed ==
    \A r \in Req :
        /\ Accepted(r) /\ Listening(r) /\ freed[r] = {}
        /\ \A m \in req[r].mis : val[m].overall = "success"
        => last[r]

(* An instance is enabled only if its value succeeded: a decided value is  *)
(* never cancelled under an instance that delivers data.                   *)
EnabledHasSucceeded ==
    \A m \in MI : mi[m] = "enabled" => val[m].overall = "success"

(* After the packet flagged as the last, a request's client hears nothing  *)
(* more for it (the visi thread deletes the request on that flag).         *)
NothingAfterLast ==
    [][\A r \in Req : last[r] => last'[r] /\ told'[r] = told[r]]_vars

(* The merged state of a value that succeeded or failed never changes and  *)
(* the value is never deleted, so later requests may rely on it.           *)
DecisionIsStable ==
    [][\A m \in MI : val[m].overall \in Final =>
          val'[m].live /\ val'[m].overall = val[m].overall]_vars

(* If the daemons a pair was sent to keep answering, a client that keeps   *)
(* its stream is told something of every pair it asked for, or a daemon    *)
(* holds the pair deferred.  (A daemon counted twice for a value is        *)
(* excepted: see DaemonsCountedOnce.)                                      *)
EveryPairIsTold ==
    \A r \in Req, m \in MI :
        (Accepted(r) /\ m \in req[r].mis) ~>
            \/ told[r][m] # <<>>
            \/ ~Listening(r)
            \/ fault # "none"
            \/ val[m].overall = "deferred"
            \/ ~(val[m].asked \subseteq Reliable)
            \/ val[m].num > Cardinality(val[m].asked)

-----------------------------------------------------------------------------
(* The inductive invariant behind the safety properties *)

\* num_daemons bounds the daemons asked, only daemons asked have answered,
\* and the merged state is up to date and was reported once final
ValueInv(v) ==
    /\ In(v.st, Known) \subseteq v.asked
    /\ v.num >= 1 /\ Cardinality(v.asked) <= v.num
    /\ v.overall = Overall(v.st, v.num)
    /\ v.overall \in Final => v.reported \intersect Final # {}
    /\ v.sent /\ v.first \in v.parents

ValuesInv ==
    \A m \in MI : IF val[m].live THEN ValueInv(val[m]) ELSE val[m] = NoVal

\* a value's parents are the bundles that refer to it, and conversely
SharingInv ==
    \A r \in Req, m \in MI :
        r \in val[m].parents <=> Accepted(r) /\ m \in req[r].mis \ freed[r]

DecidedBundle(r) ==
    freed[r] = {} /\ \A m \in req[r].mis : val[m].overall \in Final

ClosedInv ==
    \A r \in Req :
        bundle[r] = "deleted" \/ (last[r] /\ Accepted(r)) => DecidedBundle(r)

FreshInv ==
    \A r \in Req : r > nreq => /\ ~Accepted(r) /\ ~last[r] /\ freed[r] = {}
                              /\ told[r] = [m \in MI |-> <<>>]

\* a message is about values of its bundle that were sent to that daemon
\* (0 stands for no bundle)
Sent(d, r, m) ==
    m \in freed[r] \/ (r \in val[m].parents /\ d \in val[m].asked)

MessageOK(d, r, mis) == r # 0 => Accepted(r) /\ \A m \in mis : Sent(d, r, m)

MessagesInv ==
    \A d \in Daemon :
        /\ \A i \in 1 .. Len(pending[d]) :
              MessageOK(d, pending[d][i].req, pending[d][i].mis)
        /\ \A a \in deferrals[d] : MessageOK(d, a.req, DOMAIN a.st)

(* The state behind the protocol: values count the daemons they were sent  *)
(* to, parent lists and bundles refer to each other, every outstanding     *)
(* message is about a live value, and what is deleted or closed is         *)
(* decided.                                                                *)
ProtocolInv ==
    /\ InitialDaemons \subseteq allDaemons
    /\ ValuesInv /\ SharingInv /\ ClosedInv /\ FreshInv /\ MessagesInv
    /\ EnabledHasSucceeded
    /\ NoDanglingBundle

-----------------------------------------------------------------------------
(* What the repository says of this code and the code does not do. *)

(* DMmain.C:388: "If all daemons have responded then make response         *)
(* callback to calling thread."  A complete bundle is deleted; by then its *)
(* client has had the packet that ends the request.                        *)
CompleteIsAnswered ==
    \A r \in Req : bundle[r] = "deleted" /\ Listening(r) => last[r]

(* DMmain.C:404: "a request entry can be removed if a new phase event      *)
(* occurs between the enable request and response, so ignore the           *)
(* response."  No answer makes a handler use a value a new phase deleted.  *)
LateAnswerIsIgnored == fault # "freed"

(* DMmetric.h:298: enabled is "set if data for mi is currently enabled".   *)
(* An enabled instance has the component of at least one daemon.           *)
EnabledHasComponents == \A m \in MI : mi[m] = "enabled" => comps[m] # {}

(* DMmetricFocusReq.h:80: "we'll just store how many daemons there are.    *)
(* This will allow us to determine when we've received all the requests    *)
(* we're waiting for."  num_daemons is the number of daemons asked.        *)
DaemonsCountedOnce ==
    \A m \in MI : val[m].num = Cardinality(val[m].asked)

-----------------------------------------------------------------------------
(* The protocol implements the service EnableService states.               *)
ServiceStage(v) ==
    IF v.overall \in Final THEN v.overall
    ELSE IF v.reported # {} THEN "deferred" ELSE "open"

Service == INSTANCE EnableService WITH
    kind <- [r \in Req |-> req[r].type],
    wants <- [r \in Req |-> {m \in MI : r \in val[m].parents}],
    listening <- {r \in Req : req[r].client \in open},
    stage <- [m \in MI |-> ServiceStage(val[m])],
    last <- {r \in Req : last[r]}

(* Seen by its clients, the protocol moves each pair forward once, tells   *)
(* every listening client each move and closes a request only when all its *)
(* pairs are decided, whatever order the daemons answer in.                *)
ImplementsService == Service!Spec
=============================================================================
