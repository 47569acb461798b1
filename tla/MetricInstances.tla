--------------------------- MODULE MetricInstances ---------------------------
(***************************************************************************)
(* Metric instances of the data manager and their subscribers.  An         *)
(* instance exists per metric-focus pair while it has users, or while its  *)
(* data is to be kept; it has a histogram for the current phase and one    *)
(* for the global phase.  Subscribers are visi threads and the Performance *)
(* Consultant (PC), which has a search per phase; each belongs to the      *)
(* current or to the global phase.  MetricFocusReq models how the daemons  *)
(* reach a decision; here a decision is one action.                        *)
(*                                                                         *)
(* Calls to the data manager are served in the order a client makes them,  *)
(* so a call is one step; what it sends back waits in the client's inbox.  *)
(***************************************************************************)
EXTENDS Naturals, FiniteSets, Sequences, SequencesExt

CONSTANTS
    Pair,       \* metric-focus pairs
    Visi,       \* visi threads
    PC,         \* searches of the PC (one current, one global at most)
    Curr,       \* the clients that subscribe to the current phase
    MaxId,      \* bound: metric instances ever created
    MaxReq,     \* bound: requests
    MaxPhase    \* bound: phases started after phase 0

ASSUME InstancesAssumption ==
    /\ IsFiniteSet(Pair) /\ Pair # {} /\ IsFiniteSet(Visi) /\ IsFiniteSet(PC)
    /\ Visi \intersect PC = {} /\ Curr \subseteq Visi \union PC
    /\ MaxId \in Nat /\ MaxReq \in Nat /\ MaxPhase \in Nat

Client == Visi \union PC
Id == 1 .. MaxId
NoPhase == MaxPhase + 1     \* no search of the current phase
Histogram == {"none", "active", "inactive"}

VARIABLES
    persistentData,  \* the tunable constant, set before anything is enabled
    inst,       \* allMetricInstances, by handle; those not live do not exist
    nextId,     \* metricInstance::next_id
    val,        \* metricFocusReq_Val::allMetricFocusReqVals, by handle
    parents,    \* the requests that wait for each value
    numCurr,    \* metricInstance::num_curr_hists
    numGlobal,  \* metricInstance::num_global_hists
    rate,       \* the bucket width the daemons sample at: of which phase
    phase,      \* phaseInfo::CurrentPhaseHandle()
    failed,     \* an assertion failed
    cphase,     \* the phase of a current-phase client
    ended,      \* searches that were told of another phase than their own
    pend,       \* pairs a client waits for
    hold,       \* handles a client uses: mrlist, active filters
    again,      \* the handle a visi that exits disables a second time
    life,       \* "open", "closing" or "gone" (its stream is destroyed)
    inbox,      \* what the data manager sent to each client, oldest first
    nreq,       \* requests made so far
    crossed     \* history: pairs of a client whose calls crossed an answer

dm == <<inst, numCurr, numGlobal, rate, failed>>
requests == <<nextId, val, parents, nreq>>
clients == <<cphase, ended, pend, hold, again, life>>
vars == <<persistentData, phase, dm, requests, clients, inbox, crossed>>

NoInst == [live |-> FALSE, pair |-> CHOOSE p \in Pair : TRUE, enabled |-> FALSE,
           users |-> {}, gusers |-> {}, data |-> "none", gdata |-> "none",
           old |-> 0, pdata |-> FALSE, phasepd |-> FALSE]

Deleted(i) == [NoInst EXCEPT !.pair = i.pair]

Reply(id, p, ok, ph) ==
    [kind |-> "reply", id |-> id, pair |-> p, ok |-> ok, phase |-> ph]
Notice(ph) == [kind |-> "phase", phase |-> ph]

Init ==
    /\ persistentData \in BOOLEAN
    /\ inst = [i \in Id |-> NoInst] /\ nextId = 1
    /\ val = [i \in Id |-> "none"] /\ parents = [i \in Id |-> <<>>]
    /\ numCurr = 0 /\ numGlobal = 0 /\ rate = "unset"
    /\ phase = 0 /\ failed = FALSE /\ nreq = 0 /\ crossed = {}
    /\ cphase = [c \in Client |-> NoPhase] /\ ended = {}
    /\ pend = [c \in Client |-> {}] /\ hold = [c \in Client |-> {}]
    /\ again = [c \in Client |-> {}]
    /\ life = [c \in Client |-> "open"]
    /\ inbox = [c \in Client |-> <<>>]

Dec(n) == IF n = 0 THEN 0 ELSE n - 1

-----------------------------------------------------------------------------
(* Operations on an instance. *)

\* faulty variant: the count is taken per request
EveryCurrent(i, curr) == curr # {}

FirstCurrent(i, curr) == curr # {} /\ i.users = {}

(* readyMetricInstanceForSampling, for each request in reqs: users,         *)
(* histograms, persistence flags, the counts and the sampling rate.         *)
WithUsers(i, who) ==
    [i EXCEPT !.enabled = TRUE,
              !.users = @ \union (who \intersect Curr),
              !.gusers = @ \union (who \ Curr),
              !.data = IF who \intersect Curr # {} THEN "active" ELSE @,
              !.gdata = "active",
              !.pdata = @ \/ persistentData \/ who \intersect (PC \ Curr) # {},
              !.phasepd = @ \/ who \intersect PC \intersect Curr # {}]

Ready(id, reqs) ==
    LET who == {r.client : r \in ToSet(reqs)}
        curr == who \intersect Curr
    IN  /\ inst' = [inst EXCEPT ![id] = WithUsers(@, who)]
        /\ numCurr' = IF FirstCurrent(inst[id], curr) THEN numCurr + 1 ELSE numCurr
        /\ numGlobal' = numGlobal + Len(reqs)
        /\ rate' = IF numCurr > 0 THEN rate
                   ELSE IF curr # {} THEN "curr"
                   ELSE IF numGlobal = 0 THEN "global" ELSE rate
        /\ UNCHANGED failed

\* faulty variants: the users of the global phase are forgotten; the rate
\* stays that of a phase nobody watches
IdleForCurrent(i) == i.users = {}
RateKept(n, curr, global) == rate

Idle(i) == i.users = {} /\ i.gusers = {}

(* The last histogram of the current phase is dropped: sample for the other. *)
RateOnDisable(n, curr, global) ==
    IF n > 0 /\ curr = 0 /\ global > 0 THEN "global" ELSE rate

(* DMdisableRoutine, for client c on instance i (handle id). *)
Disable(id, i, c) ==
    LET j == IF c \in Curr THEN [i EXCEPT !.users = @ \ {c}]
                           ELSE [i EXCEPT !.gusers = @ \ {c}]
        keep == i.pdata \/ i.phasepd
        noCurr == j.users = {}
        idle == Idle(j)
        dropCurr == noCurr /\ i.data # "none" /\ (~keep \/ i.users # {})
        dropGlobal == idle /\ (~keep \/ i.gdata # "none")
        Inactive(h) == IF h = "none" THEN h ELSE "inactive"
        k == IF noCurr
             THEN [j EXCEPT !.data = IF keep THEN Inactive(@) ELSE "none"] ELSE j
    IN  IF ~i.live \/ ~i.enabled
        THEN /\ inst' = [inst EXCEPT ![id] = i]
             /\ UNCHANGED <<numCurr, numGlobal, rate, failed>>
        ELSE /\ inst' = [inst EXCEPT ![id] =
                    IF idle /\ ~keep THEN Deleted(i)
                    ELSE IF idle
                    THEN [k EXCEPT !.enabled = FALSE, !.gdata = Inactive(@)]
                    ELSE k]
             /\ numCurr' = IF dropCurr THEN Dec(numCurr) ELSE numCurr
             /\ numGlobal' = IF dropGlobal THEN Dec(numGlobal) ELSE numGlobal
             /\ rate' = IF noCurr THEN RateOnDisable(numCurr, numCurr', numGlobal')
                        ELSE rate
             /\ failed' = (failed \/ (dropCurr /\ numCurr = 0)
                                  \/ (dropGlobal /\ numGlobal = 0))

(* clearPersistentData: what was kept for nobody goes, the instance stays. *)
ClearPersistentData(i) ==
    LET curr == i.pdata /\ i.users = {}
        global == i.pdata /\ ~i.enabled /\ i.gusers = {}
    IN  [i EXCEPT !.phasepd = FALSE, !.pdata = FALSE,
                  !.data = IF curr THEN "none" ELSE @,
                  !.old = IF curr THEN 0 ELSE @,
                  !.gdata = IF global THEN "none" ELSE @]

(* disableDataAndClearPersistentData, as a search of the PC calls it. *)
DisableAndClear(id, c) ==
    Disable(id, IF ~inst[id].live THEN inst[id]
                ELSE IF c \in Curr THEN [inst[id] EXCEPT !.phasepd = FALSE]
                ELSE ClearPersistentData(inst[id]), c)

-----------------------------------------------------------------------------
(* Requests and their answers. *)

(* metricInstance::find, else a new instance. *)
Find(p) == {id \in Id : inst[id].live /\ inst[id].pair = p}

Send(c, m) == inbox' = [inbox EXCEPT ![c] = Append(@, m)]

(* enableDataRequest(2) and DMdoEnableData with one pair.  A request for a *)
(* phase that is over fails, or for the PC is dropped.                     *)
Request(c, p) ==
    LET req == [client |-> c, phase |-> IF c \in Curr THEN cphase[c] ELSE NoPhase]
        stale == c \in Curr /\ cphase[c] # phase
        id == IF Find(p) = {} THEN nextId ELSE CHOOSE i \in Find(p) : TRUE
        new == Find(p) = {}
    IN  /\ nreq' = nreq + 1
        /\ pend' = [pend EXCEPT ![c] = @ \union {p}]
        /\ \/ /\ stale
              /\ IF c \in Visi THEN Send(c, Reply(0, p, FALSE, req.phase))
                               ELSE UNCHANGED inbox
              /\ UNCHANGED <<dm, nextId, val, parents>>
           \/ /\ ~stale /\ id \in Id
              /\ nextId' = IF new THEN nextId + 1 ELSE nextId
              /\ \/ /\ val[id] \in {"none", "undecided"}
                    /\ val' = [val EXCEPT ![id] = "undecided"]
                    /\ parents' = [parents EXCEPT ![id] = Append(@, req)]
                    /\ inst' = [inst EXCEPT ![id].live = TRUE, ![id].pair = p]
                    /\ UNCHANGED <<numCurr, numGlobal, rate, failed, inbox>>
                 \/ /\ val[id] = "success"
                    /\ Ready(id, <<req>>)
                    /\ Send(c, Reply(id, p, TRUE, req.phase))
                    /\ UNCHANGED <<val, parents>>
                 \/ /\ val[id] = "failure"
                    /\ Send(c, Reply(id, p, FALSE, req.phase))
                    /\ UNCHANGED <<dm, val, parents>>

Outstanding(c, p) == \E id \in Id :
    /\ inst[id].live /\ inst[id].pair = p
    /\ \/ \E r \in ToSet(parents[id]) : r.client = c
       \/ \E m \in ToSet(inbox[c]) : m.kind = "reply" /\ m.id = id

(* A visi asks for pairs it does not wait for yet; the filter of a search   *)
(* asks when it is neither pending nor active, perhaps before the answer to *)
(* a request that it cancelled has come.                                    *)
Enable(c, p) ==
    /\ life[c] = "open" /\ nreq < MaxReq
    /\ c \in Curr => cphase[c] # NoPhase
    /\ p \notin pend[c]
    /\ c \in PC => ~\E id \in hold[c] : inst[id].live /\ inst[id].pair = p
    /\ Request(c, p)
    /\ crossed' = IF Outstanding(c, p) THEN crossed \union {<<c, p>>} ELSE crossed
    /\ UNCHANGED <<persistentData, phase, cphase, ended, hold, again, life>>

\* what the value of id sends to client c: a reply per request of c
Replies(c, id, ok) ==
    FlattenSeq([n \in DOMAIN parents[id] |->
        IF parents[id][n].client # c THEN <<>>
        ELSE <<Reply(id, inst[id].pair, ok, parents[id][n].phase)>>])

Tell(id, ok) ==
    inbox' = [c \in Client |-> IF life[c] = "gone" THEN inbox[c]
                               ELSE inbox[c] \o Replies(c, id, ok)]

(* updateWithEnableCallback, when the daemons' answers decide the value:    *)
(* every request is answered, also those of a phase that is over.           *)
Answer(id, ok) ==
    /\ val[id] = "undecided"
    /\ val' = [val EXCEPT ![id] = IF ok THEN "success" ELSE "failure"]
    /\ parents' = [parents EXCEPT ![id] = <<>>]
    /\ Tell(id, ok)
    /\ IF ok
       THEN /\ Ready(id, parents[id])
            /\ crossed' = crossed \union
                 {<<r.client, inst[id].pair>> : r \in {q \in ToSet(parents[id]) :
                                    q.client \in Curr /\ q.phase # phase}}
       ELSE UNCHANGED <<dm, crossed>>
    /\ UNCHANGED <<persistentData, phase, nextId, nreq, clients>>

\* faulty variants: data that is to be kept is deleted; the count only
\* goes down for histograms that are deleted
ArchiveNothing(i) == i.old
EndedIfDeleted(i) == ~i.pdata /\ i.data # "none"

Archived(i) == IF i.pdata /\ i.data # "none" THEN i.old + 1 ELSE i.old
Ended(i) == IF i.pdata THEN i.data = "active" ELSE i.data # "none"

(* stopAllCurrentDataCollection, for one instance. *)
Stopped(i) ==
    LET disabled == i.enabled /\ i.gusers = {}
    IN  IF disabled /\ ~i.pdata THEN Deleted(i)
        ELSE [i EXCEPT !.users = {}, !.phasepd = FALSE, !.data = "none",
                       !.old = Archived(i),
                       !.enabled = @ /\ i.gusers # {}]

(* phaseInfo::startPhase with cancelOutstandingMetricFocusesInCurrentPhase: *)
(* undecided values fail for the requests of the current phase and are      *)
(* dropped if they have no other; then every stream hears of the phase.     *)
StartPhase ==
    LET stopped == {id \in Id : inst[id].enabled /\ inst[id].gusers = {}}
        dropped == {id \in Id : Ended(inst[id])}
        Less(n, S) == IF n > Cardinality(S) THEN n - Cardinality(S) ELSE 0
        undecided == {id \in Id : val[id] = "undecided"}
        globally == {id \in undecided : \E r \in ToSet(parents[id]) : r.client \notin Curr}
    IN  /\ phase < MaxPhase /\ phase' = phase + 1
        /\ inst' = [id \in Id |-> Stopped(inst[id])]
        /\ numCurr' = Less(numCurr, dropped)
        /\ numGlobal' = Less(numGlobal, stopped)
        /\ rate' = IF numCurr' > 0 THEN "curr" ELSE "global"
        /\ val' = [id \in Id |-> IF id \in undecided \ globally THEN "none" ELSE val[id]]
        /\ parents' = [id \in Id |-> IF id \in undecided \ globally THEN <<>> ELSE parents[id]]
        /\ inbox' = [c \in Client |->
               IF c \notin Curr \/ life[c] = "gone" THEN inbox[c]
               ELSE inbox[c]
                    \o FlattenSeq([id \in Id |-> IF id \in undecided THEN Replies(c, id, FALSE)
                                               ELSE <<>>])
                    \o (IF c \in PC THEN <<Notice(phase')>> ELSE <<>>)]
        /\ UNCHANGED <<persistentData, failed, nextId, nreq, clients, crossed>>

-----------------------------------------------------------------------------
(* Clients. *)

(* A visi of the current phase is started; or addSearch makes a search of   *)
(* it, which the UI may ask for before the PC hears of the phase.           *)
Begin(c) ==
    /\ c \in Curr /\ cphase[c] # phase
    /\ c \in Visi => cphase[c] = NoPhase
    /\ cphase' = [cphase EXCEPT ![c] = phase] /\ ended' = ended \ {c}
    /\ pend' = [pend EXCEPT ![c] = {}]
    /\ hold' = [hold EXCEPT ![c] = {}]
    /\ UNCHANGED <<persistentData, phase, dm, requests, again, life, inbox, crossed>>

Pop(c) == inbox' = [inbox EXCEPT ![c] = Tail(@)]

(* VISIthreadEnableCallback *)
ReceiveVisi(c) ==
    /\ c \in Visi /\ life[c] = "open" /\ inbox[c] # <<>>
    /\ LET m == Head(inbox[c]) IN
          /\ pend' = [pend EXCEPT ![c] = @ \ {m.pair}]
          /\ hold' = [hold EXCEPT ![c] = IF m.ok THEN @ \union {m.id} ELSE @]
    /\ Pop(c)
    /\ UNCHANGED <<persistentData, phase, dm, requests, cphase, ended, again, life,
                   crossed>>

\* faulty variant: an answer nobody waits for any more is ignored
IgnoreUnwanted(c, id) == UNCHANGED dm

UndoUnwanted(c, id) == DisableAndClear(id, c)

\* the search of the current phase is that of the reply
Wanted(c, m) == c \in Curr => m.phase = cphase[c] /\ c \notin ended

(* PCenableDataCallback and newDataEnabled: a reply for another phase is    *)
(* dropped, one for an active filter ignored, and one that is no longer     *)
(* wanted undone.                                                           *)
ReceivePC(c) ==
    /\ c \in PC /\ inbox[c] # <<>> /\ Head(inbox[c]).kind = "reply"
    /\ LET m == Head(inbox[c]) IN
       \/ /\ ~Wanted(c, m) \/ m.id \in hold[c]
          /\ UNCHANGED <<dm, pend, hold>>
       \/ /\ Wanted(c, m) /\ m.id \notin hold[c]
          /\ IF m.pair \notin pend[c]
             THEN /\ UndoUnwanted(c, m.id)
                  /\ UNCHANGED <<pend, hold>>
             ELSE /\ pend' = [pend EXCEPT ![c] = @ \ {m.pair}]
                  /\ hold' = [hold EXCEPT ![c] = IF m.ok THEN @ \union {m.id} ELSE @]
                  /\ UNCHANGED dm
    /\ Pop(c)
    /\ UNCHANGED <<persistentData, phase, requests, cphase, ended, again, life, crossed>>

(* PCphase and updateCurrentPhase: the PC ends its search of the current    *)
(* phase unless it is that of the notice; also one of a newer phase.  Its   *)
(* filters stay, but replies to it are dropped from now on.                 *)
HearOfPhase(c) ==
    /\ c \in PC /\ inbox[c] # <<>> /\ Head(inbox[c]).kind = "phase"
    /\ ended' = IF cphase[c] \in {NoPhase, Head(inbox[c]).phase} THEN ended
                ELSE ended \union {c}
    /\ Pop(c)
    /\ UNCHANGED <<persistentData, phase, dm, requests, cphase, pend, hold, again,
                   life, crossed>>

(* cancelSubRequest: nothing is sent, the reply is undone when it comes.    *)
CancelSubRequest(c, p) ==
    /\ c \in PC /\ p \in pend[c]
    /\ pend' = [pend EXCEPT ![c] = @ \ {p}]
    /\ UNCHANGED <<persistentData, phase, dm, requests, cphase, ended, hold, again,
                   life, inbox, crossed>>

(* inActivateFilter *)
InActivateFilter(c, id) ==
    /\ c \in PC /\ id \in hold[c]
    /\ DisableAndClear(id, c)
    /\ hold' = [hold EXCEPT ![c] = @ \ {id}]
    /\ UNCHANGED <<persistentData, phase, requests, cphase, ended, pend, again, life,
                   inbox, crossed>>

(* StopMetricResource *)
StopMetricResource(c, id) ==
    /\ c \in Visi /\ life[c] = "open" /\ id \in hold[c]
    /\ Disable(id, inst[id], c)
    /\ hold' = [hold EXCEPT ![c] = @ \ {id}]
    /\ crossed' = crossed \union ({c} \X (pend[c] \intersect {inst[id].pair}))
    /\ UNCHANGED <<persistentData, phase, requests, cphase, ended, pend, again, life,
                   inbox>>

(* The visi process ends: VISIthreadmain leaves its loop, whatever it still *)
(* waits for, disables each pair twice and destroys its streams.            *)
Quit(c) ==
    /\ c \in Visi /\ life[c] = "open"
    /\ life' = [life EXCEPT ![c] = "closing"]
    /\ UNCHANGED <<persistentData, phase, dm, requests, cphase, ended, pend, hold,
                   again, inbox, crossed>>

DisableOnExit(c) ==
    /\ life[c] = "closing"
    /\ \E id \in IF again[c] # {} THEN again[c] ELSE hold[c] :
          /\ Disable(id, inst[id], c)
          /\ again' = [again EXCEPT ![c] = IF @ = {} THEN {id} ELSE {}]
          /\ hold' = [hold EXCEPT ![c] = @ \ {id}]
    /\ UNCHANGED <<persistentData, phase, requests, cphase, ended, pend, life, inbox, crossed>>

DestroyPerformanceStream(c) ==
    /\ life[c] = "closing" /\ hold[c] = {} /\ again[c] = {}
    /\ life' = [life EXCEPT ![c] = "gone"]
    /\ inbox' = [inbox EXCEPT ![c] = <<>>]
    /\ UNCHANGED <<persistentData, phase, dm, requests, cphase, ended, pend, hold,
                   again, crossed>>

-----------------------------------------------------------------------------
Receive(c) == ReceiveVisi(c) \/ ReceivePC(c) \/ HearOfPhase(c)
Exit(c) == DisableOnExit(c) \/ DestroyPerformanceStream(c)

Next ==
    \/ \E c \in Client, p \in Pair : Enable(c, p) \/ CancelSubRequest(c, p)
    \/ \E c \in Client, id \in Id :
           InActivateFilter(c, id) \/ StopMetricResource(c, id)
    \/ \E c \in Client : Begin(c) \/ Receive(c) \/ Quit(c) \/ Exit(c)
    \/ \E id \in Id, ok \in BOOLEAN : Answer(id, ok)
    \/ StartPhase

Spec == Init /\ [][Next]_vars

-----------------------------------------------------------------------------
Crossed(id, c) == <<c, inst[id].pair>> \in crossed
UsersOf(id, c) == IF c \in Curr THEN inst[id].users ELSE inst[id].gusers

Instance == [live : BOOLEAN, pair : Pair, enabled : BOOLEAN,
             users : SUBSET Client, gusers : SUBSET Client,
             data : Histogram, gdata : Histogram, old : 0 .. MaxPhase,
             pdata : BOOLEAN, phasepd : BOOLEAN]
Answers == [kind : {"reply"}, id : 0 .. MaxId, pair : Pair, ok : BOOLEAN,
            phase : 0 .. NoPhase]
Notices == [kind : {"phase"}, phase : 0 .. MaxPhase]

(* Types of the variables. *)
TypeOK ==
    /\ inst \in [Id -> Instance]
    /\ persistentData \in BOOLEAN /\ failed \in BOOLEAN
    /\ nextId \in 1 .. MaxId + 1 /\ nreq \in 0 .. MaxReq
    /\ val \in [Id -> {"none", "undecided", "success", "failure"}]
    /\ parents \in [Id -> Seq([client : Client, phase : 0 .. NoPhase])]
    /\ numCurr \in 0 .. Cardinality(Pair) /\ numGlobal \in Nat
    /\ rate \in {"unset", "curr", "global"}
    /\ phase \in 0 .. MaxPhase
    /\ cphase \in [Client -> 0 .. NoPhase] /\ ended \subseteq PC \intersect Curr
    /\ pend \in [Client -> SUBSET Pair]
    /\ hold \in [Client -> SUBSET Id] /\ again \in [Client -> SUBSET Id]
    /\ life \in [Client -> {"open", "closing", "gone"}]
    /\ inbox \in [Client -> Seq(Answers \union Notices)]
    /\ crossed \subseteq Client \X Pair

(* What a client of a phase that is not over uses is collected for it: the  *)
(* disables of the others, late replies and second disables never stop it.  *)
HeldIsCollected ==
    \A c \in Client : \A id \in hold[c] :
        \/ c \in Curr /\ cphase[c] # phase
        \/ Crossed(id, c)
        \/ /\ inst[id].live /\ inst[id].enabled /\ c \in UsersOf(id, c)
           /\ inst[id].gdata = "active"
           /\ c \in Curr => inst[id].data = "active"

(* Nothing is collected for nobody: an enabled instance has users, and each *)
(* of them holds the pair, or will hear that it does, unless it left before *)
(* it was told or its calls crossed an answer.                              *)
OkInInbox(c, id) ==
    \E n \in DOMAIN inbox[c] :
        inbox[c][n].kind = "reply" /\ inbox[c][n].id = id /\ inbox[c][n].ok
NoOrphan ==
    /\ \A id \in Id : inst[id].enabled => ~Idle(inst[id])
    /\ \A id \in Id : \A c \in Client :
        c \in UsersOf(id, c) =>
            \/ id \in hold[c]
            \/ OkInInbox(c, id)
            \/ life[c] # "open" /\ inst[id].pair \in pend[c]
            \/ c \in ended
            \/ Crossed(id, c)

(* The two counters steer the sampling rate.  num_curr_hists counts the     *)
(* active histograms of the current phase, num_global_hists at least the    *)
(* instances that are enabled, and no assertion on them fails.              *)
CountsFit ==
    /\ numCurr = Cardinality({id \in Id : inst[id].data = "active"})
    /\ numGlobal >= Cardinality({id \in Id : inst[id].enabled})
    /\ ~failed

(* The daemons sample at the width of the current phase while it has an     *)
(* active histogram, else at that of the global phase.                      *)
RateFits ==
    /\ (\E id \in Id : inst[id].data = "active") => rate = "curr"
    /\ (\E id \in Id : inst[id].enabled)
       /\ (\A id \in Id : inst[id].data # "active") => rate = "global"

(* While data is flagged to be kept it is: a histogram of the current phase *)
(* stays or is archived, the archive and the global one stay; a phase's     *)
(* data that is flagged for the phase stays until the next.                 *)
DataKept == [][\A id \in Id :
    /\ inst[id].pdata /\ inst'[id].pdata =>
          /\ inst[id].gdata # "none" => inst'[id].gdata # "none"
          /\ inst'[id].old >= inst[id].old
          /\ inst[id].data # "none" =>
                inst'[id].data # "none" \/ inst'[id].old > inst[id].old
    /\ inst[id].phasepd /\ inst'[id].phasepd /\ inst[id].data # "none" =>
          inst'[id].data # "none"
  ]_vars
=============================================================================
