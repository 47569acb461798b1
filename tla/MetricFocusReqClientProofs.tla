---------------------- MODULE MetricFocusReqClientProofs ----------------------
(***************************************************************************)
(* What the clients of the enable protocol can rely on, for every instance *)
(* in which each focus selects a daemon that is attached from the start:   *)
(* they are told each decision, once, and the last packet comes; before    *)
(* any phase starts no handler goes wrong; and the protocol as a whole     *)
(* implements the service that EnableService describes.                    *)
(***************************************************************************)
EXTENDS MetricFocusReqProofs

(* A value's reports follow its merged state: a final state is reported    *)
(* once it is reached and a deferral unless a final state came first.      *)
ReportedInv ==
    \A m \in MI :
        /\ val[m].reported \intersect Final # {} => val[m].overall \in Final
        /\ val[m].overall = "deferred" => val[m].reported # {}

\* requests that hear of a pair only by the answers of the daemons
Undisturbed(r) == req[r].type = "CurrentPhase" => phase = 0

(* A request hears nothing final of a pair that is undecided.              *)
QuietInv ==
    \A r \in Req, m \in MI :
        Undisturbed(r) /\ r \in val[m].parents /\ val[m].overall \notin Final
        => \A i \in 1 .. Len(told[r][m]) : told[r][m][i] \notin Final

(* Until a phase starts no value is deleted, and an instance has the       *)
(* component of a daemon only if that daemon, or all, said success.        *)
FirstPhaseInv ==
    phase = 0 =>
        /\ fault = "none"
        /\ \A r \in Req : freed[r] = {}
        /\ \A m \in MI : \A d \in comps[m] :
              val[m].st[d] = "success" \/ val[m].overall = "success"

ClientInv ==
    /\ ReportedInv /\ QuietInv /\ FirstPhaseInv
    /\ DecisionIsTold /\ OneFinalAnswer /\ LastWhenAllSucceed

-----------------------------------------------------------------------------
(* The steps of the protocol as its clients see them *)

\* a step that clients do not notice
Unheard ==
    /\ UNCHANGED <<phase, open, req, freed, told, last>>
    /\ \A r \in Req : Accepted(r)' <=> Accepted(r)
    /\ \A m \in MI : /\ val'[m].parents = val[m].parents
                     /\ val'[m].overall = val[m].overall
                     /\ val'[m].reported = val[m].reported
                     /\ val'[m].st = val[m].st

\* an answer is merged, and the pairs in S are reported
Answered(S) ==
    /\ \A m \in MI :
          /\ val'[m].live = val[m].live /\ val'[m].parents = val[m].parents
          /\ val[m].overall \in Final => val'[m].overall = val[m].overall
          /\ \A e \in Daemon : val[m].st[e] = "success" => val'[m].st[e] = "success"
    /\ \A m \in S : /\ val[m].overall \notin Final /\ val'[m].overall \in Known
                    /\ val'[m].overall = "deferred" => val[m].reported = {}
                    /\ val'[m].reported = val[m].reported \union {val'[m].overall}
    /\ \A m \in MI \ S : /\ val'[m].reported = val[m].reported
                         /\ val'[m] = val[m] \/ ~ShouldReport(val'[m])
    /\ told' = [r \in Req |-> [m \in MI |->
          IF m \in S /\ r \in val[m].parents /\ Listening(r)
          THEN Append(told[r][m], val'[m].overall) ELSE told[r][m]]]
    /\ \A r \in Req : last'[r] <=>
          last[r] \/ /\ \E m \in S : r \in val[m].parents
                     /\ Listening(r) /\ freed[r] = {}
                     /\ \A m \in req[r].mis : IsEachDaemonComplete(val'[m])
    /\ \A m \in MI : \A e \in comps'[m] : e \in comps[m] \/ val'[m].st[e] = "success"
    /\ \A r \in Req : Accepted(r)' <=> Accepted(r)
    /\ UNCHANGED <<phase, open, req, freed, fault>>

\* request r of client c joins the values of the pairs in mis
Joined(r, c, mis, type) ==
    /\ r > nreq /\ c \in open /\ mis # {}
    /\ req' = [req EXCEPT ![r] = [mis |-> mis, type |-> type, client |-> c]]
    /\ \A m \in MI : /\ val'[m].parents = val[m].parents \union
                           (IF m \in mis THEN {r} ELSE {})
                     /\ val'[m].overall = val[m].overall
                     /\ val'[m].reported = val[m].reported
                     /\ val'[m].st = val[m].st
    /\ told' = [told EXCEPT ![r] = [m \in MI |->
          IF m \in mis /\ val[m].overall # "unknown"
          THEN <<val[m].overall>> ELSE <<>>]]
    /\ \A q \in Req \ {r} : last'[q] = last[q]
    /\ last'[r] <=> /\ \E m \in mis : val[m].overall # "unknown"
                    /\ \A m \in mis : IsEachDaemonComplete(val'[m])
    /\ \A q \in Req : Accepted(q)' <=> Accepted(q) \/ q = r
    /\ UNCHANGED <<phase, open, freed, comps, fault>>

Undecided == {m \in MI : val[m].live /\ val[m].overall \notin Final}
Gone == {m \in Undecided : \A r \in val[m].parents : req[r].type = "CurrentPhase"}

\* a phase starts, and the pairs that are undecided fail
PhaseStarted ==
    /\ phase' # 0
    /\ told' = [r \in Req |-> [m \in MI |->
          IF /\ m \in Undecided /\ r \in val[m].parents
             /\ req[r].type = "CurrentPhase" /\ Listening(r)
          THEN Append(told[r][m], "failure") ELSE told[r][m]]]
    /\ val' = [m \in MI |-> IF m \in Gone THEN NoVal ELSE val[m]]
    /\ \A r \in Req : freed'[r] = freed[r] \union {m \in Gone : r \in val[m].parents}
    /\ last' = last
    /\ UNCHANGED <<open, req, bundle, fault>>

(* An answer merged into the values is a step its clients see as Answered: *)
(* only pairs that were undecided are reported.                            *)
LEMMA UpdateIsSeen ==
    ASSUME TypeOK, StateInv, NEW r \in Req, NEW d \in Daemon,
           NEW D \in SUBSET MI, NEW st \in [D -> Known],
           MessageOK(d, r, D), bundle[r] = "active", NEW lost \in SUBSET D,
           UpdateWithEnableCallback(r, d, st, lost),
           ~(Fail("freed") \/ Fail("assert"))
    PROVE  \E S \in SUBSET MI : Answered(S)
  <1> DEFINE news == {m \in D : Reportable(val[m].st[d], st[m])}
             now == [m \in MI |->
                       IF m \in news THEN SetNewDmnState(val[m], d, st[m])
                                     ELSE val[m]]
             report == {m \in news : ShouldReport(now[m])}
             clients == Parents(val, report)
             newState == [m \in MI |-> now[m].overall]
             parentsOf == [m \in MI |-> val[m].parents]
  <1>0. DOMAIN st = D
    OBVIOUS
  <1>1. D \intersect freed[r] = {}
    BY <1>0 DEF UpdateWithEnableCallback
  <1>2. \A m \in D : /\ r \in val[m].parents /\ d \in val[m].asked
                    /\ val[m].live /\ ValueInv(val[m]) /\ val[m] \in Value
    <2>1. \A m \in D : r \in val[m].parents /\ d \in val[m].asked
      BY <1>1 DEF MessageOK, Sent, Req
    <2> QED
      BY <2>1, ParentsLive DEF StateInv
  <1>3. Settled /\ NoDanglingBundle'
    BY InvUpdate DEF StateInv
  <1>4. ~Fail("dangling")
    BY <1>3 DEF Fail, NoDanglingBundle
  <1>5. /\ val' = [m \in MI |->
                IF m \in report
                THEN [now[m] EXCEPT !.reported = @ \union {now[m].overall}]
                ELSE now[m]]
        /\ comps' = [m \in MI |->
                IF m \in news /\ st[m] = "success"
                THEN comps[m] \union {d} ELSE WithoutComponents(lost, d)[m]]
        /\ told' = Tell(report, parentsOf, newState)
        /\ last' = FlagLast(clients, now)
        /\ bundle' = IF IsBundleComplete(r, now)
                     THEN [bundle EXCEPT ![r] = "deleted"] ELSE bundle
        /\ UNCHANGED <<allDaemons, phase, programs, open, nreq, req,
                       requestedOn, freed, fault>>
    BY <1>0, <1>4 DEF UpdateWithEnableCallback
  \* the values after the merge
  <1>6. \A m \in MI : /\ now[m] \in Value /\ now[m].live = val[m].live
                      /\ now[m].parents = val[m].parents
                      /\ now[m].reported = val[m].reported
    BY <1>2, SetNewDmnStateType DEF TypeOK
  <1>7. \A m \in news : now[m].st = [val[m].st EXCEPT ![d] = st[m]]
    <2> SUFFICES ASSUME NEW m \in news
                 PROVE  SetNewDmnState(val[m], d, st[m]).st
                          = [val[m].st EXCEPT ![d] = st[m]]
      OBVIOUS
    <2>1. val[m] \in Value
      BY <1>2
    <2> QED
      BY <2>1 DEF SetNewDmnState, Value
  <1>8. \A m \in MI \ news : now[m] = val[m]
    OBVIOUS
  <1>9. /\ news \subseteq D /\ report \subseteq news
        /\ \A m \in report : ShouldReport(now[m])
        /\ \A m \in news \ report : ~ShouldReport(now[m])
        /\ \A m \in news : val[m].st[d] # "success"
    BY DEF Reportable, Final
  <1> HIDE DEF now, news, report
  <1>10. \A m \in MI :
            /\ val'[m].live = val[m].live /\ val'[m].parents = val[m].parents
            /\ val'[m].st = now[m].st /\ val'[m].num = now[m].num
            /\ val'[m].overall = now[m].overall
            /\ m \in report => val'[m].reported = val[m].reported \union {now[m].overall}
            /\ m \notin report => val'[m] = now[m]
    BY <1>5, <1>6 DEF Value
  <1>11. ASSUME NEW m \in MI, NEW e \in Daemon, val[m].st[e] = "success"
         PROVE  val'[m].st[e] = "success"
    <2>1. CASE m \in news
      <3>1. e # d
        BY <1>9, <1>11, <2>1
      <3>2. val[m].st \in [Daemon -> Status]
        BY DEF TypeOK, Value
      <3>3. now[m].st[e] = val[m].st[e]
        BY <1>7, <2>1, <3>1, <3>2
      <3> QED
        BY <1>10, <1>11, <3>3
    <2>2. CASE m \notin news
      BY <1>8, <1>10, <1>11, <2>2
    <2> QED
      BY <2>1, <2>2
  <1>12. \A m \in MI : val[m].overall \in Final => val'[m].overall = val[m].overall
    BY <1>3 DEF Settled
  <1>13. ASSUME NEW m \in report
         PROVE  /\ val[m].overall \notin Final /\ val'[m].overall \in Known
                /\ val'[m].overall = "deferred" => val[m].reported = {}
                /\ val'[m].reported = val[m].reported \union {val'[m].overall}
    <2>1. m \in MI /\ m \in D /\ ShouldReport(now[m])
      BY <1>9
    <2>2. val[m].overall \in Final => val[m].reported \intersect Final # {}
      BY <1>2, <2>1 DEF ValueInv
    <2>3. /\ now[m].overall = val'[m].overall /\ now[m].reported = val[m].reported
          /\ val'[m].reported = val[m].reported \union {val'[m].overall}
      BY <1>6, <1>10, <2>1
    <2>4. val[m].overall \notin Final
      BY <1>12, <2>1, <2>2, <2>3 DEF ShouldReport, Final
    <2> QED
      BY <2>1, <2>3, <2>4 DEF ShouldReport, Known, Final
  <1>14. ASSUME NEW m \in MI \ report
         PROVE  /\ val'[m].reported = val[m].reported
                /\ val'[m] = val[m] \/ ~ShouldReport(val'[m])
    BY <1>6, <1>8, <1>9, <1>10
  <1>15. report \subseteq MI
    BY <1>9
  <1>16. told' = [q \in Req |-> [m \in MI |->
            IF m \in report /\ q \in val[m].parents /\ Listening(q)
            THEN Append(told[q][m], val'[m].overall) ELSE told[q][m]]]
    <2>1. \A m \in MI : newState[m] = val'[m].overall /\ parentsOf[m] = val[m].parents
      BY <1>10
    <2> HIDE DEF newState, parentsOf
    <2> QED
      BY <1>5, <2>1 DEF Tell, Listening
  <1>17. ASSUME NEW q \in Req
         PROVE  last'[q] <=>
                  last[q] \/ /\ \E m \in report : q \in val[m].parents
                             /\ Listening(q) /\ freed[q] = {}
                             /\ \A m \in req[q].mis : IsEachDaemonComplete(val'[m])
    <2>1. q \in clients <=> \E m \in report : q \in val[m].parents
      BY DEF Parents
    <2>2. \A m \in req[q].mis : IsEachDaemonComplete(now[m]) <=> IsEachDaemonComplete(val'[m])
      BY <1>10 DEF IsEachDaemonComplete, TypeOK, Request
    <2>3. IsBundleComplete(q, now) <=>
            freed[q] = {} /\ \A m \in req[q].mis : IsEachDaemonComplete(val'[m])
      BY <2>2 DEF IsBundleComplete
    <2>4. last[q] \in BOOLEAN
      BY DEF TypeOK
    <2>5. last'[q] = (last[q] \/ ( /\ q \in clients
                                   /\ req[q].client \in open
                                   /\ IsBundleComplete(q, now)))
      BY <1>5 DEF FlagLast
    <2> HIDE DEF clients
    <2> QED
      BY <2>1, <2>3, <2>4, <2>5 DEF Listening
  <1>18. ASSUME NEW m \in MI, NEW e \in comps'[m]
         PROVE  e \in comps[m] \/ val'[m].st[e] = "success"
    <2>1. CASE m \in news /\ st[m] = "success"
      <3>1. val'[m].st[d] = "success"
        <4>1. val[m].st \in [Daemon -> Status]
          BY DEF TypeOK, Value
        <4> QED
          BY <1>7, <1>10, <2>1, <4>1
      <3> QED
        BY <1>5, <1>18, <2>1, <3>1
    <2>2. CASE ~(m \in news /\ st[m] = "success")
      BY <1>5, <1>18, <2>2 DEF WithoutComponents
    <2> QED
      BY <2>1, <2>2
  <1>19. \A q \in Req : Accepted(q)' <=> Accepted(q)
    BY <1>5 DEF Accepted, TypeOK
  <1>20. UNCHANGED <<phase, open, req, freed, fault>>
    BY <1>5
  <1>21. Answered(report)
    BY <1>10, <1>11, <1>12, <1>13, <1>14, <1>16, <1>17, <1>18, <1>19, <1>20
    DEF Answered
  <1> QED
    BY <1>15, <1>21

(* A daemon's answer is handled for a bundle it is sound for.              *)
LEMMA CallbackDelivers ==
    ASSUME TypeOK, MessagesInv, NEW d \in Daemon,
           EnableDataCallback(d) \/ DeferredCallback(d)
    PROVE  \E r \in Req, D \in SUBSET MI :
             \E st \in [D -> Known], lost \in SUBSET D :
                MessageOK(d, r, D) /\ Deliver(r, d, st, lost) /\ Running
  <1>1. CASE EnableDataCallback(d)
    <2>1. PICK st \in [Head(pending[d]).mis -> Known],
               lost \in SUBSET Head(pending[d]).mis :
             Deliver(Head(pending[d]).req, d, st, lost)
      BY <1>1, AnswerParts
    <2>2. /\ pending[d] \in Seq(Messages) /\ pending[d] # <<>> /\ Running
          /\ Head(pending[d]).req # 0
      BY <1>1 DEF EnableDataCallback, TypeOK
    <2>3. Len(pending[d]) >= 1 /\ Head(pending[d]) = pending[d][1]
      BY <2>2
    <2>4. /\ Head(pending[d]).req \in Req /\ Head(pending[d]).mis \in SUBSET MI
          /\ MessageOK(d, Head(pending[d]).req, Head(pending[d]).mis)
      BY <2>2, <2>3, MessageTypes DEF MessagesInv
    <2> QED
      BY <2>1, <2>2, <2>4
  <1>2. CASE DeferredCallback(d)
    <2>1. PICK a \in deferrals[d] :
             \E lost \in SUBSET DOMAIN a.st, st \in [DOMAIN a.st -> Known] :
                Running /\ Deliver(a.req, d, st, lost)
      BY <1>2, DeferredParts
    <2>2. IsAnswer(a) /\ MessageOK(d, a.req, DOMAIN a.st)
      BY DEF TypeOK, MessagesInv
    <2> QED
      BY <2>1, <2>2 DEF IsAnswer
  <1> QED
    BY <1>1, <1>2

(* A daemon's answer that does no harm is unheard or seen as Answered.     *)
LEMMA CallbackIsSeen ==
    ASSUME TypeOK, ProtocolInv, NEW d \in Daemon,
           EnableDataCallback(d) \/ DeferredCallback(d)
    PROVE  Unheard \/ \E S \in SUBSET MI : Answered(S) /\ fault = "none"
  <1>0. StateInv /\ MessagesInv
    BY DEF ProtocolInv, StateInv
  <1>1. PICK r \in Req, D \in SUBSET MI :
           \E st \in [D -> Known], lost \in SUBSET D :
              MessageOK(d, r, D) /\ Deliver(r, d, st, lost) /\ Running
    BY <1>0, CallbackDelivers
  <1>2. PICK st \in [D -> Known], lost \in SUBSET D :
           MessageOK(d, r, D) /\ Deliver(r, d, st, lost) /\ Running
    BY <1>1
  <1>3. CASE bundle[r] = "active" /\ ~(Fail("freed") \/ Fail("assert"))
    BY <1>0, <1>2, <1>3, UpdateIsSeen DEF Deliver, Running
  <1>4. CASE ~(bundle[r] = "active" /\ ~(Fail("freed") \/ Fail("assert")))
    <2>1. UNCHANGED <<phase, open, req, bundle, freed, val, told, last>>
      BY <1>2, <1>4 DEF Deliver, Fail
    <2> QED
      BY <2>1 DEF Unheard, Accepted
  <1> QED
    BY <1>3, <1>4

(* A request joins the values it asks for, new or not: a value that is     *)
(* created starts as one that is not there.                                *)
LEMMA RequestIsSeen ==
    ASSUME TypeOK, StateInv,
           NEW c \in Client, NEW mis \in SUBSET MI, NEW type \in PhaseType,
           EnableDataRequest(c, mis, type)
    PROVE  nreq + 1 \in Req /\ Joined(nreq + 1, c, mis, type) /\ fault = "none"
  <1> DEFINE base == [m \in MI |-> IF m \in mis
                   THEN IF val[m].live THEN val[m] ELSE NewVal(m)
                   ELSE val[m]]
             unsent == {m \in mis : ~base[m].sent /\ Matching(m) # {}}
             decided == {m \in mis : base[m].overall # "unknown"}
  <1>1. PICK r \in Req : r = nreq + 1 /\ r > nreq /\ nreq \in Nat
    <2>1. nreq < NumReq
      BY DEF EnableDataRequest
    <2>2. nreq \in Nat
      BY ConstantsAssumption DEF TypeOK
    <2>3. nreq + 1 \in Req
      BY <2>1, <2>2, ConstantsAssumption DEF Req
    <2> QED
      BY <2>2, <2>3
  <1>2. /\ Running /\ c \in open /\ mis # {}
        /\ req' = [req EXCEPT ![r] =
                     [mis |-> mis, type |-> type, client |-> c]]
        /\ bundle' = [bundle EXCEPT ![r] = "active"]
        /\ val' = [m \in MI |->
               IF m \notin mis THEN val[m]
               ELSE [base[m] EXCEPT
                       !.parents = @ \union {r},
                       !.first = IF val[m].live THEN @ ELSE r,
                       !.sent = @ \/ m \in unsent,
                       !.asked = IF m \in unsent THEN Matching(m) ELSE @]]
        /\ told' = [told EXCEPT ![r] = [m \in MI |->
               IF m \in decided THEN <<base[m].overall>> ELSE <<>>]]
        /\ last' = [last EXCEPT ![r] =
               decided # {} /\ \A m \in mis : IsEachDaemonComplete(base[m])]
        /\ UNCHANGED <<phase, open, freed, comps, fault>>
    BY <1>1 DEF EnableDataRequest, CreateReq, Unsent
  <1>3. ASSUME NEW m \in MI
        PROVE  /\ base[m] \in Value /\ base[m].overall = val[m].overall
               /\ base[m].parents = val[m].parents
               /\ base[m].reported = val[m].reported /\ base[m].st = val[m].st
    <2>1. CASE m \in mis /\ ~val[m].live
      <3>1. val[m] = NoVal /\ base[m] = NewVal(m)
        BY <2>1 DEF StateInv, ValuesInv
      <3> QED
        BY <3>1, NewValType DEF NewVal, NoVal
    <2>2. CASE ~(m \in mis /\ ~val[m].live)
      BY <2>2 DEF TypeOK
    <2> QED
      BY <2>1, <2>2
  <1> HIDE DEF base, unsent
  <1>4. ASSUME NEW m \in mis
        PROVE  /\ val'[m].parents = val[m].parents \union {r}
               /\ val'[m].overall = val[m].overall
               /\ val'[m].reported = val[m].reported
               /\ val'[m].st = val[m].st /\ val'[m].num = base[m].num
    <2>1. base[m] \in Value
      BY <1>3
    <2>2. val'[m] = [base[m] EXCEPT
                       !.parents = @ \union {r},
                       !.first = IF val[m].live THEN @ ELSE r,
                       !.sent = @ \/ m \in unsent,
                       !.asked = IF m \in unsent THEN Matching(m) ELSE @]
      BY <1>2
    <2> QED
      BY <1>3, <2>1, <2>2 DEF Value
  <1>5. \A m \in MI \ mis : val'[m] = val[m]
    BY <1>2
  <1>6. decided = {m \in mis : val[m].overall # "unknown"}
    BY <1>3
  <1>7. told' = [told EXCEPT ![r] = [m \in MI |->
          IF m \in mis /\ val[m].overall # "unknown"
          THEN <<val[m].overall>> ELSE <<>>]]
    <2>1. [m \in MI |-> IF m \in decided THEN <<base[m].overall>> ELSE <<>>]
            = [m \in MI |-> IF m \in mis /\ val[m].overall # "unknown"
                            THEN <<val[m].overall>> ELSE <<>>]
      BY <1>3, <1>6
    <2> HIDE DEF decided
    <2> QED
      BY <1>2, <2>1
  <1>8. \A m \in mis : IsEachDaemonComplete(base[m]) <=> IsEachDaemonComplete(val'[m])
    BY <1>3, <1>4 DEF IsEachDaemonComplete
  <1>9. /\ \A q \in Req \ {r} : last'[q] = last[q]
        /\ last'[r] <=> /\ \E m \in mis : val[m].overall # "unknown"
                        /\ \A m \in mis : IsEachDaemonComplete(val'[m])
    <2>1. last'[r] = (decided # {} /\ \A m \in mis : IsEachDaemonComplete(base[m]))
      BY <1>2 DEF TypeOK
    <2>2. \A q \in Req \ {r} : last'[q] = last[q]
      BY <1>2 DEF TypeOK
    <2>3. decided # {} <=> \E m \in mis : val[m].overall # "unknown"
      BY <1>6
    <2> HIDE DEF decided
    <2> QED
      BY <1>8, <2>1, <2>2, <2>3
  <1>10. \A q \in Req : Accepted(q)' <=> Accepted(q) \/ q = r
    BY <1>2 DEF Accepted, TypeOK
  <1>11. \A m \in MI : /\ val'[m].parents = val[m].parents \union
                             (IF m \in mis THEN {r} ELSE {})
                       /\ val'[m].overall = val[m].overall
                       /\ val'[m].reported = val[m].reported
                       /\ val'[m].st = val[m].st
    BY <1>4, <1>5
  <1>12. Joined(r, c, mis, type)
    BY <1>1, <1>2, <1>7, <1>9, <1>10, <1>11 DEF Joined
  <1> QED
    BY <1>1, <1>2, <1>12 DEF Running

(* A new phase is unheard when it goes wrong, and completes no bundle.     *)
LEMMA PhaseIsSeen ==
    ASSUME TypeOK, StateInv,
           NEW stop \in SUBSET Enabled, NEW keep \in SUBSET stop,
           StartPhase(stop, keep)
    PROVE  Unheard \/ (PhaseStarted /\ fault = "none")
  <1> DEFINE currentParents == [m \in MI |->
                {r \in val[m].parents : req[r].type = "CurrentPhase"}]
             gone == {m \in Undecided : currentParents[m] = val[m].parents}
             cancelled == UNION {currentParents[m] : m \in Undecided}
             failure == [m \in MI |-> "failure"]
  <1>1. CASE Fail("freed") \/ Fail("dangling")
    BY <1>1 DEF Fail, Unheard, Accepted
  <1>2. CASE ~(Fail("freed") \/ Fail("dangling"))
    <2>1. /\ phase' = phase + 1
          /\ told' = Tell(Undecided, currentParents, failure)
          /\ last' = FlagLast(cancelled, val)
          /\ val' = [m \in MI |-> IF m \in gone THEN NoVal ELSE val[m]]
          /\ freed' = [r \in Req |-> freed[r] \union
                            {m \in gone : r \in val[m].parents}]
          /\ UNCHANGED <<open, req, bundle, fault>> /\ Running
      BY <1>2 DEF StartPhase, Undecided
    <2>2. gone = Gone
      BY DEF Gone, Undecided
    <2>3. \A r \in Req : \A m \in Undecided :
             r \in currentParents[m]
               <=> r \in val[m].parents /\ req[r].type = "CurrentPhase"
      BY DEF Undecided
    <2> HIDE DEF currentParents, gone, failure
    <2>4. told' = [r \in Req |-> [m \in MI |->
            IF /\ m \in Undecided /\ r \in val[m].parents
               /\ req[r].type = "CurrentPhase" /\ Listening(r)
            THEN Append(told[r][m], "failure") ELSE told[r][m]]]
      BY <2>1, <2>3 DEF Tell, Listening, failure
    <2>5. ASSUME NEW r \in Req, r \in cancelled
          PROVE  ~IsBundleComplete(r, val)
      <3>1. PICK m \in Undecided : r \in val[m].parents
        BY <2>3, <2>5
      <3>2. m \in MI /\ val[m].overall \notin Final
        BY DEF Undecided
      <3>3. Accepted(r) /\ m \in req[r].mis
        BY <3>1, <3>2 DEF StateInv, SharingInv
      <3>4. ValueInv(val[m]) /\ val[m] \in Value
        BY <3>1, <3>2, ParentsLive DEF StateInv
      <3> QED
        BY <3>2, <3>3, <3>4, CompleteIsDecided DEF IsBundleComplete
    <2> HIDE DEF cancelled
    <2>6. last' = last
      BY <2>1, <2>5 DEF FlagLast, TypeOK
    <2>7. phase' # 0
      BY <2>1, ConstantsAssumption DEF TypeOK
    <2> QED
      BY <2>1, <2>2, <2>4, <2>6, <2>7 DEF PhaseStarted, Running
  <1> QED
    BY <1>1, <1>2

(* A new process is not noticed by the clients.                            *)
LEMMA ProgramIsUnheard ==
    ASSUME TypeOK, StateInv, NEW d \in Daemon, NewProgram(d)
    PROVE  Unheard
  <1> DEFINE attach == {m \in MI : /\ mi[m] = "idle" /\ val[m].live
                                   /\ val[m].overall \notin Final
                                   /\ ~AlreadySentOn(m, d)}
  <1>1. CASE Fail("dangling")
    BY <1>1 DEF Fail, Unheard, Accepted
  <1>2. CASE ~Fail("dangling")
    <2>1. /\ val' = [m \in MI |-> IF m \in attach THEN Ask(val[m], d) ELSE val[m]]
          /\ UNCHANGED <<phase, open, req, bundle, freed, told, last>>
      BY <1>2 DEF NewProgram
    <2> HIDE DEF attach
    <2>2. \A m \in MI : /\ val'[m].parents = val[m].parents
                        /\ val'[m].overall = val[m].overall
                        /\ val'[m].reported = val[m].reported
                        /\ val'[m].st = val[m].st
      <3>1. \A v \in Value : /\ Ask(v, d).parents = v.parents
                             /\ Ask(v, d).overall = v.overall
                             /\ Ask(v, d).reported = v.reported
                             /\ Ask(v, d).st = v.st
        BY DEF Value, Ask
      <3>2. \A m \in MI : val[m] \in Value
        BY DEF TypeOK
      <3> QED
        BY <2>1, <3>1, <3>2
    <2> QED
      BY <2>1, <2>2 DEF Unheard, Accepted
  <1> QED
    BY <1>1, <1>2

(* Every step is one its clients see in one of these ways.                 *)
LEMMA StepIsSeen ==
    ASSUME TypeOK, ProtocolInv, [Next]_vars
    PROVE  \/ Unheard
           \/ \E S \in SUBSET MI : Answered(S)
           \/ \E c \in Client, mis \in SUBSET MI, type \in PhaseType :
                 nreq + 1 \in Req /\ Joined(nreq + 1, c, mis, type)
           \/ \E c \in Client, mis \in SUBSET MI :
                 RejectStaleRequest(c, mis) \/ DropStaleRequest(c, mis)
           \/ PhaseStarted
           \/ \E c \in Client : DestroyPerformanceStream(c)
  <1>0. StateInv /\ MessagesInv
    BY DEF ProtocolInv, StateInv
  <1>1. ASSUME NEW c \in Client, NEW mis \in SUBSET MI, NEW type \in PhaseType,
               EnableDataRequest(c, mis, type)
        PROVE  nreq + 1 \in Req /\ Joined(nreq + 1, c, mis, type)
    BY <1>0, <1>1, RequestIsSeen
  <1>2. ASSUME NEW d \in Daemon, EnableDataCallback(d) \/ DeferredCallback(d)
        PROVE  Unheard \/ \E S \in SUBSET MI : Answered(S)
    BY <1>2, CallbackIsSeen
  <1>3. ASSUME NEW d \in Daemon, NewProgram(d)
        PROVE  Unheard
    BY <1>0, <1>3, ProgramIsUnheard
  <1>4. ASSUME NEW stop \in SUBSET Enabled, NEW keep \in SUBSET stop,
               StartPhase(stop, keep)
        PROVE  Unheard \/ PhaseStarted
    BY <1>0, <1>4, PhaseIsSeen
  <1>5. ASSUME UNCHANGED <<phase, open, req, bundle, freed, val, told, last>>
        PROVE  Unheard
    BY <1>5 DEF Unheard, Accepted
  <1>6. ASSUME NEW d \in Daemon,
               \/ AddDaemon(d)
               \/ EndOfDataCollection(d) \/ EnableDataCollection2(d)
        PROVE  Unheard
    BY <1>5, <1>6 DEF AddDaemon, EndOfDataCollection, EnableDataCollection2
  <1>7. ASSUME NEW m \in MI, DisableDataCollection(m) \/ ClearPersistentData(m)
        PROVE  Unheard
    BY <1>5, <1>7 DEF DisableDataCollection, ClearPersistentData
  <1>8. CASE UNCHANGED vars
    BY <1>5, <1>8 DEF vars
  <1> QED
    BY <1>1, <1>2, <1>3, <1>4, <1>6, <1>7, <1>8 DEF Next, Answering

-----------------------------------------------------------------------------
(* What the clients are told *)

(* Nothing is told at first.                                               *)
LEMMA ClientInvInit == Init => ClientInv
  BY DEF Init, ClientInv, ReportedInv, QuietInv, FirstPhaseInv, DecisionIsTold,
         OneFinalAnswer, LastWhenAllSucceed, Accepted, NoVal, Final

(* The reports of a value keep up with its merged state.                   *)
LEMMA ReportedNext ==
    ASSUME TypeOK, ProtocolInv, ReportedInv, [Next]_vars
    PROVE  ReportedInv'
  <1>1. ASSUME \A m \in MI : /\ val'[m].overall = val[m].overall
                             /\ val'[m].reported = val[m].reported
        PROVE  ReportedInv'
    BY <1>1 DEF ReportedInv
  <1>2. ASSUME NEW S \in SUBSET MI, Answered(S)
        PROVE  ReportedInv'
    <2> SUFFICES ASSUME NEW m \in MI
                 PROVE  /\ val'[m].reported \intersect Final # {} =>
                              val'[m].overall \in Final
                        /\ val'[m].overall = "deferred" => val'[m].reported # {}
      BY DEF ReportedInv
    <2>1. val[m].overall \in Final => val'[m].overall = val[m].overall
      BY <1>2 DEF Answered
    <2>2. CASE m \in S
      <3>1. /\ val[m].overall \notin Final /\ val'[m].overall \in Known
            /\ val'[m].reported = val[m].reported \union {val'[m].overall}
        BY <1>2, <2>2 DEF Answered
      <3>2. val[m].reported \intersect Final = {}
        BY <3>1 DEF ReportedInv
      <3> QED
        BY <3>1, <3>2
    <2>3. CASE m \notin S
      <3>1. /\ val'[m].reported = val[m].reported
            /\ val'[m] = val[m] \/ ~ShouldReport(val'[m])
        BY <1>2, <2>3 DEF Answered
      <3> QED
        BY <2>1, <3>1 DEF ReportedInv, ShouldReport
    <2> QED
      BY <2>2, <2>3
  <1>3. CASE PhaseStarted
    <2>1. NoVal.reported = {} /\ NoVal.overall = "unknown"
      BY DEF NoVal
    <2> QED
      BY <1>3, <2>1 DEF PhaseStarted, ReportedInv
  <1>4. ASSUME NEW c \in Client, NEW mis \in SUBSET MI,
               RejectStaleRequest(c, mis) \/ DropStaleRequest(c, mis)
        PROVE  ReportedInv'
    BY <1>1, <1>4 DEF RejectStaleRequest, DropStaleRequest
  <1>5. ASSUME NEW c \in Client, DestroyPerformanceStream(c)
        PROVE  ReportedInv'
    BY <1>1, <1>5 DEF DestroyPerformanceStream
  <1>6. CASE Unheard
    BY <1>1, <1>6 DEF Unheard
  <1>7. ASSUME NEW c \in Client, NEW mis \in SUBSET MI, NEW type \in PhaseType,
               Joined(nreq + 1, c, mis, type)
        PROVE  ReportedInv'
    BY <1>1, <1>7 DEF Joined
  <1> QED
    BY StepIsSeen, <1>2, <1>3, <1>4, <1>5, <1>6, <1>7

(* The request that is made next has no bundle and was told nothing.       *)
LEMMA NextIsFresh ==
    ASSUME TypeOK, StateInv, nreq + 1 \in Req
    PROVE  /\ ~Accepted(nreq + 1) /\ ~last[nreq + 1] /\ freed[nreq + 1] = {}
           /\ told[nreq + 1] = [m \in MI |-> <<>>]
           /\ \A m \in MI : nreq + 1 \notin val[m].parents
  <1>1. nreq + 1 > nreq
    BY ConstantsAssumption DEF TypeOK
  <1> QED
    BY <1>1 DEF StateInv, FreshInv, SharingInv

(* What a request for a past phase changes.                                *)
LEMMA StaleRequest ==
    ASSUME TypeOK, NEW c \in Client, NEW mis \in SUBSET MI,
           RejectStaleRequest(c, mis) \/ DropStaleRequest(c, mis)
    PROVE  /\ nreq + 1 \in Req /\ c \in open /\ mis # {}
           /\ UNCHANGED <<phase, open, bundle, freed, val, comps, fault>>
           /\ req' = [req EXCEPT ![nreq + 1] =
                [mis |-> mis, type |-> "CurrentPhase", client |-> c]]
           /\ \/ told' = told /\ last' = last
              \/ /\ told' = [told EXCEPT ![nreq + 1] =
                       [m \in MI |-> IF m \in mis THEN <<"failure">> ELSE <<>>]]
                 /\ last' = [last EXCEPT ![nreq + 1] = TRUE]
  <1>1. nreq + 1 \in Req
    BY ConstantsAssumption
    DEF RejectStaleRequest, DropStaleRequest, TypeOK, Req
  <1> QED
    BY <1>1 DEF RejectStaleRequest, DropStaleRequest

(* A client that shares a value hears its decision in the step that makes  *)
(* it, and one that joins a decided value when it joins.                   *)
LEMMA DecisionNext ==
    ASSUME FocusMatched, TypeOK, ProtocolInv, ReportedInv, DecisionIsTold,
           [Next]_vars
    PROVE  DecisionIsTold'
  <1>0. StateInv /\ SharingInv /\ SharingInv' /\ TypeOK'
    BY InvNext, TypeNext DEF ProtocolInv, StateInv
  <1> SUFFICES ASSUME NEW q \in Req, NEW m \in MI, q \in val'[m].parents,
                      Listening(q)', val'[m].overall \in Final
               PROVE  /\ told'[q][m] # <<>>
                      /\ told'[q][m][Len(told'[q][m])] = val'[m].overall
    BY <1>0 DEF DecisionIsTold, SharingInv, TypeOK, Request
  <1>1. ASSUME q \in val[m].parents, Listening(q), val[m].overall \in Final,
               told'[q][m] = told[q][m], val'[m].overall = val[m].overall
        PROVE  /\ told'[q][m] # <<>>
               /\ told'[q][m][Len(told'[q][m])] = val'[m].overall
    BY <1>0, <1>1 DEF DecisionIsTold, SharingInv
  <1>2. CASE Unheard
    BY <1>1, <1>2 DEF Unheard, Listening
  <1>3. ASSUME NEW S \in SUBSET MI, Answered(S)
        PROVE  /\ told'[q][m] # <<>>
               /\ told'[q][m][Len(told'[q][m])] = val'[m].overall
    <2>1. q \in val[m].parents /\ Listening(q)
      BY <1>3 DEF Answered, Listening
    <2>2. CASE m \in S
      <3>1. told'[q][m] = Append(told[q][m], val'[m].overall)
        BY <1>3, <2>1, <2>2 DEF Answered
      <3>2. told[q][m] \in Seq(Known) /\ val'[m].overall \in Known
        BY DEF TypeOK, Known
      <3> QED
        BY <3>1, <3>2, AppendProperties
    <2>3. CASE m \notin S
      <3>1. told'[q][m] = told[q][m]
        BY <1>3, <2>3 DEF Answered
      <3>2. /\ val'[m].reported = val[m].reported
            /\ val'[m] = val[m] \/ ~ShouldReport(val'[m])
        BY <1>3, <2>3 DEF Answered
      <3>3. val[m].overall \in Final
        BY <3>2 DEF ReportedInv, ShouldReport
      <3>4. val'[m].overall = val[m].overall
        BY <1>3, <3>3 DEF Answered
      <3> QED
        BY <1>1, <2>1, <3>1, <3>3, <3>4
    <2> QED
      BY <2>2, <2>3
  <1>4. ASSUME NEW c \in Client, NEW mis \in SUBSET MI, NEW type \in PhaseType,
               nreq + 1 \in Req, Joined(nreq + 1, c, mis, type)
        PROVE  /\ told'[q][m] # <<>>
               /\ told'[q][m][Len(told'[q][m])] = val'[m].overall
    <2> DEFINE r == nreq + 1
    <2>0. \A k \in MI : r \notin val[k].parents
      BY <1>0, <1>4, NextIsFresh
    <2> HIDE DEF r
    <2>1. CASE q = r
      <3>1. m \in mis /\ val'[m].overall = val[m].overall /\ val[m].overall # "unknown"
        BY <1>4, <2>0, <2>1 DEF Joined, Final, r
      <3>2. told'[q][m] = <<val[m].overall>>
        BY <1>4, <2>1, <3>1 DEF Joined, TypeOK, r
      <3> QED
        BY <3>1, <3>2
    <2>2. CASE q # r
      <3>1. /\ q \in val[m].parents /\ val'[m].overall = val[m].overall
            /\ told'[q][m] = told[q][m] /\ Listening(q)
        BY <1>4, <2>2 DEF Joined, TypeOK, Listening, r
      <3> QED
        BY <1>1, <3>1
    <2> QED
      BY <2>1, <2>2
  <1>5. ASSUME NEW c \in Client, NEW mis \in SUBSET MI,
               RejectStaleRequest(c, mis) \/ DropStaleRequest(c, mis)
        PROVE  /\ told'[q][m] # <<>>
               /\ told'[q][m][Len(told'[q][m])] = val'[m].overall
    <2>1. q # nreq + 1 /\ q \in val[m].parents
      BY <1>0, <1>5, StaleRequest, NextIsFresh
    <2>2. /\ val' = val /\ told'[q] = told[q] /\ req'[q] = req[q] /\ open' = open
      BY <1>5, <2>1, StaleRequest DEF TypeOK
    <2> QED
      BY <1>1, <2>1, <2>2 DEF Listening
  <1>6. CASE PhaseStarted
    <2>1. val'[m] = val[m] /\ m \notin Undecided
      <3>1. NoVal.overall \notin Final
        BY DEF NoVal, Final
      <3>2. val'[m] = IF m \in Gone THEN NoVal ELSE val[m]
        BY <1>6 DEF PhaseStarted
      <3> QED
        BY <3>1, <3>2 DEF Undecided
    <2>2. told'[q][m] = told[q][m] /\ Listening(q)
      BY <1>6, <2>1 DEF PhaseStarted, Listening
    <2> QED
      BY <1>1, <2>1, <2>2
  <1>7. ASSUME NEW c \in Client, DestroyPerformanceStream(c)
        PROVE  /\ told'[q][m] # <<>>
               /\ told'[q][m][Len(told'[q][m])] = val'[m].overall
    BY <1>1, <1>7 DEF DestroyPerformanceStream, Listening
  <1> QED
    BY StepIsSeen, <1>2, <1>3, <1>4, <1>5, <1>6, <1>7

\* no final answer before the last of a sequence of answers
FinalAtEnd(h) == \A i \in 1 .. Len(h) : h[i] \in Final => i = Len(h)
NoFinal(h) == \A i \in 1 .. Len(h) : h[i] \notin Final

(* One answer more, after answers that were not final.                     *)
LEMMA AppendAnswer ==
    ASSUME NEW h \in Seq(Known), NEW x \in Known, NoFinal(h)
    PROVE  /\ FinalAtEnd(Append(h, x))
           /\ x \notin Final => NoFinal(Append(h, x))
  <1>1. /\ Len(Append(h, x)) = Len(h) + 1 /\ Len(h) \in Nat
        /\ \A i \in 1 .. Len(h) : Append(h, x)[i] = h[i]
        /\ Append(h, x)[Len(h) + 1] = x
    BY AppendProperties, LenProperties
  <1>2. \A i \in 1 .. Len(h) + 1 : i \in 1 .. Len(h) \/ i = Len(h) + 1
    BY <1>1
  <1> QED
    BY <1>1, <1>2 DEF FinalAtEnd, NoFinal

(* At most one answer.                                                     *)
LEMMA ShortAnswer ==
    ASSUME NEW x
    PROVE  /\ FinalAtEnd(<<x>>) /\ FinalAtEnd(<<>>) /\ NoFinal(<<>>)
           /\ x \notin Final => NoFinal(<<x>>)
  BY DEF FinalAtEnd, NoFinal

(* A final answer comes only while the pair is undecided, and then no      *)
(* other was given before.                                                 *)
LEMMA QuietNext ==
    ASSUME FocusMatched, TypeOK, ProtocolInv, QuietInv, OneFinalAnswer,
           [Next]_vars
    PROVE  QuietInv' /\ OneFinalAnswer'
  <1>0. StateInv /\ TypeOK'
    BY TypeNext DEF ProtocolInv, StateInv
  <1> SUFFICES ASSUME NEW q \in Req, NEW m \in MI, Undisturbed(q)'
               PROVE  /\ FinalAtEnd(told'[q][m])
                      /\ q \in val'[m].parents /\ val'[m].overall \notin Final =>
                            NoFinal(told'[q][m])
    BY DEF QuietInv, OneFinalAnswer, Undisturbed, FinalAtEnd, NoFinal
  <1> DEFINE Goal == /\ FinalAtEnd(told'[q][m])
                     /\ q \in val'[m].parents /\ val'[m].overall \notin Final =>
                           NoFinal(told'[q][m])
  <1>a. ASSUME Undisturbed(q)
        PROVE  /\ FinalAtEnd(told[q][m])
               /\ q \in val[m].parents /\ val[m].overall \notin Final =>
                     NoFinal(told[q][m])
    BY <1>a DEF QuietInv, OneFinalAnswer, Undisturbed, FinalAtEnd, NoFinal
  <1>b. told[q][m] \in Seq(Known)
    BY DEF TypeOK
  <1>1. ASSUME Undisturbed(q), told'[q][m] = told[q][m],
               q \in val'[m].parents /\ val'[m].overall \notin Final =>
                  q \in val[m].parents /\ val[m].overall \notin Final
        PROVE  Goal
    BY <1>1, <1>a
  <1>2. CASE Unheard
    BY <1>1, <1>2 DEF Unheard, Undisturbed
  <1>3. ASSUME NEW S \in SUBSET MI, Answered(S)
        PROVE  Goal
    <2>1. /\ Undisturbed(q) /\ val'[m].parents = val[m].parents
          /\ val'[m].overall \notin Final => val[m].overall \notin Final
      BY <1>3 DEF Answered, Undisturbed
    <2>2. CASE m \in S /\ q \in val[m].parents /\ Listening(q)
      <3>1. /\ told'[q][m] = Append(told[q][m], val'[m].overall)
            /\ val'[m].overall \in Known /\ val[m].overall \notin Final
        BY <1>3, <2>2 DEF Answered
      <3>2. NoFinal(told[q][m])
        BY <1>a, <2>1, <2>2, <3>1
      <3> QED
        BY <1>b, <3>1, <3>2, AppendAnswer
    <2>3. CASE ~(m \in S /\ q \in val[m].parents /\ Listening(q))
      <3>1. told'[q][m] = told[q][m]
        BY <1>3, <2>3 DEF Answered
      <3> QED
        BY <1>1, <2>1, <3>1
    <2> QED
      BY <2>2, <2>3
  <1>4. ASSUME NEW c \in Client, NEW mis \in SUBSET MI, NEW type \in PhaseType,
               nreq + 1 \in Req, Joined(nreq + 1, c, mis, type)
        PROVE  Goal
    <2>1. CASE q = nreq + 1
      <3>1. told'[q][m] = IF m \in mis /\ val[m].overall # "unknown"
                          THEN <<val[m].overall>> ELSE <<>>
        BY <1>4, <2>1 DEF Joined, TypeOK
      <3>2. val'[m].overall = val[m].overall
        BY <1>4 DEF Joined
      <3> QED
        BY <3>1, <3>2, ShortAnswer
    <2>2. CASE q # nreq + 1
      <3>1. /\ told'[q][m] = told[q][m] /\ val'[m].overall = val[m].overall
            /\ q \in val'[m].parents => q \in val[m].parents
            /\ Undisturbed(q)
        BY <1>4, <2>2 DEF Joined, TypeOK, Undisturbed
      <3> QED
        BY <1>1, <3>1
    <2> QED
      BY <2>1, <2>2
  <1>5. ASSUME NEW c \in Client, NEW mis \in SUBSET MI,
               RejectStaleRequest(c, mis) \/ DropStaleRequest(c, mis)
        PROVE  Goal
    <2>0. val' = val /\ nreq + 1 \in Req
      BY <1>5, StaleRequest
    <2>1. CASE q = nreq + 1
      <3>1. told[q][m] = <<>> /\ q \notin val'[m].parents
        BY <1>0, <2>0, <2>1, NextIsFresh
      <3>2. \/ told' = told
            \/ told' = [told EXCEPT ![nreq + 1] =
                  [n \in MI |-> IF n \in mis THEN <<"failure">> ELSE <<>>]]
        BY <1>5, StaleRequest
      <3>3. told'[q][m] = <<>> \/ told'[q][m] = <<"failure">>
        BY <2>1, <3>1, <3>2 DEF TypeOK
      <3> QED
        BY <3>1, <3>3, ShortAnswer
    <2>2. CASE q # nreq + 1
      <3>1. told'[q] = told[q] /\ req'[q] = req[q] /\ phase' = phase
        BY <1>5, <2>2, StaleRequest DEF TypeOK
      <3> QED
        BY <1>1, <2>0, <3>1 DEF Undisturbed
    <2> QED
      BY <2>1, <2>2
  <1>6. CASE PhaseStarted
    <2>1. req[q].type # "CurrentPhase" /\ Undisturbed(q)
      BY <1>6 DEF PhaseStarted, Undisturbed
    <2>2. told'[q][m] = told[q][m]
      BY <1>6, <2>1 DEF PhaseStarted
    <2>3. q \in val'[m].parents => val'[m] = val[m]
      BY <1>6 DEF PhaseStarted, NoVal
    <2> QED
      BY <1>1, <2>1, <2>2, <2>3
  <1>7. ASSUME NEW c \in Client, DestroyPerformanceStream(c)
        PROVE  Goal
    BY <1>1, <1>7 DEF DestroyPerformanceStream, Undisturbed
  <1> QED
    BY StepIsSeen, <1>2, <1>3, <1>4, <1>5, <1>6, <1>7

(* A value that succeeded has its answer from every daemon it counts.      *)
LEMMA SuccessIsComplete ==
    ASSUME NEW v \in Value, ValueInv(v), v.overall = "success"
    PROVE  IsEachDaemonComplete(v)
  <1>1. v.asked = In(v.st, {"success"}) /\ Cardinality(In(v.st, {"success"})) = v.num
    BY SuccessOfAll DEF ValueInv, Overall
  <1>2. In(v.st, Final) = In(v.st, {"success"})
    BY <1>1 DEF ValueInv, In, Known, Final
  <1> QED
    BY <1>1, <1>2 DEF IsEachDaemonComplete

(* The step that makes the last of a request's pairs a success flags the   *)
(* packet as its last.                                                     *)
LEMMA LastNext ==
    ASSUME FocusMatched, TypeOK, ProtocolInv, ReportedInv, LastWhenAllSucceed,
           [Next]_vars
    PROVE  LastWhenAllSucceed'
  <1>0. StateInv /\ TypeOK' /\ ValuesInv' /\ SharingInv /\ Settled
    BY InvNext, TypeNext DEF ProtocolInv, StateInv
  <1> SUFFICES ASSUME NEW q \in Req, Accepted(q)', Listening(q)', freed'[q] = {},
                      \A m \in req'[q].mis : val'[m].overall = "success"
               PROVE  last'[q]
    BY DEF LastWhenAllSucceed
  <1>a. \A m \in req'[q].mis : m \in MI /\ IsEachDaemonComplete(val'[m])
    <2> SUFFICES ASSUME NEW m \in req'[q].mis
                 PROVE  m \in MI /\ IsEachDaemonComplete(val'[m])
      OBVIOUS
    <2>1. m \in MI /\ val'[m] \in Value
      BY <1>0 DEF TypeOK, Request
    <2>2. val'[m].overall = "success"
      OBVIOUS
    <2>3. val'[m] # NoVal
      BY <2>2 DEF NoVal
    <2>4. ValueInv(val'[m])
      BY <1>0, <2>1, <2>3 DEF ValuesInv
    <2> QED
      BY <2>1, <2>2, <2>4, SuccessIsComplete
  <1>1. ASSUME Accepted(q), Listening(q), freed[q] = {}, req'[q].mis = req[q].mis,
               \A m \in req[q].mis : val[m].overall = "success"
        PROVE  last'[q]
    BY <1>0, <1>1 DEF LastWhenAllSucceed, Settled
  <1>2. CASE Unheard
    <2>1. req[q].mis \subseteq MI
      BY DEF TypeOK, Request
    <2> QED
      BY <1>1, <1>2, <2>1 DEF Unheard, Listening
  <1>3. ASSUME NEW S \in SUBSET MI, Answered(S)
        PROVE  last'[q]
    <2>1. Accepted(q) /\ Listening(q) /\ freed[q] = {} /\ req' = req
      BY <1>3 DEF Answered, Listening
    <2>2. CASE \E m \in req[q].mis : m \in S
      <3>1. \E m \in S : q \in val[m].parents
        BY <1>0, <2>1, <2>2 DEF SharingInv
      <3> QED
        BY <1>3, <1>a, <2>1, <3>1 DEF Answered
    <2>3. CASE ~ \E m \in req[q].mis : m \in S
      <3>1. ASSUME NEW m \in req[q].mis
            PROVE  val[m].overall = "success"
        <4>1. m \in MI \ S /\ val'[m].overall = "success"
          BY <1>a, <2>1, <2>3
        <4>2. /\ val'[m].reported = val[m].reported
              /\ val'[m] = val[m] \/ ~ShouldReport(val'[m])
              /\ val[m].overall \in Final => val'[m].overall = val[m].overall
          BY <1>3, <4>1 DEF Answered
        <4> QED
          BY <4>1, <4>2 DEF ReportedInv, ShouldReport, Final
      <3> QED
        BY <1>1, <2>1, <3>1
    <2> QED
      BY <2>2, <2>3
  <1>4. ASSUME NEW c \in Client, NEW mis \in SUBSET MI, NEW type \in PhaseType,
               nreq + 1 \in Req, Joined(nreq + 1, c, mis, type)
        PROVE  last'[q]
    <2>1. CASE q = nreq + 1
      <3>1. req'[q].mis = mis
        BY <1>4, <2>1 DEF Joined, TypeOK
      <3>2. PICK m \in mis : TRUE
        BY <1>4 DEF Joined
      <3>3. val[m].overall = "success"
        BY <1>4, <3>1, <3>2 DEF Joined
      <3> QED
        BY <1>4, <1>a, <2>1, <3>1, <3>3 DEF Joined
    <2>2. CASE q # nreq + 1
      <3>1. req'[q] = req[q]
        BY <1>4, <2>2 DEF Joined, TypeOK
      <3>2. Accepted(q) /\ Listening(q) /\ freed[q] = {}
        BY <1>4, <2>2, <3>1 DEF Joined, Listening
      <3>3. \A m \in req[q].mis : val[m].overall = "success"
        BY <1>4, <1>a, <3>1 DEF Joined
      <3> QED
        BY <1>1, <3>1, <3>2, <3>3
    <2> QED
      BY <2>1, <2>2
  <1>5. ASSUME NEW c \in Client, NEW mis \in SUBSET MI,
               RejectStaleRequest(c, mis) \/ DropStaleRequest(c, mis)
        PROVE  last'[q]
    <2>1. q # nreq + 1
      BY <1>0, <1>5, StaleRequest, NextIsFresh DEF Accepted
    <2>2. /\ val' = val /\ req'[q] = req[q]
          /\ UNCHANGED <<open, freed, bundle>>
      BY <1>5, <2>1, StaleRequest DEF TypeOK
    <2> QED
      BY <1>1, <2>2 DEF Listening, Accepted
  <1>6. CASE PhaseStarted
    <2>1. freed[q] = {} /\ UNCHANGED <<open, req, bundle>>
      BY <1>6 DEF PhaseStarted
    <2>2. \A m \in req[q].mis : val[m].overall = "success"
      <3>1. NoVal.overall # "success"
        BY DEF NoVal
      <3> QED
        BY <1>6, <1>a, <2>1, <3>1 DEF PhaseStarted
    <2> QED
      BY <1>1, <2>1, <2>2 DEF Listening, Accepted
  <1>7. ASSUME NEW c \in Client, DestroyPerformanceStream(c)
        PROVE  last'[q]
    BY <1>1, <1>7 DEF DestroyPerformanceStream, Listening, Accepted
  <1> QED
    BY StepIsSeen, <1>2, <1>3, <1>4, <1>5, <1>6, <1>7

(* Before any phase starts an answer is never about a deleted value, and a *)
(* daemon whose success is new has no component yet.                       *)
LEMMA FirstPhaseUpdate ==
    ASSUME TypeOK, StateInv, FirstPhaseInv, phase = 0,
           NEW r \in Req, NEW d \in Daemon,
           NEW D \in SUBSET MI, NEW st \in [D -> Known],
           MessageOK(d, r, D), bundle[r] = "active", NEW lost \in SUBSET D,
           UpdateWithEnableCallback(r, d, st, lost)
    PROVE  ~(Fail("freed") \/ Fail("assert"))
  <1> DEFINE news == {m \in D : Reportable(val[m].st[d], st[m])}
             now == [m \in MI |->
                       IF m \in news THEN SetNewDmnState(val[m], d, st[m])
                                     ELSE val[m]]
             report == {m \in news : ShouldReport(now[m])}
             touched == Parents(val, report) \union {r}
  <1>0. DOMAIN st = D /\ fault = "none" /\ \A q \in Req : freed[q] = {}
    BY DEF FirstPhaseInv
  <1>1. ~\E m \in news : st[m] = "success" /\ d \in comps[m]
    <2> SUFFICES ASSUME NEW m \in D, Reportable(val[m].st[d], "success"),
                        d \in comps[m]
                 PROVE  FALSE
      OBVIOUS
    <2>1. r \in val[m].parents /\ d \in val[m].asked
      BY <1>0 DEF MessageOK, Sent, Req
    <2>2. ValueInv(val[m]) /\ val[m] \in Value
      BY <2>1, ParentsLive DEF StateInv
    <2>3. val[m].st[d] # "success"
      BY DEF Reportable
    <2>4. val[m].overall = "success"
      BY <2>3 DEF FirstPhaseInv
    <2>5. d \in In(val[m].st, {"success"})
      BY <2>1, <2>2, <2>4, SuccessOfAll
    <2> QED
      BY <2>3, <2>5 DEF In
  <1>2. touched \subseteq Req
    <2>1. \A m \in report : val[m].parents \subseteq Req
      BY DEF TypeOK, Value
    <2> QED
      BY <2>1 DEF Parents
  <1>3. ~MayReadFreed(touched)
    BY <1>0, <1>2 DEF MayReadFreed
  <1>4. fault' = "none" \/ fault' = "dangling"
    BY <1>0, <1>1, <1>3 DEF UpdateWithEnableCallback, Fail
  <1> QED
    BY <1>4 DEF Fail

(* endOfDataCollection takes components away.                              *)
LEMMA FewerComponents ==
    ASSUME TypeOK, NEW S, NEW d, comps' = WithoutComponents(S, d)
    PROVE  \A m \in MI : comps'[m] \subseteq comps[m]
  BY DEF WithoutComponents, TypeOK

(* Before any phase starts no step goes wrong, deletes a value or gives an *)
(* instance a component that is not behind a success.                      *)
LEMMA FirstPhaseNext ==
    ASSUME FocusMatched, TypeOK, ProtocolInv, FirstPhaseInv, [Next]_vars
    PROVE  FirstPhaseInv'
  <1>0. StateInv /\ MessagesInv /\ NoDanglingBundle'
    BY InvNext DEF ProtocolInv, StateInv
  <1> SUFFICES ASSUME phase' = 0
               PROVE  /\ fault' = "none"
                      /\ \A r \in Req : freed'[r] = {}
                      /\ \A m \in MI : \A d \in comps'[m] :
                            val'[m].st[d] = "success" \/ val'[m].overall = "success"
    BY DEF FirstPhaseInv
  <1> DEFINE Goal == /\ fault' = "none"
                     /\ \A r \in Req : freed'[r] = {}
                     /\ \A m \in MI : \A d \in comps'[m] :
                           val'[m].st[d] = "success" \/ val'[m].overall = "success"
  <1>1. ASSUME phase = 0, UNCHANGED <<fault, freed>>,
               \A m \in MI : /\ val'[m].st = val[m].st
                             /\ val'[m].overall = val[m].overall
                             /\ comps'[m] \subseteq comps[m]
        PROVE  Goal
    BY <1>1 DEF FirstPhaseInv
  <1>2. ASSUME NEW c \in Client, NEW mis \in SUBSET MI, NEW type \in PhaseType,
               EnableDataRequest(c, mis, type)
        PROVE  Goal
    <2>1. Joined(nreq + 1, c, mis, type)
      BY <1>0, <1>2, RequestIsSeen
    <2> QED
      BY <1>1, <2>1 DEF Joined
  <1>3. ASSUME NEW c \in Client, NEW mis \in SUBSET MI,
               RejectStaleRequest(c, mis) \/ DropStaleRequest(c, mis)
        PROVE  Goal
    BY <1>1, <1>3, StaleRequest
  <1>7. ASSUME UNCHANGED <<phase, freed, val, fault>>,
               \A m \in MI : comps'[m] \subseteq comps[m]
        PROVE  Goal
    BY <1>1, <1>7
  <1>4. ASSUME NEW d \in Daemon, EnableDataCallback(d) \/ DeferredCallback(d)
        PROVE  Goal
    <2>1. PICK r \in Req, D \in SUBSET MI :
             \E st \in [D -> Known], lost \in SUBSET D :
                MessageOK(d, r, D) /\ Deliver(r, d, st, lost) /\ Running
      BY <1>0, <1>4, CallbackDelivers
    <2>2. PICK st \in [D -> Known], lost \in SUBSET D :
             MessageOK(d, r, D) /\ Deliver(r, d, st, lost) /\ Running
      BY <2>1
    <2>3. CASE bundle[r] = "active"
      <3>1. UpdateWithEnableCallback(r, d, st, lost)
        BY <2>2, <2>3 DEF Deliver
      <3>2. phase = 0
        BY <3>1 DEF UpdateWithEnableCallback, Fail
      <3>3. ~(Fail("freed") \/ Fail("assert"))
        BY <1>0, <2>2, <2>3, <3>1, <3>2, FirstPhaseUpdate
      <3>4. PICK S \in SUBSET MI : Answered(S)
        BY <1>0, <2>2, <2>3, <3>1, <3>3, UpdateIsSeen
      <3>5. fault' = "none" /\ freed' = freed
        BY <3>2, <3>4 DEF Answered, FirstPhaseInv
      <3>6. ASSUME NEW m \in MI, NEW e \in comps'[m]
            PROVE  val'[m].st[e] = "success" \/ val'[m].overall = "success"
        <4>1. CASE e \in comps[m]
          <5>1. e \in Daemon
            BY <4>1 DEF TypeOK
          <5>2. val[m].st[e] = "success" \/ val[m].overall = "success"
            BY <3>2, <4>1 DEF FirstPhaseInv
          <5> QED
            BY <3>4, <5>1, <5>2 DEF Answered, Final
        <4>2. CASE e \notin comps[m]
          BY <3>4, <4>2 DEF Answered
        <4> QED
          BY <4>1, <4>2
      <3> QED
        BY <3>2, <3>5, <3>6 DEF FirstPhaseInv
    <2>4. CASE bundle[r] # "active"
      BY <1>7, <2>2, <2>4, FewerComponents DEF Deliver
    <2> QED
      BY <2>3, <2>4
  <1>5. ASSUME NEW d \in Daemon, NewProgram(d)
        PROVE  Goal
    <2>1. Unheard
      BY <1>0, <1>5, ProgramIsUnheard
    <2>2. ~Fail("dangling")
      BY <1>0 DEF Fail, NoDanglingBundle
    <2>3. /\ fault' = fault
          /\ \E ok \in SUBSET {m \in MI : mi[m] = "enabled" /\ d \notin comps[m]} :
                comps' = [m \in MI |-> IF m \in ok THEN comps[m] \union {d}
                                                   ELSE comps[m]]
      BY <1>5, <2>2 DEF NewProgram
    <2>4. \A m \in MI : \A e \in comps'[m] : e \in comps[m] \/ mi[m] = "enabled"
      BY <2>3
    <2>5. \A m \in MI : mi[m] = "enabled" => val[m].overall = "success"
      BY DEF ProtocolInv, EnabledHasSucceeded
    <2> QED
      BY <2>1, <2>3, <2>4, <2>5 DEF Unheard, FirstPhaseInv
  <1>6. ASSUME NEW stop \in SUBSET Enabled, NEW keep \in SUBSET stop,
               StartPhase(stop, keep)
        PROVE  Goal
    <2> DEFINE undecided == {m \in MI : val[m].live /\ val[m].overall \notin Final}
               currentParents == [m \in MI |->
                  {r \in val[m].parents : req[r].type = "CurrentPhase"}]
               cancelled == UNION {currentParents[m] : m \in undecided}
    <2>1. phase = 0 => ~MayReadFreed(cancelled)
      <3>1. \A m \in MI : val[m].parents \subseteq Req
        BY DEF TypeOK, Value
      <3>2. cancelled \subseteq Req
        BY <3>1
      <3> QED
        BY <3>2 DEF MayReadFreed, FirstPhaseInv
    <2>2. ~Fail("dangling")
      BY <1>0 DEF Fail, NoDanglingBundle
    <2>3. \/ MayReadFreed(cancelled) /\ phase' = phase
          \/ phase' = phase + 1
      BY <1>6, <2>2 DEF StartPhase, Fail
    <2> QED
      BY <2>1, <2>3, ConstantsAssumption DEF TypeOK
  <1>8. ASSUME NEW d \in Daemon, AddDaemon(d)
        PROVE  Goal
    BY <1>7, <1>8 DEF AddDaemon
  <1>12. ASSUME NEW d \in Daemon,
                EndOfDataCollection(d) \/ EnableDataCollection2(d)
         PROVE  Goal
    BY <1>7, <1>12, FewerComponents
    DEF EndOfDataCollection, EnableDataCollection2
  <1>9. ASSUME NEW m \in MI, DisableDataCollection(m) \/ ClearPersistentData(m)
        PROVE  Goal
    BY <1>7, <1>9 DEF DisableDataCollection, ClearPersistentData, TypeOK
  <1>10. ASSUME NEW c \in Client, DestroyPerformanceStream(c)
         PROVE  Goal
    BY <1>7, <1>10 DEF DestroyPerformanceStream
  <1>11. CASE UNCHANGED vars
    BY <1>7, <1>11 DEF vars
  <1> QED
    BY <1>2, <1>3, <1>4, <1>5, <1>6, <1>8, <1>9, <1>10, <1>11, <1>12
    DEF Next, Answering

-----------------------------------------------------------------------------
(* Theorems *)

(* What the clients rely on holds in every reachable state.                *)
THEOREM ClientCorrect == ASSUME FocusMatched PROVE Spec => []ClientInv
  <1>1. Init => ClientInv
    BY ClientInvInit
  <1>2. TypeOK /\ ProtocolInv /\ ClientInv /\ [Next]_vars => ClientInv'
    BY ReportedNext, QuietNext, FirstPhaseNext, DecisionNext, LastNext
    DEF ClientInv
  <1> QED
    BY <1>1, <1>2, TypeCorrect, ProtocolCorrect, PTL DEF Spec

(* updateWithEnableCallback and addParent between them tell every client   *)
(* that still has its stream the decision of each pair it asked for.       *)
THEOREM DecisionsTold == ASSUME FocusMatched PROVE Spec => []DecisionIsTold
  <1>1. ClientInv => DecisionIsTold
    BY DEF ClientInv
  <1> QED
    BY <1>1, ClientCorrect, PTL

(* should_report_new_state and the cancellation of a phase's requests give *)
(* a client at most one final answer for a pair.                           *)
THEOREM OneFinal == ASSUME FocusMatched PROVE Spec => []OneFinalAnswer
  <1>1. ClientInv => OneFinalAnswer
    BY DEF ClientInv
  <1> QED
    BY <1>1, ClientCorrect, PTL

(* When the last of a request's pairs succeeds, flushPerfStreamMsgs flags  *)
(* the packet to its client as the last.                                   *)
THEOREM LastArrives == ASSUME FocusMatched PROVE Spec => []LastWhenAllSucceed
  <1>1. ClientInv => LastWhenAllSucceed
    BY DEF ClientInv
  <1> QED
    BY <1>1, ClientCorrect, PTL

(* Until a phase starts, updateWithEnableCallback uses no deleted value    *)
(* and its assertion that a component is new holds.                        *)
THEOREM FirstPhaseSafe == ASSUME FocusMatched PROVE Spec => []FirstPhaseIsSafe
  <1>1. ClientInv => FirstPhaseIsSafe
    BY DEF ClientInv, FirstPhaseInv, FirstPhaseIsSafe
  <1> QED
    BY <1>1, ClientCorrect, PTL

-----------------------------------------------------------------------------
(* The refinement of EnableService *)

(* A pair is decided for the service when its value is.                    *)
LEMMA StageFacts ==
    ASSUME NEW v \in Value
    PROVE  /\ ServiceStage(v) \in {"open", "deferred"} \union Service!Decided
           /\ ServiceStage(v) \in Service!Decided <=> v.overall \in Final
           /\ v.overall \in Final => ServiceStage(v) = v.overall
  BY DEF ServiceStage, Service!Decided, Final

(* The ranks of the stages.                                                *)
LEMMA RankFacts ==
    /\ Service!Rank("open") = 0 /\ Service!Rank("deferred") = 1
    /\ \A s \in Service!Decided : Service!Rank(s) = 2
  BY DEF Service!Rank, Service!Decided

(* What clients do not notice is no step of the service.                   *)
LEMMA UnheardRefines ==
    ASSUME TypeOK, TypeOK', Unheard
    PROVE  UNCHANGED Service!vars
  <1>1. \A m \in MI : /\ val'[m].parents = val[m].parents
                      /\ ServiceStage(val'[m]) = ServiceStage(val[m])
    BY DEF Unheard, ServiceStage
  <1>2. req' = req /\ open' = open /\ told' = told /\ last' = last
    BY DEF Unheard
  <1> QED
    BY <1>1, <1>2 DEF Service!vars

(* The pairs that are reported, and only those, change their stage.        *)
LEMMA ReportedMoves ==
    ASSUME TypeOK, TypeOK', ReportedInv, NEW S \in SUBSET MI, Answered(S),
           NEW m \in MI
    PROVE  LET old == ServiceStage(val[m])
               new == ServiceStage(val'[m])
           IN  /\ m \notin S => new = old
               /\ m \in S => /\ new = val'[m].overall /\ new # old
                             /\ Service!Rank(new) > Service!Rank(old)
  <1>0. val[m] \in Value /\ val'[m] \in Value
    BY DEF TypeOK
  <1>1. CASE m \in S
    <2>1. /\ val[m].overall \notin Final /\ val'[m].overall \in Known
          /\ val'[m].overall = "deferred" => val[m].reported = {}
          /\ val'[m].reported = val[m].reported \union {val'[m].overall}
      BY <1>1 DEF Answered
    <2>2. CASE val'[m].overall \in Final
      <3>1. ServiceStage(val'[m]) = val'[m].overall
        BY <2>2 DEF ServiceStage
      <3>2. ServiceStage(val[m]) \in {"open", "deferred"}
        BY <2>1 DEF ServiceStage
      <3>3. val'[m].overall \in Service!Decided
        BY <2>2 DEF Service!Decided, Final
      <3> QED
        BY <1>1, <3>1, <3>2, <3>3, RankFacts DEF Service!Decided
    <2>3. CASE val'[m].overall = "deferred"
      <3>1. ServiceStage(val'[m]) = "deferred" /\ ServiceStage(val[m]) = "open"
        BY <2>1, <2>3 DEF ServiceStage, Final
      <3> QED
        BY <1>1, <2>3, <3>1, RankFacts
    <2> QED
      BY <2>1, <2>2, <2>3 DEF Known
  <1>2. CASE m \notin S
    <2>1. /\ val'[m].reported = val[m].reported
          /\ val'[m] = val[m] \/ ~ShouldReport(val'[m])
          /\ val[m].overall \in Final => val'[m].overall = val[m].overall
      BY <1>2 DEF Answered
    <2>2. val'[m].overall \in Final => val[m].overall \in Final
      BY <2>1 DEF ShouldReport, ReportedInv
    <2> QED
      BY <1>2, <2>1, <2>2 DEF ServiceStage
  <1> QED
    BY <1>1, <1>2

(* A bundle that is complete wants decided pairs only.                     *)
LEMMA CompleteMayClose ==
    ASSUME TypeOK', SharingInv', ValuesInv', NEW r \in Req,
           \A m \in req'[r].mis : IsEachDaemonComplete(val'[m]),
           NEW m \in MI, r \in val'[m].parents
    PROVE  ServiceStage(val'[m]) \in Service!Decided
  <1>1. m \in req'[r].mis
    BY DEF SharingInv
  <1>2. val'[m] \in Value /\ ValueInv(val'[m])
    <2>1. val'[m] # NoVal
      BY DEF NoVal
    <2> QED
      BY <2>1 DEF ValuesInv, TypeOK
  <1> QED
    BY <1>1, <1>2, CompleteIsDecided, StageFacts

(* An answer moves the pairs that are reported forward.                    *)
LEMMA AnsweredRefines ==
    ASSUME TypeOK, TypeOK', ReportedInv, SharingInv', ValuesInv',
           NEW S \in SUBSET MI, Answered(S)
    PROVE  Service!Next \/ UNCHANGED Service!vars
  <1> DEFINE kind == [r \in Req |-> req[r].type]
             wants == [r \in Req |-> {m \in MI : r \in val[m].parents}]
             hears == {r \in Req : req[r].client \in open}
             stage == [m \in MI |-> ServiceStage(val[m])]
             next == [m \in MI |-> ServiceStage(val'[m])]
             closedBefore == {r \in Req : last[r]}
             moved == {m \in MI : next[m] # stage[m]}
  <1>1. req' = req /\ open' = open /\ \A m \in MI : val'[m].parents = val[m].parents
    BY DEF Answered
  <1>2. /\ [r \in Req |-> req'[r].type] = kind
        /\ [r \in Req |-> {m \in MI : r \in val'[m].parents}] = wants
        /\ {r \in Req : req'[r].client \in open'} = hears
    BY <1>1
  <1>3. moved = S
    BY ReportedMoves
  <1>4. \A m \in moved : Service!Rank(next[m]) > Service!Rank(stage[m])
    BY <1>3, ReportedMoves
  <1>5. told' = [r \in Req |-> [m \in MI |->
            IF m \in moved \intersect wants[r] /\ r \in hears
            THEN Append(told[r][m], next[m]) ELSE told[r][m]]]
    <2>1. \A r \in Req, m \in MI :
             /\ (m \in moved \intersect wants[r] /\ r \in hears)
                  <=> (m \in S /\ r \in val[m].parents /\ Listening(r))
             /\ m \in S => next[m] = val'[m].overall
      BY <1>3, ReportedMoves DEF Listening
    <2> HIDE DEF moved, wants, hears, next
    <2> QED
      BY <2>1 DEF Answered
  <1>6. PICK closed \in SUBSET Req :
           closed = {r \in Req : /\ \E m \in S : r \in val[m].parents
                                 /\ Listening(r) /\ freed[r] = {}
                                 /\ \A m \in req[r].mis : IsEachDaemonComplete(val'[m])}
    OBVIOUS
  <1>7. {r \in Req : last'[r]} = closedBefore \union closed
    BY <1>6 DEF Answered
  <1>8. closed \in SUBSET {r \in {q \in Req : \A m \in wants[q] :
                                     next[m] \in Service!Decided} :
                              r \in hears /\ wants[r] \intersect moved # {}}
    <2> SUFFICES ASSUME NEW r \in closed
                 PROVE  /\ \A m \in wants[r] : next[m] \in Service!Decided
                        /\ r \in hears /\ wants[r] \intersect moved # {}
      BY <1>6
    <2>1. r \in hears /\ wants[r] \intersect moved # {}
      BY <1>3, <1>6 DEF Listening
    <2>2. ASSUME NEW m \in wants[r]
          PROVE  next[m] \in Service!Decided
      <3>1. m \in MI /\ r \in val'[m].parents /\ r \in Req
        BY <1>1, <1>6, <2>2
      <3>2. \A n \in req'[r].mis : IsEachDaemonComplete(val'[n])
        BY <1>1, <1>6
      <3> QED
        BY <3>1, <3>2, CompleteMayClose
    <2> QED
      BY <2>1, <2>2
  <1>9. next \in [MI -> {"open", "deferred"} \union Service!Decided]
    BY StageFacts DEF TypeOK
  <1>10. CASE S = {}
    <2>1. next = stage
      BY <1>3, <1>10
    <2>2. told' = told
      BY <1>10 DEF Answered, TypeOK
    <2>3. {r \in Req : last'[r]} = closedBefore
      BY <1>6, <1>7, <1>10
    <2> QED
      BY <1>2, <2>1, <2>2, <2>3 DEF Service!vars
  <1>11. CASE S # {}
    <2>1. \E cl \in SUBSET {r \in Service!MayClose(next) :
                              r \in hears /\ wants[r] \intersect moved # {}} :
             {r \in Req : last'[r]} = closedBefore \union cl
      BY <1>7, <1>8 DEF Service!MayClose
    <2>2. PICK to \in [MI -> {"open", "deferred"} \union Service!Decided] :
             to = next
      BY <1>9
    <2>3. Service!Advance(to)
      BY <1>2, <1>3, <1>4, <1>5, <1>11, <2>1, <2>2 DEF Service!Advance
    <2> QED
      BY <2>3 DEF Service!Next
  <1> QED
    BY <1>10, <1>11

(* A request for pairs of a phase that runs asks for them.                 *)
LEMMA JoinedRefines ==
    ASSUME TypeOK, TypeOK', StateInv, ReportedInv, SharingInv', ValuesInv',
           NEW c \in Client, NEW mis \in SUBSET MI, NEW type \in PhaseType,
           NEW q \in Req, q = nreq + 1, Joined(q, c, mis, type)
    PROVE  Service!Ask(q, type, mis)
  <1> DEFINE wants == [r \in Req |-> {m \in MI : r \in val[m].parents}]
             stage == [m \in MI |-> ServiceStage(val[m])]
             deferred == {m \in mis : val[m].overall = "deferred"}
             decided == {m \in mis : stage[m] \in Service!Decided}
  <1>1. /\ \A m \in MI : told[q][m] = <<>> /\ q \notin val[m].parents
        /\ ~last[q]
    BY NextIsFresh DEF StateInv, FreshInv
  <1>2. Service!New(q) /\ mis # {}
    <2>1. told[q] = [m \in MI |-> <<>>]
      BY <1>1 DEF TypeOK
    <2> QED
      BY <1>1, <2>1 DEF Service!New, Joined
  <1>3. [r \in Req |-> req'[r].type] = [[r \in Req |-> req[r].type] EXCEPT ![q] = type]
    BY DEF Joined, TypeOK
  <1>4. [r \in Req |-> {m \in MI : r \in val'[m].parents}]
          = [wants EXCEPT ![q] = mis]
    <2>1. \A m \in MI, r \in Req : r \in val'[m].parents <=>
             r \in val[m].parents \/ (m \in mis /\ r = q)
      BY DEF Joined
    <2>2. {m \in MI : q \in val'[m].parents} = mis
      BY <1>1, <2>1
    <2>3. \A r \in Req \ {q} : {m \in MI : r \in val'[m].parents} = wants[r]
      BY <2>1
    <2>4. wants = [r \in Req |-> wants[r]]
      OBVIOUS
    <2> HIDE DEF wants
    <2> QED
      BY <2>2, <2>3, <2>4
  <1>5. {r \in Req : req'[r].client \in open'}
          = {r \in Req : req[r].client \in open} \union {q}
    BY DEF Joined, TypeOK
  <1>6. [m \in MI |-> ServiceStage(val'[m])] = stage
    BY DEF Joined, ServiceStage
  <1>7. deferred \in SUBSET {m \in mis : stage[m] = "deferred"}
    BY DEF ReportedInv, ServiceStage, Final
  <1>8. told' = [told EXCEPT ![q] = [m \in MI |->
            IF m \in deferred \union decided THEN <<stage[m]>> ELSE <<>>]]
    <2>1. ASSUME NEW m \in MI
          PROVE  (IF m \in mis /\ val[m].overall # "unknown"
                  THEN <<val[m].overall>> ELSE <<>>)
                 = (IF m \in deferred \union decided THEN <<stage[m]>> ELSE <<>>)
      <3>1. /\ val[m].overall \in Status
            /\ stage[m] \in Service!Decided <=> val[m].overall \in Final
            /\ val[m].overall \in Final => stage[m] = val[m].overall
        BY StageFacts DEF TypeOK, Value
      <3>2. /\ m \in deferred => stage[m] = val[m].overall
            /\ m \in deferred <=> m \in mis /\ val[m].overall = "deferred"
            /\ m \in decided <=> m \in mis /\ val[m].overall \in Final
        BY <1>7, <3>1
      <3> HIDE DEF deferred, decided, stage
      <3>3. m \in deferred \union decided
              <=> m \in mis /\ val[m].overall # "unknown"
        BY <3>1, <3>2 DEF Status, Known, Final
      <3> QED
        BY <3>1, <3>2, <3>3
    <2> HIDE DEF deferred, decided, stage
    <2>2. [m \in MI |-> IF m \in mis /\ val[m].overall # "unknown"
                        THEN <<val[m].overall>> ELSE <<>>]
          = [m \in MI |-> IF m \in deferred \union decided
                          THEN <<stage[m]>> ELSE <<>>]
      BY <2>1
    <2> QED
      BY <2>2 DEF Joined
  <1>9. LET closed == {r \in Req : last[r]}
        IN  \/ {r \in Req : last'[r]} = closed
            \/ /\ {r \in Req : last'[r]} = closed \union {q}
               /\ \A m \in mis : stage[m] \in Service!Decided
    <2>1. \A r \in Req \ {q} : last'[r] = last[r]
      BY DEF Joined
    <2>2. CASE ~last'[q]
      BY <1>1, <2>1, <2>2
    <2>3. CASE last'[q]
      <3>1. req'[q].mis = mis
        BY DEF Joined, TypeOK
      <3>2. \A m \in mis : q \in val'[m].parents /\ IsEachDaemonComplete(val'[m])
        BY <2>3 DEF Joined
      <3>3. ASSUME NEW m \in mis
            PROVE  stage[m] \in Service!Decided
        <4>1. ServiceStage(val'[m]) \in Service!Decided
          BY <3>1, <3>2, CompleteMayClose
        <4> QED
          BY <1>6, <4>1
      <3> QED
        BY <2>1, <2>3, <3>3
    <2> QED
      BY <2>2, <2>3
  <1> HIDE DEF deferred
  <1> QED
    BY <1>2, <1>3, <1>4, <1>5, <1>6, <1>7, <1>8, <1>9 DEF Service!Ask

(* A request for a phase that is over is refused, or lost.                 *)
LEMMA StaleRefines ==
    ASSUME TypeOK, StateInv, NEW c \in Client, NEW mis \in SUBSET MI,
           NEW q \in Req, q = nreq + 1,
           RejectStaleRequest(c, mis) \/ DropStaleRequest(c, mis)
    PROVE  Service!Refuse(q, mis) \/ Service!Lose(q)
  <1>1. /\ \A m \in MI : told[q][m] = <<>> /\ q \notin val[m].parents
        /\ ~last[q]
    BY NextIsFresh DEF StateInv, FreshInv
  <1>2. Service!New(q) /\ mis # {}
    <2>1. told[q] = [m \in MI |-> <<>>]
      BY <1>1 DEF TypeOK
    <2> QED
      BY <1>1, <2>1, StaleRequest DEF Service!New
  <1>3. /\ req' = [req EXCEPT ![q] =
                [mis |-> mis, type |-> "CurrentPhase", client |-> c]]
        /\ val' = val /\ open' = open /\ c \in open
    BY StaleRequest
  <1>4. [r \in Req |-> req'[r].type]
          = [[r \in Req |-> req[r].type] EXCEPT ![q] = "CurrentPhase"]
    BY <1>3 DEF TypeOK
  <1>5. {r \in Req : req'[r].client \in open'}
          = {r \in Req : req[r].client \in open} \union {q}
    BY <1>3 DEF TypeOK
  <1>6. \/ told' = told /\ last' = last
        \/ /\ told' = [told EXCEPT ![q] =
                   [m \in MI |-> IF m \in mis THEN <<"failure">> ELSE <<>>]]
           /\ last' = [last EXCEPT ![q] = TRUE]
    BY StaleRequest
  <1>7. CASE told' = told /\ last' = last
    BY <1>2, <1>3, <1>4, <1>5, <1>7 DEF Service!Lose
  <1>8. CASE /\ told' = [told EXCEPT ![q] =
                   [m \in MI |-> IF m \in mis THEN <<"failure">> ELSE <<>>]]
             /\ last' = [last EXCEPT ![q] = TRUE]
    <2>1. {r \in Req : last'[r]} = {r \in Req : last[r]} \union {q}
      BY <1>8 DEF TypeOK
    <2> QED
      BY <1>2, <1>3, <1>4, <1>5, <1>8, <2>1 DEF Service!Refuse
  <1> QED
    BY <1>6, <1>7, <1>8

(* A phase that starts fails the undecided pairs for its requests.         *)
LEMMA PhaseRefines ==
    ASSUME TypeOK, TypeOK', ValuesInv, PhaseStarted
    PROVE  Service!NewPhase
  <1> DEFINE kind == [r \in Req |-> req[r].type]
             wants == [r \in Req |-> {m \in MI : r \in val[m].parents}]
             hears == {r \in Req : req[r].client \in open}
             stage == [m \in MI |-> ServiceStage(val[m])]
             undecided == {m \in MI : stage[m] \notin Service!Decided}
             fails(r) == IF kind[r] = "CurrentPhase"
                         THEN undecided \intersect wants[r] ELSE {}
             forgotten == {m \in undecided : \A r \in Req :
                              m \in wants[r] => kind[r] = "CurrentPhase"}
  <1>1. /\ [r \in Req |-> req'[r].type] = kind
        /\ {r \in Req : req'[r].client \in open'} = hears
        /\ {r \in Req : last'[r]} = {r \in Req : last[r]}
    BY DEF PhaseStarted
  <1>2. /\ undecided = {m \in MI : val[m].overall \notin Final}
        /\ \A m \in undecided : m \in Undecided \/ val[m] = NoVal
    BY StageFacts DEF TypeOK, ValuesInv, Undecided
  <1>3. Undecided \subseteq undecided
    BY <1>2 DEF Undecided
  <1>4. /\ NoVal.parents = {} /\ ServiceStage(NoVal) = "open"
    BY DEF NoVal, ServiceStage, Final
  <1>5. \A m \in MI : val[m].parents \subseteq Req
    BY DEF TypeOK, Value
  <1>6. /\ Gone \subseteq forgotten
        /\ \A m \in forgotten : m \in Gone \/ val[m] = NoVal
    <2>1. \A m \in Undecided : m \in Gone <=> m \in forgotten
      BY <1>3, <1>5 DEF Gone, Undecided
    <2>2. Gone \subseteq Undecided
      BY DEF Gone
    <2>3. forgotten \subseteq undecided
      OBVIOUS
    <2> QED
      BY <1>2, <2>1, <2>2, <2>3
  <1>7. \A m \in MI : /\ m \in forgotten => val'[m] = NoVal
                      /\ m \notin forgotten => val'[m] = val[m]
    <2>1. val' = [m \in MI |-> IF m \in Gone THEN NoVal ELSE val[m]]
      BY DEF PhaseStarted
    <2> HIDE DEF forgotten
    <2> QED
      BY <1>6, <2>1
  <1>8. told' = [r \in Req |-> [m \in MI |->
               IF m \in fails(r) /\ r \in hears
               THEN Append(told[r][m], "failure") ELSE told[r][m]]]
    <2>1. \A r \in Req, m \in MI :
             (m \in fails(r) /\ r \in hears)
             <=> /\ m \in Undecided /\ r \in val[m].parents
                 /\ req[r].type = "CurrentPhase" /\ Listening(r)
      BY <1>2, <1>3, <1>4 DEF Listening
    <2> HIDE DEF fails, hears
    <2> QED
      BY <2>1 DEF PhaseStarted
  <1>9. [r \in Req |-> {m \in MI : r \in val'[m].parents}]
          = [r \in Req |-> wants[r] \ forgotten]
    <2>1. \A r \in Req : {m \in MI : r \in val'[m].parents} = wants[r] \ forgotten
      <3> HIDE DEF forgotten
      <3> QED
        BY <1>4, <1>7
    <2> HIDE DEF forgotten, wants
    <2> QED
      BY <2>1
  <1>10. [m \in MI |-> ServiceStage(val'[m])]
           = [m \in MI |-> IF m \in forgotten THEN "open" ELSE stage[m]]
    <2> HIDE DEF forgotten
    <2> QED
      BY <1>4, <1>7
  <1> QED
    BY <1>1, <1>8, <1>9, <1>10 DEF Service!NewPhase

(* Every step is a step of the service or none.                            *)
LEMMA StepRefines ==
    ASSUME FocusMatched, TypeOK, ProtocolInv, ReportedInv, [Next]_vars
    PROVE  [Service!Next]_Service!vars
  <1>0. /\ TypeOK' /\ StateInv /\ SharingInv' /\ ValuesInv' /\ ValuesInv
    BY InvNext, TypeNext DEF ProtocolInv, StateInv
  <1>1. CASE Unheard
    BY <1>0, <1>1, UnheardRefines
  <1>2. ASSUME NEW S \in SUBSET MI, Answered(S)
        PROVE  Service!Next \/ UNCHANGED Service!vars
    BY <1>0, <1>2, AnsweredRefines
  <1>3. ASSUME NEW c \in Client, NEW mis \in SUBSET MI, NEW type \in PhaseType,
               nreq + 1 \in Req, Joined(nreq + 1, c, mis, type)
        PROVE  Service!Next
    <2>1. PICK q \in Req : q = nreq + 1
      BY <1>3
    <2>2. Service!Ask(q, type, mis)
      BY <1>0, <1>3, <2>1, JoinedRefines
    <2> QED
      BY <2>2 DEF Service!Next, PhaseType
  <1>4. ASSUME NEW c \in Client, NEW mis \in SUBSET MI,
               RejectStaleRequest(c, mis) \/ DropStaleRequest(c, mis)
        PROVE  Service!Next
    <2>1. PICK q \in Req : q = nreq + 1
      BY <1>4, StaleRequest
    <2>2. Service!Refuse(q, mis) \/ Service!Lose(q)
      BY <1>0, <1>4, <2>1, StaleRefines
    <2> QED
      BY <2>2 DEF Service!Next
  <1>5. CASE PhaseStarted
    BY <1>0, <1>5, PhaseRefines DEF Service!Next
  <1>6. ASSUME NEW c \in Client, DestroyPerformanceStream(c)
        PROVE  Service!Next
    <2> DEFINE rs == {r \in Req : req[r].client = c}
    <2>1. /\ open' = open \ {c}
          /\ UNCHANGED <<req, val, told, last>>
      BY <1>6 DEF DestroyPerformanceStream
    <2>2. {r \in Req : req'[r].client \in open'}
            = {r \in Req : req[r].client \in open} \ rs
      BY <2>1
    <2>3. PICK gone \in SUBSET Req : gone = rs
      OBVIOUS
    <2>4. Service!StopListening(gone)
      BY <2>1, <2>2, <2>3 DEF Service!StopListening
    <2> QED
      BY <2>4 DEF Service!Next
  <1> QED
    BY StepIsSeen, <1>1, <1>2, <1>3, <1>4, <1>5, <1>6

(* The enable protocol gives its clients the service EnableService states: *)
(* each handler is one step of the service, or none.                       *)
THEOREM ServiceImplemented ==
    ASSUME FocusMatched PROVE Spec => ImplementsService
  <1>1. Init => Service!Init
    <2> SUFFICES ASSUME Init PROVE Service!Init
      OBVIOUS
    <2>1. [r \in Req |-> req[r].type] \in [Req -> {"CurrentPhase", "GlobalPhase"}]
      BY DEF Init, NoRequest
    <2>2. [r \in Req |-> {m \in MI : r \in val[m].parents}] = [r \in Req |-> {}]
      BY DEF Init, NoVal
    <2>3. [m \in MI |-> ServiceStage(val[m])] = [m \in MI |-> "open"]
      BY DEF Init, NoVal, ServiceStage, Final
    <2>4. {r \in Req : last[r]} = {}
      BY DEF Init
    <2>5. told = [r \in Req |-> [m \in MI |-> <<>>]]
      BY DEF Init
    <2> QED
      BY <2>1, <2>2, <2>3, <2>4, <2>5 DEF Service!Init
  <1>2. TypeOK /\ ProtocolInv /\ ClientInv /\ [Next]_vars =>
          [Service!Next]_Service!vars
    BY StepRefines DEF ClientInv
  <1> QED
    BY <1>1, <1>2, TypeCorrect, ProtocolCorrect, ClientCorrect, PTL
    DEF Spec, ImplementsService, Service!Spec
=============================================================================
