------------------------ MODULE MetricFocusReqProofs ------------------------
(***************************************************************************)
(* Theorems of MetricFocusReq, for every set of daemons, clients and       *)
(* metric instances and every bound: its types; then, when every focus     *)
(* selects a daemon that is attached from the start, its protocol          *)
(* invariant and what follows from it: no deleted bundle is reached, a     *)
(* decision is unanimous and final, and nothing is told after the last     *)
(* packet.                                                                 *)
(***************************************************************************)
EXTENDS MetricFocusReq, FiniteSetTheorems, SequenceTheorems, TLAPS

-----------------------------------------------------------------------------
(* Merging the answers of the daemons *)

(* The daemons in some state are finitely many. *)
LEMMA InFinite ==
    ASSUME NEW st \in [Daemon -> Status], NEW S
    PROVE  /\ In(st, S) \subseteq Daemon
           /\ IsFiniteSet(In(st, S))
           /\ Cardinality(In(st, S)) \in Nat
  BY ConstantsAssumption, FS_Subset, FS_CardinalityType DEF In

(* The merged state is a state. *)
LEMMA OverallType ==
    ASSUME NEW st, NEW num
    PROVE  Overall(st, num) \in Status
  BY DEF Overall, Status, Known, Final

(* A new answer of a daemon leaves a value a value. *)
LEMMA SetNewDmnStateType ==
    ASSUME NEW v \in Value, NEW d \in Daemon, NEW s \in Known
    PROVE  LET w == SetNewDmnState(v, d, s)
           IN  /\ w \in Value
               /\ w.live = v.live /\ w.num = v.num /\ w.sent = v.sent
               /\ w.reported = v.reported /\ w.parents = v.parents
               /\ w.first = v.first /\ w.asked = v.asked
  <1> DEFINE st == [v.st EXCEPT ![d] = s]
  <1>1. st \in [Daemon -> Status]
    BY DEF Value, Status
  <1>2. Overall(st, v.num) \in Status
    BY OverallType
  <1> HIDE DEF st
  <1>3. SetNewDmnState(v, d, s)
          = [v EXCEPT !.st = st, !.overall = Overall(st, v.num)]
    BY DEF SetNewDmnState, st
  <1> QED
    BY <1>1, <1>2, <1>3 DEF Value

(* The daemons a focus selects are finitely many. *)
LEMMA MatchingFinite ==
    ASSUME TypeOK, NEW m \in MI
    PROVE  /\ Matching(m) \subseteq Daemon
           /\ IsFiniteSet(Matching(m))
           /\ Cardinality(Matching(m)) \in Nat
  BY ConstantsAssumption, FS_Subset, FS_CardinalityType DEF Matching, TypeOK

(* A new value is a value. *)
LEMMA NewValType ==
    ASSUME TypeOK, NEW m \in MI
    PROVE  NoVal \in Value /\ NewVal(m) \in Value
  BY MatchingFinite DEF NewVal, NoVal, Value, Status

(* Telling keeps the type of what clients were told. *)
LEMMA TellType ==
    ASSUME TypeOK, NEW S, NEW to, NEW status,
           \A m \in S \intersect MI : status[m] \in Known
    PROVE  Tell(S, to, status) \in [Req -> [MI -> Seq(Known)]]
  BY DEF Tell, TypeOK

(* The flags of the last packets stay Boolean. *)
LEMMA FlagLastType ==
    ASSUME TypeOK, NEW rs, NEW v
    PROVE  FlagLast(rs, v) \in [Req -> BOOLEAN]
  BY DEF FlagLast, TypeOK

-----------------------------------------------------------------------------
(* Type correctness *)

(* The initial state has its types. *)
LEMMA TypeInit == Init => TypeOK
  BY ConstantsAssumption
  DEF Init, TypeOK, NoVal, NoRequest, Value, Request, PhaseType, Status

(* Removing components and disabling them keeps the types. *)
LEMMA RemovalType ==
    ASSUME TypeOK, NEW S \in SUBSET MI, NEW d \in Daemon
    PROVE  /\ WithoutComponents(S, d) \in [MI -> SUBSET Daemon]
           /\ DisableComponents(S, d) \in [Daemon -> SUBSET MI]
           /\ \A m \in MI : comps[m] \union {d} \subseteq Daemon
  BY DEF WithoutComponents, DisableComponents, TypeOK

(* Answers without the pairs whose nodes are gone are answers: about the   *)
(* same pairs of the same bundles.                                         *)
LEMMA DropType ==
    ASSUME NEW as, \A a \in as : IsAnswer(a), NEW S,
           NEW b \in DropDeferred(S, as)
    PROVE  IsAnswer(b) /\ \E a \in as : b.req = a.req /\ b.st = a.st
  <1>1. PICK a \in as : b = [a EXCEPT !.open = @ \ S]
    BY DEF DropDeferred
  <1>2. b.req = a.req /\ b.st = a.st
    BY <1>1
  <1>3. b.open = a.open \ S \/ b.open = a.open
    BY <1>1
  <1> QED
    BY <1>2, <1>3 DEF IsAnswer

(* Merging an answer keeps the types. *)
LEMMA TypeUpdate ==
    ASSUME TypeOK, NEW r \in Req, NEW d \in Daemon, NEW D \in SUBSET MI,
           NEW st \in [D -> Known], NEW lost \in SUBSET D,
           UpdateWithEnableCallback(r, d, st, lost)
    PROVE  /\ bundle' \in [Req -> {"none", "active", "deleted"}]
           /\ val' \in [MI -> Value]
           /\ \A m \in MI : val'[m].live => val'[m].first # 0
           /\ mi' \in [MI -> {"none", "idle", "enabled", "deleted"}]
           /\ comps' \in [MI -> SUBSET Daemon]
           /\ disabled' \in [Daemon -> SUBSET MI]
           /\ told' \in [Req -> [MI -> Seq(Known)]]
           /\ last' \in [Req -> BOOLEAN]
           /\ fault' \in {"none", "freed", "dangling", "assert"}
           /\ UNCHANGED <<allDaemons, phase, programs, open, nreq, req,
                          requestedOn, freed>>
  <1> DEFINE news == {m \in D : Reportable(val[m].st[d], st[m])}
             now == [m \in MI |->
                       IF m \in news THEN SetNewDmnState(val[m], d, st[m])
                                     ELSE val[m]]
             report == {m \in news : ShouldReport(now[m])}
             newState == [m \in MI |-> now[m].overall]
  <1>0. DOMAIN st = D
    OBVIOUS
  <1>1. /\ now \in [MI -> Value]
        /\ \A m \in MI : /\ now[m].live = val[m].live
                         /\ now[m].first = val[m].first
    BY SetNewDmnStateType DEF TypeOK
  <1>2. \A m \in report \intersect MI : newState[m] \in Known
    BY DEF ShouldReport, Known
  <1>3. \A m \in report : [now[m] EXCEPT !.reported = @ \union {now[m].overall}]
                            \in Value
    <2> SUFFICES ASSUME NEW m \in report
                 PROVE  [now[m] EXCEPT !.reported = @ \union {now[m].overall}]
                          \in Value
      OBVIOUS
    <2>1. now[m] \in Value /\ now[m].overall \in Known
      BY <1>1, <1>2
    <2> HIDE DEF now
    <2> QED
      BY <2>1 DEF Value
  <1>4. CASE Fail("freed") \/ Fail("assert") \/ Fail("dangling")
    BY <1>4 DEF Fail, TypeOK
  <1>5. CASE ~(Fail("freed") \/ Fail("assert") \/ Fail("dangling"))
    <2>1. /\ val' = [m \in MI |->
                  IF m \in report
                  THEN [now[m] EXCEPT !.reported = @ \union {now[m].overall}]
                  ELSE now[m]]
          /\ comps' = [m \in MI |->
                  IF m \in news /\ st[m] = "success"
                  THEN comps[m] \union {d} ELSE WithoutComponents(lost, d)[m]]
          /\ disabled' = DisableComponents(lost, d)
          /\ \E ready : mi' = [m \in MI |-> IF m \in ready THEN "enabled"
                                                         ELSE mi[m]]
          /\ \E to : told' = Tell(report, to, newState)
          /\ \E rs : last' = FlagLast(rs, now)
          /\ \/ bundle' = [bundle EXCEPT ![r] = "deleted"]
             \/ bundle' = bundle
          /\ UNCHANGED <<allDaemons, phase, programs, open, nreq, req,
                         requestedOn, freed, fault>>
      BY <1>0, <1>5 DEF UpdateWithEnableCallback
    <2>2. val' \in [MI -> Value]
      BY <2>1, <1>1, <1>3
    <2>5. \A m \in MI : val'[m].live => val'[m].first # 0
      <3> HIDE DEF now, report
      <3>1. \A m \in MI : /\ val'[m].live = now[m].live
                          /\ val'[m].first = now[m].first
        BY <2>1, <1>1 DEF Value
      <3> QED
        BY <3>1, <1>1 DEF TypeOK
    <2>3. told' \in [Req -> [MI -> Seq(Known)]]
      <3>1. PICK to : told' = Tell(report, to, newState)
        BY <2>1
      <3>2. \A m \in report \intersect MI : newState[m] \in Known
        BY <1>2
      <3> HIDE DEF report, newState
      <3> QED
        BY <3>1, <3>2, TellType
    <2>4. last' \in [Req -> BOOLEAN]
      BY <2>1, FlagLastType
    <2>6. /\ comps' \in [MI -> SUBSET Daemon]
          /\ disabled' \in [Daemon -> SUBSET MI]
      <3>1. /\ WithoutComponents(lost, d) \in [MI -> SUBSET Daemon]
            /\ DisableComponents(lost, d) \in [Daemon -> SUBSET MI]
            /\ \A m \in MI : comps[m] \union {d} \subseteq Daemon
        BY RemovalType
      <3> DEFINE good == {m \in news : st[m] = "success"}
      <3>2. comps' = [m \in MI |-> IF m \in good THEN comps[m] \union {d}
                                   ELSE WithoutComponents(lost, d)[m]]
        BY <2>1
      <3>3. disabled' = DisableComponents(lost, d)
        BY <2>1
      <3> HIDE DEF good
      <3> QED
        BY <3>1, <3>2, <3>3
    <2> QED
      BY <2>1, <2>2, <2>3, <2>4, <2>5, <2>6 DEF TypeOK
  <1> QED
    BY <1>4, <1>5

(* Handling an answer of a daemon keeps the types. *)
LEMMA TypeDeliver ==
    ASSUME TypeOK, NEW r \in Req, NEW d \in Daemon, NEW D \in SUBSET MI,
           NEW st \in [D -> Known], NEW lost \in SUBSET D,
           Deliver(r, d, st, lost),
           nodes' \in [Daemon -> SUBSET MI],
           pending' \in [Daemon -> Seq(Messages)],
           DOMAIN deferrals' = Daemon,
           \A e \in Daemon : \A a \in deferrals'[e] : IsAnswer(a)
    PROVE  TypeOK'
  <1>1. CASE bundle[r] = "active"
    <2>1. UpdateWithEnableCallback(r, d, st, lost)
      BY <1>1 DEF Deliver
    <2> QED
      BY <2>1, TypeUpdate DEF TypeOK, IsAnswer
  <1>2. CASE bundle[r] # "active"
    <2>1. /\ UNCHANGED <<allDaemons, phase, programs, open, nreq, req, bundle,
                         requestedOn, freed, val, mi, told, last, fault>>
          /\ comps' = WithoutComponents(lost, d)
          /\ disabled' = DisableComponents(lost, d)
      BY <1>2 DEF Deliver
    <2>2. /\ comps' \in [MI -> SUBSET Daemon]
          /\ disabled' \in [Daemon -> SUBSET MI]
      BY <2>1, RemovalType
    <2> QED
      BY <2>1, <2>2 DEF TypeOK, IsAnswer
  <1> QED
    BY <1>1, <1>2

(* A new bundle, its values and its messages have their types. *)
LEMMA TypeEnableDataRequest ==
    ASSUME TypeOK, NEW c \in Client, NEW mis \in SUBSET MI,
           NEW type \in PhaseType, EnableDataRequest(c, mis, type)
    PROVE  TypeOK'
  <1> DEFINE r == nreq + 1
             base == [m \in MI |-> IF m \in mis
                   THEN IF val[m].live THEN val[m] ELSE NewVal(m)
                   ELSE val[m]]
             decided == {m \in mis : base[m].overall # "unknown"}
             unsent == {m \in mis : ~base[m].sent /\ Matching(m) # {}}
             message(d) == [req |-> r,
                            mis |-> {m \in unsent : d \in Matching(m)},
                            disables |-> disabled[d]]
  <1>0. nreq < NumReq /\ nreq' = r
    BY DEF EnableDataRequest
  <1>1. r \in Req /\ r # 0
    BY <1>0, ConstantsAssumption DEF TypeOK, Req
  <1>2. base \in [MI -> Value]
    BY NewValType DEF TypeOK
  <1>3. val' \in [MI -> Value]
    <2>1. \A m \in mis : [base[m] EXCEPT
                       !.parents = @ \union {r},
                       !.first = IF val[m].live THEN @ ELSE r,
                       !.sent = @ \/ m \in unsent,
                       !.asked = IF m \in unsent THEN Matching(m) ELSE @]
                     \in Value
      <3> SUFFICES ASSUME NEW m \in mis
                   PROVE  [base[m] EXCEPT
                       !.parents = @ \union {r},
                       !.first = IF val[m].live THEN @ ELSE r,
                       !.sent = @ \/ m \in unsent,
                       !.asked = IF m \in unsent THEN Matching(m) ELSE @]
                     \in Value
        OBVIOUS
      <3>1. base[m] \in Value
        BY <1>2
      <3>2. Matching(m) \subseteq Daemon
        BY MatchingFinite
      <3>3. (base[m].sent \/ m \in unsent) \in BOOLEAN
        BY <3>1 DEF Value
      <3> HIDE DEF base, unsent, r
      <3> QED
        BY <3>1, <3>2, <3>3, <1>1 DEF Value
    <2> QED
      BY <2>1 DEF EnableDataRequest, CreateReq, Unsent, TypeOK
  <1>10. \A m \in MI : val'[m].live => val'[m].first # 0
    <2>1. \A m \in mis : /\ val'[m].live = base[m].live
                         /\ val'[m].first = IF val[m].live THEN base[m].first
                                                           ELSE r
      <3>1. \A m \in mis : val'[m] =
               [base[m] EXCEPT
                  !.parents = @ \union {r},
                  !.first = IF val[m].live THEN @ ELSE r,
                  !.sent = @ \/ m \in unsent,
                  !.asked = IF m \in unsent THEN Matching(m) ELSE @]
        BY DEF EnableDataRequest, CreateReq, Unsent
      <3>2. \A m \in mis : base[m] \in Value
        BY <1>2
      <3> HIDE DEF base, unsent, r
      <3> QED
        BY <3>1, <3>2 DEF Value
    <2>2. \A m \in mis : val[m].live => base[m] = val[m]
      OBVIOUS
    <2>3. \A m \in MI \ mis : val'[m] = val[m]
      BY DEF EnableDataRequest
    <2> QED
      BY <2>1, <2>2, <2>3, <1>1 DEF TypeOK
  <1>4. told' \in [Req -> [MI -> Seq(Known)]]
    <2>1. \A m \in decided : base[m].overall \in Known
      BY <1>2 DEF Value, Status
    <2>2. told' = [told EXCEPT ![r] = [m \in MI |->
                     IF m \in decided THEN <<base[m].overall>> ELSE <<>>]]
      BY DEF EnableDataRequest, CreateReq
    <2> HIDE DEF base, decided
    <2>3. [m \in MI |-> IF m \in decided THEN <<base[m].overall>> ELSE <<>>]
            \in [MI -> Seq(Known)]
      BY <2>1
    <2> QED
      BY <2>2, <2>3 DEF TypeOK
  <1>5. pending' \in [Daemon -> Seq(Messages)]
    <2>1. \A d \in Daemon : message(d) \in Messages
      BY <1>1 DEF Messages, TypeOK
    <2>2. pending' = [d \in Daemon |->
               IF message(d).mis = {} THEN pending[d]
               ELSE Append(pending[d], message(d))]
      BY DEF EnableDataRequest, CreateReq, Unsent, EnableMessage
    <2> HIDE DEF message
    <2> QED
      BY <2>1, <2>2 DEF TypeOK
  <1>6. last' \in [Req -> BOOLEAN] /\ disabled' \in [Daemon -> SUBSET MI]
    BY DEF EnableDataRequest, TypeOK
  <1>7. /\ nreq' \in 0 .. NumReq
        /\ req' \in [Req -> Request]
        /\ bundle' \in [Req -> {"none", "active", "deleted"}]
    <2>1. nreq' \in 0 .. NumReq
      BY <1>0, <1>1 DEF Req
    <2>2. req' = [req EXCEPT ![r] = [mis |-> mis, type |-> type, client |-> c]]
      BY DEF EnableDataRequest
    <2>3. [mis |-> mis, type |-> type, client |-> c] \in Request
      BY DEF Request
    <2>4. bundle' = [bundle EXCEPT ![r] = "active"]
      BY DEF EnableDataRequest
    <2> QED
      BY <2>1, <2>2, <2>3, <2>4 DEF TypeOK
  <1>8. requestedOn' \in [Req -> [MI -> SUBSET Daemon]]
    BY <1>1, MatchingFinite DEF EnableDataRequest, TypeOK
  <1>9. mi' \in [MI -> {"none", "idle", "enabled", "deleted"}]
    BY DEF EnableDataRequest, CreateReq, ReadyMI, TypeOK
  <1> QED
    BY <1>3, <1>4, <1>5, <1>6, <1>7, <1>8, <1>9, <1>10
    DEF EnableDataRequest, TypeOK, IsAnswer

(* So do requests for a phase that is over. *)
LEMMA TypeStaleRequest ==
    ASSUME TypeOK, NEW c \in Client, NEW mis \in SUBSET MI,
           RejectStaleRequest(c, mis) \/ DropStaleRequest(c, mis)
    PROVE  TypeOK'
  <1>1. nreq + 1 \in Req /\ nreq + 1 \in 0 .. NumReq
    BY ConstantsAssumption
    DEF RejectStaleRequest, DropStaleRequest, TypeOK, Req
  <1>2. [m \in MI |-> IF m \in mis THEN <<"failure">> ELSE <<>>]
          \in [MI -> Seq(Known)]
    <2>1. "failure" \in Known
      BY DEF Known, Final
    <2>2. <<"failure">> \in Seq(Known) /\ <<>> \in Seq(Known)
      BY <2>1
    <2> QED
      BY <2>2
  <1>3. req' \in [Req -> Request]
    <2>1. [mis |-> mis, type |-> "CurrentPhase", client |-> c] \in Request
      BY DEF Request, PhaseType
    <2>2. req' = [req EXCEPT ![nreq + 1] =
                    [mis |-> mis, type |-> "CurrentPhase", client |-> c]]
      BY DEF RejectStaleRequest, DropStaleRequest
    <2> QED
      BY <2>1, <2>2 DEF TypeOK
  <1>4. told' \in [Req -> [MI -> Seq(Known)]]
    BY <1>2 DEF RejectStaleRequest, DropStaleRequest, TypeOK
  <1> QED
    BY <1>1, <1>3, <1>4
    DEF RejectStaleRequest, DropStaleRequest, TypeOK, IsAnswer

(* The parts of an answer: the pairs it defers, those it made a node for   *)
(* and those it lost the node of.                                          *)
LEMMA AnswerParts ==
    ASSUME TypeOK, NEW d \in Daemon, EnableDataCallback(d)
    PROVE  \E st \in [Head(pending[d]).mis -> Known],
              lost \in SUBSET Head(pending[d]).mis,
              made \in SUBSET Head(pending[d]).mis,
              open_ \in SUBSET Head(pending[d]).mis :
             /\ nodes' = [nodes EXCEPT ![d] = (@ \ lost) \union made]
             /\ deferrals' = [deferrals EXCEPT ![d] =
                    DropDeferred(lost, @) \union
                    (IF open_ = {} THEN {}
                     ELSE {[req |-> Head(pending[d]).req, st |-> st,
                            open |-> open_]})]
             /\ Deliver(Head(pending[d]).req, d, st, lost)
  <1> DEFINE r == Head(pending[d]).req
             mis == Head(pending[d]).mis
             with(st, s) == {m \in mis : st[m] = s}
  <1>1. PICK st \in [mis -> Known] :
          \E lost \in SUBSET (with(st, "failure") \intersect nodes[d]) :
             /\ nodes' = [nodes EXCEPT ![d] =
                    (@ \ lost) \union with(st, "success")
                               \union with(st, "deferred")]
             /\ deferrals' = [deferrals EXCEPT ![d] =
                    DropDeferred(lost, @) \union
                    (IF with(st, "deferred") = {} THEN {}
                     ELSE {[req |-> r, st |-> st,
                            open |-> with(st, "deferred")]})]
             /\ Deliver(r, d, st, lost)
    BY DEF EnableDataCallback
  <1>2. PICK lost \in SUBSET (with(st, "failure") \intersect nodes[d]) :
             /\ nodes' = [nodes EXCEPT ![d] =
                    (@ \ lost) \union with(st, "success")
                               \union with(st, "deferred")]
             /\ deferrals' = [deferrals EXCEPT ![d] =
                    DropDeferred(lost, @) \union
                    (IF with(st, "deferred") = {} THEN {}
                     ELSE {[req |-> r, st |-> st,
                            open |-> with(st, "deferred")]})]
             /\ Deliver(r, d, st, lost)
    BY <1>1
  <1> DEFINE made == with(st, "success") \union with(st, "deferred")
             open_ == with(st, "deferred")
  <1>3. /\ lost \in SUBSET mis /\ made \in SUBSET mis /\ open_ \in SUBSET mis
        /\ (nodes[d] \ lost) \union with(st, "success")
                            \union with(st, "deferred")
             = (nodes[d] \ lost) \union made
    OBVIOUS
  <1>4. nodes' = [nodes EXCEPT ![d] = (@ \ lost) \union made]
    BY <1>2, <1>3
  <1>5. /\ deferrals' = [deferrals EXCEPT ![d] =
               DropDeferred(lost, @) \union
               (IF open_ = {} THEN {}
                ELSE {[req |-> r, st |-> st, open |-> open_]})]
        /\ Deliver(r, d, st, lost)
    BY <1>2
  <1> HIDE DEF made, open_, r, mis
  <1> QED
    BY <1>3, <1>4, <1>5 DEF r, mis

(* A daemon answering its oldest message keeps the types. *)
LEMMA TypeEnableDataCallback ==
    ASSUME TypeOK, NEW d \in Daemon, EnableDataCallback(d)
    PROVE  TypeOK'
  <1>1. /\ Head(pending[d]) \in Messages /\ Head(pending[d]).req # 0
        /\ pending' \in [Daemon -> Seq(Messages)]
    BY DEF EnableDataCallback, TypeOK
  <1>2. /\ Head(pending[d]).req \in Req
        /\ Head(pending[d]).mis \in SUBSET MI
    BY <1>1 DEF Messages
  <1>3. PICK st \in [Head(pending[d]).mis -> Known],
             lost \in SUBSET Head(pending[d]).mis,
             made \in SUBSET Head(pending[d]).mis,
             open_ \in SUBSET Head(pending[d]).mis :
          /\ nodes' = [nodes EXCEPT ![d] = (@ \ lost) \union made]
          /\ deferrals' = [deferrals EXCEPT ![d] =
                 DropDeferred(lost, @) \union
                 (IF open_ = {} THEN {}
                  ELSE {[req |-> Head(pending[d]).req, st |-> st,
                         open |-> open_]})]
          /\ Deliver(Head(pending[d]).req, d, st, lost)
    BY AnswerParts
  <1>4. IsAnswer([req |-> Head(pending[d]).req, st |-> st, open |-> open_])
    BY <1>2 DEF IsAnswer
  <1>5. /\ DOMAIN deferrals' = Daemon
        /\ \A e \in Daemon : \A a \in deferrals'[e] : IsAnswer(a)
    BY <1>3, <1>4, DropType DEF TypeOK
  <1>6. nodes' \in [Daemon -> SUBSET MI]
    BY <1>2, <1>3 DEF TypeOK
  <1> QED
    BY <1>1, <1>2, <1>3, <1>5, <1>6, TypeDeliver

(* A deferred pair is decided: the answer that is sent, and what is kept.  *)
LEMMA DeferredParts ==
    ASSUME TypeOK, NEW d \in Daemon, DeferredCallback(d)
    PROVE  \E a \in deferrals[d] : \E b :
             \E lost \in SUBSET DOMAIN a.st, st \in [DOMAIN a.st -> Known] :
             /\ IsAnswer(b) /\ b.req = a.req /\ DOMAIN b.st = DOMAIN a.st
             /\ nodes' = [nodes EXCEPT ![d] = @ \ lost]
             /\ deferrals' = [deferrals EXCEPT ![d] =
                    DropDeferred(lost, @ \ {a}) \union
                    (IF b.open = {} THEN {} ELSE {b})]
             /\ Deliver(a.req, d, st, lost)
             /\ Running /\ UNCHANGED pending
  <1>0. PICK a \in deferrals[d], s \in Final :
          \E m \in a.open :
            LET st == [a.st EXCEPT ![m] = s]
                lost == IF s = "failure" THEN {m} ELSE {}
                b == [a EXCEPT !.st = st, !.open = @ \ {m}]
            IN  /\ nodes' = [nodes EXCEPT ![d] = @ \ lost]
                /\ deferrals' = [deferrals EXCEPT ![d] =
                       DropDeferred(lost, @ \ {a}) \union
                       (IF b.open = {} THEN {} ELSE {b})]
                /\ Deliver(a.req, d, st, lost)
                /\ Running /\ UNCHANGED pending
    BY DEF DeferredCallback
  <1>1. PICK m \in a.open :
          LET st == [a.st EXCEPT ![m] = s]
              lost == IF s = "failure" THEN {m} ELSE {}
              b == [a EXCEPT !.st = st, !.open = @ \ {m}]
          IN  /\ nodes' = [nodes EXCEPT ![d] = @ \ lost]
              /\ deferrals' = [deferrals EXCEPT ![d] =
                     DropDeferred(lost, @ \ {a}) \union
                     (IF b.open = {} THEN {} ELSE {b})]
              /\ Deliver(a.req, d, st, lost)
              /\ Running /\ UNCHANGED pending
    BY <1>0
  <1> DEFINE st == [a.st EXCEPT ![m] = s]
             lost == IF s = "failure" THEN {m} ELSE {}
             b == [a EXCEPT !.st = st, !.open = @ \ {m}]
  <1>2. IsAnswer(a)
    BY DEF TypeOK
  <1>3. st \in [DOMAIN a.st -> Known] /\ lost \in SUBSET DOMAIN a.st
    BY <1>2 DEF IsAnswer, Known
  <1>4. b.req = a.req
    OBVIOUS
  <1>5. b.st = st \/ b.st = a.st
    OBVIOUS
  <1>6. b.open = a.open \ {m} \/ b.open = a.open
    OBVIOUS
  <1>7. /\ nodes' = [nodes EXCEPT ![d] = @ \ lost]
        /\ deferrals' = [deferrals EXCEPT ![d] =
               DropDeferred(lost, @ \ {a}) \union
               (IF b.open = {} THEN {} ELSE {b})]
        /\ Deliver(a.req, d, st, lost)
        /\ Running /\ UNCHANGED pending
    BY <1>1
  <1> HIDE DEF st, lost, b
  <1>8. DOMAIN b.st = DOMAIN a.st
    BY <1>3, <1>5
  <1>9. IsAnswer(b)
    BY <1>2, <1>3, <1>4, <1>5, <1>6 DEF IsAnswer
  <1> QED
    BY <1>3, <1>4, <1>7, <1>8, <1>9

(* A deferred pair that is decided keeps the types. *)
LEMMA TypeDeferredCallback ==
    ASSUME TypeOK, NEW d \in Daemon, DeferredCallback(d)
    PROVE  TypeOK'
  <1>0. PICK a \in deferrals[d] : \E b :
             \E lost \in SUBSET DOMAIN a.st, st \in [DOMAIN a.st -> Known] :
             /\ IsAnswer(b)
             /\ nodes' = [nodes EXCEPT ![d] = @ \ lost]
             /\ deferrals' = [deferrals EXCEPT ![d] =
                    DropDeferred(lost, @ \ {a}) \union
                    (IF b.open = {} THEN {} ELSE {b})]
             /\ Deliver(a.req, d, st, lost)
             /\ UNCHANGED pending
    BY DeferredParts
  <1>1. PICK b : \E lost \in SUBSET DOMAIN a.st, st \in [DOMAIN a.st -> Known] :
             /\ IsAnswer(b)
             /\ nodes' = [nodes EXCEPT ![d] = @ \ lost]
             /\ deferrals' = [deferrals EXCEPT ![d] =
                    DropDeferred(lost, @ \ {a}) \union
                    (IF b.open = {} THEN {} ELSE {b})]
             /\ Deliver(a.req, d, st, lost)
             /\ UNCHANGED pending
    BY <1>0
  <1>2. PICK lost \in SUBSET DOMAIN a.st, st \in [DOMAIN a.st -> Known] :
             /\ IsAnswer(b)
             /\ nodes' = [nodes EXCEPT ![d] = @ \ lost]
             /\ deferrals' = [deferrals EXCEPT ![d] =
                    DropDeferred(lost, @ \ {a}) \union
                    (IF b.open = {} THEN {} ELSE {b})]
             /\ Deliver(a.req, d, st, lost)
             /\ UNCHANGED pending
    BY <1>1
  <1>3. a.req \in Req /\ DOMAIN a.st \in SUBSET MI
    BY DEF TypeOK, IsAnswer
  <1>4. /\ DOMAIN deferrals' = Daemon
        /\ \A e \in Daemon : \A x \in deferrals'[e] : IsAnswer(x)
    <2>1. \A x \in DropDeferred(lost, deferrals[d] \ {a}) : IsAnswer(x)
      <3>1. \A y \in deferrals[d] \ {a} : IsAnswer(y)
        BY DEF TypeOK
      <3> QED
        BY <3>1, DropType
    <2> QED
      BY <1>2, <2>1 DEF TypeOK
  <1>5. nodes' \in [Daemon -> SUBSET MI] /\ pending' \in [Daemon -> Seq(Messages)]
    BY <1>2, <1>3 DEF TypeOK
  <1> QED
    BY <1>2, <1>3, <1>4, <1>5, TypeDeliver

(* Hearing of a deleted node, or of the nodes a synchronous call made,     *)
(* keeps the types.                                                        *)
LEMMA TypeDaemon ==
    ASSUME TypeOK, NEW d \in Daemon,
           EndOfDataCollection(d) \/ EnableDataCollection2(d)
    PROVE  TypeOK'
  <1>1. CASE EndOfDataCollection(d)
    <2>1. PICK m \in Deleted(d) :
            /\ nodes' = [nodes EXCEPT ![d] = @ \ {m}]
            /\ comps' = WithoutComponents({m}, d)
            /\ disabled' = DisableComponents({m}, d)
            /\ deferrals' = [deferrals EXCEPT ![d] = DropDeferred({m}, @)]
      BY <1>1 DEF EndOfDataCollection
    <2>2. m \in MI
      BY DEF Deleted, TypeOK
    <2>3. /\ comps' \in [MI -> SUBSET Daemon]
          /\ disabled' \in [Daemon -> SUBSET MI]
      BY <2>1, <2>2, RemovalType
    <2>4. /\ DOMAIN deferrals' = Daemon
          /\ \A e \in Daemon : \A a \in deferrals'[e] : IsAnswer(a)
      BY <2>1, DropType DEF TypeOK
    <2>5. nodes' \in [Daemon -> SUBSET MI]
      BY <2>1 DEF TypeOK
    <2> QED
      BY <1>1, <2>3, <2>4, <2>5 DEF EndOfDataCollection, TypeOK
  <1>2. CASE EnableDataCollection2(d)
    <2>1. /\ Head(pending[d]) \in Messages
          /\ pending' \in [Daemon -> Seq(Messages)]
      BY <1>2 DEF EnableDataCollection2, TypeOK
    <2>2. nodes' \in [Daemon -> SUBSET MI]
      BY <1>2, <2>1 DEF EnableDataCollection2, TypeOK, Messages
    <2> QED
      BY <1>2, <2>1, <2>2 DEF EnableDataCollection2, TypeOK, IsAnswer
  <1> QED
    BY <1>1, <1>2

(* One message is sent for each pair of an ordering.                       *)
LEMMA ProgramMessagesType ==
    ASSUME TypeOK, NEW d \in Daemon, NEW S \in SUBSET MI,
           NEW f \in Orderings(S), NEW attach, NEW ok,
           \A m \in attach : val[m].first \in Req
    PROVE  /\ ProgramMessages(d, f, attach, ok) \in Seq(Messages)
           /\ Len(ProgramMessages(d, f, attach, ok)) = Cardinality(S)
           /\ \A i \in 1 .. Cardinality(S) : f[i] \in S
  <1>1. Cardinality(S) \in Nat
    BY ConstantsAssumption, FS_Subset, FS_CardinalityType
  <1>2. f \in [1 .. Cardinality(S) -> S]
    BY DEF Orderings
  <1>3. \A i \in DOMAIN f :
           [req |-> IF f[i] \in attach THEN val[f[i]].first ELSE 0,
            mis |-> {f[i]} \intersect (attach \union ok),
            disables |-> IF i = 1 THEN disabled[d] ELSE {}] \in Messages
    BY <1>2 DEF Messages, TypeOK
  <1>4. ProgramMessages(d, f, attach, ok) \in [1 .. Cardinality(S) -> Messages]
    BY <1>2, <1>3 DEF ProgramMessages
  <1> HIDE DEF ProgramMessages
  <1> QED
    BY <1>1, <1>2, <1>4, SeqDef, LenProperties

(* The messages a new program adds have their types. *)
LEMMA TypeNewProgram ==
    ASSUME TypeOK, NEW d \in Daemon, NewProgram(d)
    PROVE  TypeOK'
  <1> DEFINE attach == {m \in MI : /\ mi[m] = "idle" /\ val[m].live
                                   /\ val[m].overall \notin Final
                                   /\ ~AlreadySentOn(m, d)}
             missing == {m \in MI : mi[m] = "enabled" /\ d \notin comps[m]}
             all == attach \union missing
  <1>1. CASE Fail("dangling") /\ UNCHANGED <<nodes, pending, deferrals>>
    BY <1>1 DEF Fail, TypeOK, IsAnswer
  <1>2. CASE ~(Fail("dangling") /\ UNCHANGED <<nodes, pending, deferrals>>)
    <2>1. /\ ~Dangling({val[m].first : m \in attach})
          /\ programs' = programs + 1
          /\ val' = [m \in MI |->
                 IF m \in attach
                 THEN [val[m] EXCEPT !.num = @ + 1, !.asked = @ \union {d}]
                 ELSE val[m]]
          /\ \E ok \in SUBSET missing, f \in Orderings(all) :
                /\ pending' = [pending EXCEPT ![d] =
                                 @ \o ProgramMessages(d, f, attach, ok)]
                /\ disabled' = [disabled EXCEPT ![d] = IF all = {} THEN @ ELSE {}]
                /\ comps' = [m \in MI |-> IF m \in ok
                                         THEN comps[m] \union {d}
                                         ELSE comps[m]]
          /\ UNCHANGED <<allDaemons, phase, open, nreq, req, bundle,
                         requestedOn, freed, mi, nodes, deferrals, told, last,
                         fault>>
      BY <1>2 DEF NewProgram, Ask
    <2>2. /\ val' \in [MI -> Value]
          /\ \A m \in MI : val'[m].live => val'[m].first # 0
      <3>1. \A m \in MI : val[m] \in Value
        BY DEF TypeOK
      <3>2. \A m \in attach :
               LET w == [val[m] EXCEPT !.num = @ + 1, !.asked = @ \union {d}]
               IN  w \in Value /\ w.live = val[m].live /\ w.first = val[m].first
        <4> SUFFICES ASSUME NEW m \in MI
                     PROVE  LET w == [val[m] EXCEPT !.num = @ + 1,
                                                    !.asked = @ \union {d}]
                            IN  /\ w \in Value /\ w.live = val[m].live
                                /\ w.first = val[m].first
          OBVIOUS
        <4>1. val[m] \in Value /\ val[m].num + 1 \in Nat
                /\ val[m].asked \union {d} \subseteq Daemon
          BY <3>1 DEF Value
        <4> QED
          BY <4>1 DEF Value
      <3> HIDE DEF attach
      <3> QED
        BY <2>1, <3>1, <3>2 DEF TypeOK
    <2>3. PICK ok \in SUBSET missing, f \in Orderings(all) :
             /\ pending' = [pending EXCEPT ![d] =
                              @ \o ProgramMessages(d, f, attach, ok)]
             /\ disabled' = [disabled EXCEPT ![d] = IF all = {} THEN @ ELSE {}]
             /\ comps' = [m \in MI |-> IF m \in ok THEN comps[m] \union {d}
                                                ELSE comps[m]]
      BY <2>1
    <2>6. comps' \in [MI -> SUBSET Daemon] /\ disabled' \in [Daemon -> SUBSET MI]
      <3> HIDE DEF all
      <3> QED
        BY <2>3 DEF TypeOK
    <2>4. programs' \in 0 .. MaxPrograms
      <3>1. programs < MaxPrograms /\ programs' = programs + 1
        BY <2>1 DEF NewProgram, Ask
      <3>2. programs \in 0 .. MaxPrograms
        BY DEF TypeOK
      <3> QED
        BY <3>1, <3>2, ConstantsAssumption
    <2>5. pending' \in [Daemon -> Seq(Messages)]
      <3>1. all \subseteq MI /\ ok \subseteq MI /\ \A m \in attach : val[m].first \in Req
        BY DEF TypeOK, Value
      <3> HIDE DEF attach, missing, all
      <3>2. ProgramMessages(d, f, attach, ok) \in Seq(Messages)
        BY <3>1, ProgramMessagesType
      <3>3. pending[d] \o ProgramMessages(d, f, attach, ok) \in Seq(Messages)
        BY <3>2, ConcatProperties DEF TypeOK
      <3> QED
        BY <2>3, <3>3 DEF TypeOK
    <2> QED
      BY <2>1, <2>2, <2>4, <2>5, <2>6 DEF TypeOK, IsAnswer
  <1> QED
    BY <1>1, <1>2

(* Values that are forgotten and packets that cancel have their types. *)
LEMMA TypeStartPhase ==
    ASSUME TypeOK, NEW stop \in SUBSET Enabled, NEW keep \in SUBSET stop,
           StartPhase(stop, keep)
    PROVE  TypeOK'
  <1> DEFINE undecided == {m \in MI : val[m].live /\ val[m].overall \notin Final}
             currentParents == [m \in MI |->
                {r \in val[m].parents : req[r].type = "CurrentPhase"}]
             gone == {m \in undecided : currentParents[m] = val[m].parents}
             cancelled == UNION {currentParents[m] : m \in undecided}
             failure == [m \in MI |-> "failure"]
  <1>1. CASE /\ Fail("dangling") \/ Fail("freed")
             /\ UNCHANGED <<nodes, pending, deferrals>>
    BY <1>1 DEF Fail, TypeOK, IsAnswer
  <1>2. CASE ~( /\ Fail("dangling") \/ Fail("freed")
                /\ UNCHANGED <<nodes, pending, deferrals>>)
    <2>1. /\ phase' = phase + 1
          /\ mi' = [m \in MI |-> IF m \notin stop THEN mi[m]
                                 ELSE IF m \in keep THEN "idle"
                                 ELSE "deleted"]
          /\ comps' = [m \in MI |-> IF m \in stop THEN {} ELSE comps[m]]
          /\ disabled' = [d \in Daemon |->
                 disabled[d] \union {m \in stop : d \in comps[m]}
                             \union CancelDisables(d, gone)]
          /\ told' = Tell(undecided, currentParents, failure)
          /\ last' = FlagLast(cancelled, val)
          /\ val' = [m \in MI |-> IF m \in gone THEN NoVal ELSE val[m]]
          /\ freed' = [r \in Req |-> freed[r] \union
                            {m \in gone : r \in val[m].parents}]
          /\ UNCHANGED <<allDaemons, programs, open, nreq, req, bundle,
                         requestedOn, nodes, pending, deferrals, fault>>
      BY <1>2 DEF StartPhase
    <2>2. phase' \in 0 .. MaxPhase
      <3>1. phase < MaxPhase
        BY DEF StartPhase
      <3> QED
        BY <2>1, <3>1, ConstantsAssumption DEF TypeOK
    <2>3. told' \in [Req -> [MI -> Seq(Known)]]
      <3>1. \A m \in undecided \intersect MI : failure[m] \in Known
        BY DEF Known, Final
      <3> HIDE DEF undecided, failure, currentParents
      <3> QED
        BY <2>1, <3>1, TellType
    <2>4. last' \in [Req -> BOOLEAN]
      BY <2>1, FlagLastType
    <2>5. /\ val' \in [MI -> Value]
          /\ \A m \in MI : val'[m].live => val'[m].first # 0
      <3>1. NoVal \in Value /\ ~NoVal.live
        BY DEF NoVal, Value, Status
      <3> HIDE DEF gone
      <3> QED
        BY <2>1, <3>1 DEF TypeOK
    <2>6. freed' \in [Req -> SUBSET MI]
      BY <2>1 DEF TypeOK
    <2>7. /\ mi' \in [MI -> {"none", "idle", "enabled", "deleted"}]
          /\ comps' \in [MI -> SUBSET Daemon]
          /\ disabled' \in [Daemon -> SUBSET MI]
      <3>1. gone \subseteq MI /\ stop \subseteq MI
        BY DEF Enabled
      <3> HIDE DEF gone
      <3> QED
        BY <2>1, <3>1 DEF TypeOK, CancelDisables
    <2> QED
      BY <2>1, <2>2, <2>3, <2>4, <2>5, <2>6, <2>7 DEF TypeOK, IsAnswer
  <1> QED
    BY <1>1, <1>2

(* Every step keeps the types. *)
LEMMA TypeNext == TypeOK /\ [Next]_vars => TypeOK'
  <1> SUFFICES ASSUME TypeOK, [Next]_vars
               PROVE  TypeOK'
    OBVIOUS
  <1>1. ASSUME NEW c \in Client, NEW mis \in SUBSET MI, NEW type \in PhaseType,
               EnableDataRequest(c, mis, type)
        PROVE  TypeOK'
    BY <1>1, TypeEnableDataRequest
  <1>2. ASSUME NEW c \in Client, NEW mis \in SUBSET MI,
               RejectStaleRequest(c, mis) \/ DropStaleRequest(c, mis)
        PROVE  TypeOK'
    BY <1>2, TypeStaleRequest
  <1>3. ASSUME NEW d \in Daemon, EnableDataCallback(d)
        PROVE  TypeOK'
    BY <1>3, TypeEnableDataCallback
  <1>4. ASSUME NEW d \in Daemon, DeferredCallback(d)
        PROVE  TypeOK'
    BY <1>4, TypeDeferredCallback
  <1>12. ASSUME NEW d \in Daemon,
                EndOfDataCollection(d) \/ EnableDataCollection2(d)
         PROVE  TypeOK'
    BY <1>12, TypeDaemon
  <1>5. ASSUME NEW d \in Daemon, AddDaemon(d)
        PROVE  TypeOK'
    BY <1>5 DEF AddDaemon, TypeOK, IsAnswer
  <1>6. ASSUME NEW d \in Daemon, NewProgram(d)
        PROVE  TypeOK'
    BY <1>6, TypeNewProgram
  <1>7. ASSUME NEW stop \in SUBSET Enabled, NEW keep \in SUBSET stop,
               StartPhase(stop, keep)
        PROVE  TypeOK'
    BY <1>7, TypeStartPhase
  <1>8. ASSUME NEW m \in MI, DisableDataCollection(m)
        PROVE  TypeOK'
    BY <1>8 DEF DisableDataCollection, TypeOK, IsAnswer
  <1>9. ASSUME NEW c \in Client, DestroyPerformanceStream(c)
        PROVE  TypeOK'
    BY <1>9 DEF DestroyPerformanceStream, TypeOK, IsAnswer
  <1>10. ASSUME NEW m \in MI, ClearPersistentData(m)
         PROVE  TypeOK'
    BY <1>10 DEF ClearPersistentData, TypeOK, IsAnswer
  <1>11. CASE UNCHANGED vars
    BY <1>11 DEF vars, TypeOK, IsAnswer
  <1> QED
    BY <1>1, <1>2, <1>3, <1>4, <1>5, <1>6, <1>7, <1>8, <1>9, <1>10, <1>11,
       <1>12
    DEF Next, Answering

(* Every variable keeps its type in every behaviour. *)
THEOREM TypeCorrect == Spec => []TypeOK
  <1>1. Init => TypeOK
    BY TypeInit
  <1>2. TypeOK /\ [Next]_vars => TypeOK'
    BY TypeNext
  <1> QED
    BY <1>1, <1>2, PTL DEF Spec

-----------------------------------------------------------------------------
(* One value *)

(* The daemons asked are finitely many and their number is a natural. *)
LEMMA AskedFinite ==
    ASSUME NEW v \in Value
    PROVE  IsFiniteSet(v.asked) /\ Cardinality(v.asked) \in Nat
  BY ConstantsAssumption, FS_Subset, FS_CardinalityType DEF Value

(* A value whose merged state is success has success from all asked. *)
LEMMA SuccessOfAll ==
    ASSUME NEW v \in Value, ValueInv(v), v.overall = "success"
    PROVE  v.asked = In(v.st, {"success"})
  <1>1. Cardinality(In(v.st, {"success"})) = v.num
    BY DEF ValueInv, Overall
  <1>2. In(v.st, {"success"}) \subseteq v.asked
    BY DEF ValueInv, In, Known, Final
  <1>3. Cardinality(In(v.st, {"success"})) <= Cardinality(v.asked)
    BY <1>2, AskedFinite, FS_Subset
  <1>4. v.num \in Nat /\ Cardinality(v.asked) <= v.num
    BY DEF Value, ValueInv
  <1>5. Cardinality(v.asked) = Cardinality(In(v.st, {"success"}))
    BY <1>1, <1>3, <1>4, AskedFinite
  <1> QED
    BY <1>2, <1>5, AskedFinite, FS_Subset

(* An answer does not change a decision. *)
LEMMA DecisionAbsorbs ==
    ASSUME NEW v \in Value, ValueInv(v), v.overall \in Final,
           NEW d \in v.asked, NEW s \in Known, Reportable(v.st[d], s)
    PROVE  SetNewDmnState(v, d, s).overall = v.overall
  <1> DEFINE st == [v.st EXCEPT ![d] = s]
  <1>0. d \in Daemon /\ v.st \in [Daemon -> Status]
    BY DEF Value
  <1>1. CASE v.overall = "failure"
    <2>1. PICK e \in Daemon : v.st[e] = "failure"
      BY <1>1 DEF ValueInv, Overall, In
    <2>2. e # d
      BY <2>1 DEF Reportable, Final
    <2>3. e \in In(st, {"failure"})
      BY <1>0, <2>1, <2>2 DEF In
    <2>4. Overall(st, v.num) = "failure"
      BY <2>3 DEF Overall
    <2> HIDE DEF st
    <2>5. SetNewDmnState(v, d, s)
            = [v EXCEPT !.st = st, !.overall = Overall(st, v.num)]
      BY DEF SetNewDmnState, st
    <2> QED
      BY <2>4, <2>5, <1>1 DEF Value
  <1>2. CASE v.overall = "success"
    <2>1. v.st[d] = "success"
      BY <1>2, SuccessOfAll DEF In
    <2> QED
      BY <2>1 DEF Reportable
  <1> QED
    BY <1>1, <1>2 DEF Final

(* A value every daemon of which has succeeded or failed is decided. *)
LEMMA CompleteIsDecided ==
    ASSUME NEW v \in Value, ValueInv(v), IsEachDaemonComplete(v)
    PROVE  v.overall \in Final
  <1>0. v.st \in [Daemon -> Status] /\ v.num \in Nat
    BY DEF Value
  <1>1. CASE In(v.st, {"failure"}) # {}
    BY <1>1 DEF ValueInv, Overall, Final
  <1>2. CASE In(v.st, {"failure"}) = {}
    <2>1. In(v.st, Final) = In(v.st, {"success"})
      BY <1>2 DEF In, Final
    <2>2. Cardinality(In(v.st, {"success"})) = v.num
      BY <2>1 DEF IsEachDaemonComplete
    <2>3. ASSUME NEW e \in In(v.st, {"deferred"})
          PROVE  FALSE
      <3>1. e \in v.asked
        BY <2>3 DEF ValueInv, In, Known
      <3>2. In(v.st, {"success"}) \subseteq v.asked \ {e}
        BY <2>3 DEF ValueInv, In, Known, Final
      <3>3. /\ IsFiniteSet(v.asked \ {e})
            /\ Cardinality(v.asked \ {e}) = Cardinality(v.asked) - 1
        BY <3>1, AskedFinite, FS_RemoveElement
      <3>4. v.num <= Cardinality(v.asked) - 1
        BY <3>2, <3>3, <2>2, FS_Subset
      <3> QED
        BY <3>4, <1>0, AskedFinite DEF ValueInv
    <2>4. v.overall = "success"
      BY <1>2, <2>2, <2>3 DEF ValueInv, Overall
    <2> QED
      BY <2>4 DEF Final
  <1> QED
    BY <1>1, <1>2

(* Merging an answer of a daemon that was asked, and noting a report,      *)
(* keeps the invariant of the value.                                       *)
LEMMA ValueInvMerge ==
    ASSUME NEW v \in Value, ValueInv(v), NEW d \in v.asked, NEW s \in Known
    PROVE  LET w == SetNewDmnState(v, d, s)
           IN  /\ ShouldReport(w) =>
                     ValueInv([w EXCEPT !.reported = @ \union {w.overall}])
               /\ ~ShouldReport(w) => ValueInv(w)
  <1> DEFINE st == [v.st EXCEPT ![d] = s]
             w == SetNewDmnState(v, d, s)
  <1>0. d \in Daemon /\ v.st \in [Daemon -> Status]
    BY DEF Value
  <1>1. /\ w \in Value /\ w.num = v.num /\ w.asked = v.asked /\ w.sent = v.sent
        /\ w.parents = v.parents /\ w.first = v.first
    BY <1>0, SetNewDmnStateType
  <1>2. w.st = st /\ w.overall = Overall(st, v.num)
    <2>1. w = [v EXCEPT !.st = st, !.overall = Overall(st, v.num)]
      BY DEF SetNewDmnState
    <2> HIDE DEF st, w
    <2> QED
      BY <2>1 DEF Value
  <1>3. In(st, Known) \subseteq v.asked
    BY <1>0 DEF ValueInv, In
  <1> HIDE DEF w, st
  <1>4. ASSUME ShouldReport(w)
        PROVE  ValueInv([w EXCEPT !.reported = @ \union {w.overall}])
    <2> DEFINE u == [w EXCEPT !.reported = @ \union {w.overall}]
    <2>1. /\ u.num = w.num /\ u.asked = w.asked /\ u.sent = w.sent
          /\ u.parents = w.parents /\ u.first = w.first /\ u.st = w.st
          /\ u.overall = w.overall /\ w.overall \in u.reported
      BY <1>1 DEF Value
    <2> HIDE DEF u
    <2>2. ValueInv(u)
      BY <2>1, <1>1, <1>2, <1>3 DEF ValueInv
    <2> QED
      BY <2>2 DEF u
  <1>5. ASSUME ~ShouldReport(w)
        PROVE  ValueInv(w)
    <2>1. w.overall \in Final => w.reported \intersect Final # {}
      BY <1>5 DEF ShouldReport
    <2> QED
      BY <2>1, <1>1, <1>2, <1>3 DEF ValueInv
  <1> QED
    BY <1>4, <1>5 DEF w

-----------------------------------------------------------------------------
(* Steps and messages *)

\* bundles stay accepted and what was sent stays sent, or is freed
Kept ==
    /\ \A r \in Req : Accepted(r) => Accepted(r)'
    /\ \A d \in Daemon, r \in Req, m \in MI : Sent(d, r, m) => Sent(d, r, m)'

(* A message that was sound stays sound when nothing is forgotten. *)
LEMMA MessageKept ==
    ASSUME Kept, NEW d \in Daemon, NEW r \in Req \union {0},
           NEW mis \in SUBSET MI, MessageOK(d, r, mis)
    PROVE  MessageOK(d, r, mis)'
  BY DEF Kept, MessageOK, Sent, Accepted

(* The messages of one daemon are about its bundles and instances. *)
LEMMA MessageTypes ==
    ASSUME TypeOK, NEW d \in Daemon
    PROVE  /\ \A i \in 1 .. Len(pending[d]) :
                 /\ pending[d][i].req \in Req \union {0}
                 /\ pending[d][i].mis \in SUBSET MI
           /\ \A a \in deferrals[d] : a.req \in Req /\ DOMAIN a.st \in SUBSET MI
  <1>1. pending[d] \in Seq(Messages)
    BY DEF TypeOK
  <1>2. \A i \in 1 .. Len(pending[d]) : pending[d][i] \in Messages
    BY <1>1
  <1> QED
    BY <1>2 DEF TypeOK, IsAnswer, Messages

(* Messages that no step sends or answers stay sound. *)
LEMMA MessagesUnchanged ==
    ASSUME TypeOK, MessagesInv, Kept, UNCHANGED <<pending, deferrals>>
    PROVE  MessagesInv'
  <1> SUFFICES ASSUME NEW d \in Daemon
               PROVE  /\ \A i \in 1 .. Len(pending[d]) :
                           MessageOK(d, pending[d][i].req, pending[d][i].mis)'
                      /\ \A a \in deferrals[d] :
                           MessageOK(d, a.req, DOMAIN a.st)'
    BY DEF MessagesInv
  <1> QED
    BY MessageTypes, MessageKept DEF MessagesInv

(* A value that is undecided or decided: its parents and its invariant. *)
LEMMA ParentsLive ==
    ASSUME TypeOK, ValuesInv, NEW m \in MI, NEW r \in val[m].parents
    PROVE  val[m].live /\ ValueInv(val[m]) /\ val[m] \in Value
  BY DEF ValuesInv, NoVal, TypeOK

-----------------------------------------------------------------------------
(* The answer of a daemon *)

\* the part of the invariant that is not about messages
StateInv ==
    /\ InitialDaemons \subseteq allDaemons
    /\ ValuesInv /\ SharingInv /\ ClosedInv /\ FreshInv
    /\ EnabledHasSucceeded
    /\ NoDanglingBundle

\* a decided value stays as it is, and a closed request hears no more
Settled ==
    /\ \A m \in MI : val[m].overall \in Final =>
          val'[m].live /\ val'[m].overall = val[m].overall
    /\ \A r \in Req : last[r] => last'[r] /\ told'[r] = told[r]

(* A decided value is live. *)
LEMMA FinalIsLive ==
    ASSUME ValuesInv, NEW m \in MI, val[m].overall \in Final
    PROVE  val[m].live /\ ValueInv(val[m])
  <1>1. NoVal.overall \notin Final
    BY DEF NoVal, Final
  <1> QED
    BY <1>1 DEF ValuesInv

(* A value of a closed request's bundle is decided. *)
LEMMA ClosedIsDecided ==
    ASSUME TypeOK, SharingInv, ClosedInv, NEW r \in Req, last[r],
           NEW m \in MI, r \in val[m].parents
    PROVE  val[m].overall \in Final
  <1>1. Accepted(r) /\ m \in req[r].mis
    BY DEF SharingInv
  <1> QED
    BY <1>1 DEF ClosedInv, DecidedBundle

(* A step that leaves bundles and values alone and enables no instance. *)
LEMMA InvFrame ==
    ASSUME StateInv, UNCHANGED <<nreq, req, bundle, freed, val, told, last>>,
           allDaemons \subseteq allDaemons', fault' # "dangling",
           \A m \in MI : mi'[m] = "enabled" => mi[m] = "enabled"
    PROVE  StateInv' /\ Kept /\ Settled
  <1>1. /\ InitialDaemons \subseteq allDaemons'
        /\ ValuesInv' /\ NoDanglingBundle'
    BY DEF StateInv, ValuesInv, NoDanglingBundle
  <1>2. SharingInv' /\ ClosedInv' /\ FreshInv'
    BY DEF StateInv, SharingInv, ClosedInv, FreshInv, Accepted, DecidedBundle
  <1>3. EnabledHasSucceeded'
    BY DEF StateInv, EnabledHasSucceeded
  <1>4. Kept
    BY DEF Kept, Sent, Accepted
  <1>5. Settled
    BY FinalIsLive DEF StateInv, Settled
  <1> QED
    BY <1>1, <1>2, <1>3, <1>4, <1>5 DEF StateInv

(* A failed step that is not a dangling bundle changes nothing else. *)
LEMMA InvFail ==
    ASSUME StateInv, NEW kind, kind # "dangling", Fail(kind)
    PROVE  StateInv' /\ Kept /\ Settled
  BY InvFrame DEF Fail

(* Merging an answer keeps the state consistent: only undecided values are  *)
(* reported, so no deleted bundle is reached, and a bundle that is deleted *)
(* or told its last packet has decided values only.                        *)
LEMMA InvUpdate ==
    ASSUME TypeOK, StateInv, NEW r \in Req, NEW d \in Daemon,
           NEW D \in SUBSET MI, NEW st \in [D -> Known],
           MessageOK(d, r, D), bundle[r] = "active", NEW lost \in SUBSET D,
           UpdateWithEnableCallback(r, d, st, lost)
    PROVE  StateInv' /\ Kept /\ Settled
  <1> DEFINE news == {m \in D : Reportable(val[m].st[d], st[m])}
             now == [m \in MI |->
                       IF m \in news THEN SetNewDmnState(val[m], d, st[m])
                                     ELSE val[m]]
             report == {m \in news : ShouldReport(now[m])}
             ready == {m \in report : now[m].overall = "success"}
             clients == Parents(val, report)
             touched == clients \union {r}
             newState == [m \in MI |-> now[m].overall]
             parentsOf == [m \in MI |-> val[m].parents]
  <1>0. DOMAIN st = D
    OBVIOUS
  <1>1. CASE Fail("freed") \/ Fail("assert")
    BY <1>1, InvFail
  <1>2. CASE ~(Fail("freed") \/ Fail("assert"))
    <2>1. D \intersect freed[r] = {}
      BY <1>0, <1>2 DEF UpdateWithEnableCallback
    <2>2. \A m \in D : /\ r \in val[m].parents /\ d \in val[m].asked
                      /\ val[m].live /\ ValueInv(val[m]) /\ val[m] \in Value
      <3>1. \A m \in D : r \in val[m].parents /\ d \in val[m].asked
        BY <2>1 DEF MessageOK, Sent, Req
      <3> QED
        BY <3>1, ParentsLive DEF StateInv
    <2>3. \A m \in news : val[m].overall \in Final =>
             now[m].overall = val[m].overall /\ ~ShouldReport(now[m])
      <3> SUFFICES ASSUME NEW m \in news, val[m].overall \in Final
                   PROVE  now[m].overall = val[m].overall /\ ~ShouldReport(now[m])
        OBVIOUS
      <3>1. SetNewDmnState(val[m], d, st[m]).overall = val[m].overall
        BY <2>2, DecisionAbsorbs
      <3>2. SetNewDmnState(val[m], d, st[m]).reported = val[m].reported
        BY <2>2, SetNewDmnStateType
      <3>3. val[m].reported \intersect Final # {}
        BY <2>2 DEF ValueInv
      <3>4. now[m] = SetNewDmnState(val[m], d, st[m])
        OBVIOUS
      <3> HIDE DEF now
      <3> QED
        BY <3>1, <3>2, <3>3, <3>4 DEF ShouldReport, Final
    <2>4. \A m \in report : \A p \in val[m].parents : bundle[p] # "deleted"
      <3> SUFFICES ASSUME NEW m \in report, NEW p \in val[m].parents,
                          bundle[p] = "deleted"
                   PROVE  FALSE
        OBVIOUS
      <3>1. p \in Req /\ m \in req[p].mis
        BY <2>2 DEF StateInv, SharingInv, Value
      <3>2. val[m].overall \in Final
        BY <3>1 DEF StateInv, ClosedInv, DecidedBundle
      <3> QED
        BY <3>2, <2>3
    <2>5. ~Dangling(clients)
      BY <2>4 DEF Dangling, Parents
    <2>6. /\ val' = [m \in MI |->
                  IF m \in report
                  THEN [now[m] EXCEPT !.reported = @ \union {now[m].overall}]
                  ELSE now[m]]
          /\ mi' = [m \in MI |-> IF m \in ready THEN "enabled" ELSE mi[m]]
          /\ told' = Tell(report, parentsOf, newState)
          /\ last' = FlagLast(clients, now)
          /\ bundle' = IF IsBundleComplete(r, now)
                       THEN [bundle EXCEPT ![r] = "deleted"] ELSE bundle
          /\ UNCHANGED <<allDaemons, phase, programs, open, nreq, req,
                         requestedOn, freed, fault>>
      BY <1>0, <1>2, <2>5 DEF UpdateWithEnableCallback
    <2>7. \A m \in MI :
            /\ val[m].live => ValueInv(val'[m])
            /\ ~val[m].live => val'[m] = val[m]
      <3>1. \A m \in news :
              LET w == SetNewDmnState(val[m], d, st[m])
              IN  /\ ShouldReport(w) =>
                        ValueInv([w EXCEPT !.reported = @ \union {w.overall}])
                  /\ ~ShouldReport(w) => ValueInv(w)
        BY <2>2, ValueInvMerge
      <3>2. \A m \in report : val'[m] = [SetNewDmnState(val[m], d, st[m])
              EXCEPT !.reported = @ \union {SetNewDmnState(val[m], d, st[m]).overall}]
        BY <2>6
      <3>3. \A m \in news \ report : val'[m] = SetNewDmnState(val[m], d, st[m])
        BY <2>6
      <3>4. \A m \in MI \ news : val'[m] = val[m]
        BY <2>6
      <3>5. \A m \in news : m \in report <=>
                            ShouldReport(SetNewDmnState(val[m], d, st[m]))
        OBVIOUS
      <3> HIDE DEF news, report
      <3>6. \A m \in news : ValueInv(val'[m])
        BY <3>1, <3>2, <3>3, <3>5
      <3>7. \A m \in MI : val[m].live => ValueInv(val[m])
        BY DEF StateInv, ValuesInv
      <3> QED
        BY <3>4, <3>6, <3>7, <2>2 DEF news
    <2>8. \A m \in MI :
            /\ val'[m].live = val[m].live /\ val'[m].parents = val[m].parents
            /\ val'[m].asked = val[m].asked
            /\ val'[m].st = now[m].st /\ val'[m].num = now[m].num
            /\ val'[m].overall = now[m].overall
      <3>1. \A m \in MI : /\ now[m] \in Value /\ now[m].live = val[m].live
                          /\ now[m].parents = val[m].parents
                          /\ now[m].asked = val[m].asked
        BY <2>2, SetNewDmnStateType DEF TypeOK
      <3> HIDE DEF now, report
      <3> QED
        BY <2>6, <3>1 DEF Value
    <2>9. \A m \in MI : val[m].overall \in Final => val'[m].overall = val[m].overall
      <3>1. \A m \in MI : m \notin news => now[m] = val[m]
        OBVIOUS
      <3> QED
        BY <2>3, <2>8, <3>1
    <2>10. \A q \in Req : Accepted(q) /\ IsBundleComplete(q, now)
                             => DecidedBundle(q)'
      <3> SUFFICES ASSUME NEW q \in Req, Accepted(q), IsBundleComplete(q, now)
                   PROVE  freed[q] = {} /\ \A m \in req[q].mis : val'[m].overall \in Final
        BY <2>6 DEF DecidedBundle
      <3>1. freed[q] = {} /\ \A m \in req[q].mis : IsEachDaemonComplete(now[m])
        BY DEF IsBundleComplete
      <3>2. ASSUME NEW m \in req[q].mis
            PROVE  val'[m].overall \in Final
        <4>1. m \in MI /\ q \in val[m].parents
          BY <3>1 DEF StateInv, SharingInv, TypeOK, Request
        <4>2. val[m].live
          BY <4>1, ParentsLive DEF StateInv
        <4>3. ValueInv(val'[m])
          BY <4>1, <4>2, <2>7
        <4>4. IsEachDaemonComplete(val'[m])
          BY <3>1, <4>1, <2>8 DEF IsEachDaemonComplete
        <4>5. val'[m] \in Value
          BY <4>1, TypeUpdate DEF TypeOK
        <4> QED
          BY <4>3, <4>4, <4>5, CompleteIsDecided
      <3> QED
        BY <3>1, <3>2
    <2> HIDE DEF now, news, report, ready
    <2>11. ValuesInv'
      BY <2>7, <2>8 DEF StateInv, ValuesInv
    <2>12. SharingInv'
      BY <2>6, <2>8 DEF StateInv, SharingInv, Accepted, TypeOK
    <2>13. \A q \in Req : Accepted(q)' <=> Accepted(q)
      BY <2>6 DEF Accepted, TypeOK
    <2>14. ClosedInv'
      <3> SUFFICES ASSUME NEW q \in Req,
                          bundle'[q] = "deleted" \/ (last'[q] /\ Accepted(q)')
                   PROVE  DecidedBundle(q)'
        BY DEF ClosedInv
      <3>1. CASE bundle[q] = "deleted" \/ (last[q] /\ Accepted(q))
        <4>1. freed[q] = {} /\ \A m \in req[q].mis : val[m].overall \in Final
          BY <3>1 DEF StateInv, ClosedInv, DecidedBundle
        <4>2. req[q].mis \subseteq MI
          BY DEF TypeOK, Request
        <4> QED
          BY <4>1, <4>2, <2>6, <2>9 DEF DecidedBundle
      <3>2. CASE ~(bundle[q] = "deleted" \/ (last[q] /\ Accepted(q)))
        <4>1. Accepted(q)
          BY <2>13 DEF Accepted
        <4>2. IsBundleComplete(q, now)
          BY <3>2, <4>1, <2>6 DEF FlagLast, TypeOK
        <4> QED
          BY <4>1, <4>2, <2>10
      <3> QED
        BY <3>1, <3>2
    <2>15. FreshInv'
      <3> SUFFICES ASSUME NEW q \in Req, q > nreq
                   PROVE  /\ ~Accepted(q)' /\ ~last'[q] /\ freed'[q] = {}
                          /\ told'[q] = [m \in MI |-> <<>>]
        BY <2>6 DEF FreshInv
      <3>1. /\ ~Accepted(q) /\ ~last[q] /\ freed[q] = {}
            /\ told[q] = [m \in MI |-> <<>>]
        BY DEF StateInv, FreshInv
      <3>2. \A m \in MI : q \notin val[m].parents
        BY <3>1 DEF StateInv, SharingInv
      <3>3. report \subseteq MI
        BY DEF report, news
      <3>4. q \notin clients
        BY <3>2, <3>3 DEF Parents
      <3>5. told'[q] = [m \in MI |-> told[q][m]]
        BY <2>6, <3>2 DEF Tell
      <3> QED
        BY <3>1, <3>4, <3>5, <2>6, <2>13 DEF FlagLast
    <2>16. EnabledHasSucceeded'
      <3> SUFFICES ASSUME NEW m \in MI, mi'[m] = "enabled"
                   PROVE  val'[m].overall = "success"
        BY DEF EnabledHasSucceeded
      <3>1. CASE m \in ready
        BY <3>1, <2>8 DEF ready
      <3>2. CASE m \notin ready
        BY <3>2, <2>6, <2>9 DEF StateInv, EnabledHasSucceeded, Final
      <3> QED
        BY <3>1, <3>2
    <2>17. NoDanglingBundle' /\ InitialDaemons \subseteq allDaemons'
      BY <2>6 DEF StateInv, NoDanglingBundle
    <2>18. Kept
      BY <2>6, <2>8, <2>13 DEF Kept, Sent
    <2>19. ASSUME NEW q \in Req, last[q]
           PROVE  last'[q] /\ told'[q] = told[q]
      <3>1. \A m \in report : q \notin val[m].parents
        BY <2>3, <2>19, ClosedIsDecided DEF StateInv, report, news
      <3>2. told'[q] = [m \in MI |-> told[q][m]]
        BY <2>6, <3>1 DEF Tell
      <3>3. last'[q]
        BY <2>6, <2>19 DEF FlagLast
      <3> QED
        BY <3>2, <3>3 DEF TypeOK
    <2>20. Settled
      BY <2>8, <2>9, <2>19, FinalIsLive DEF Settled, StateInv
    <2> QED
      BY <2>11, <2>12, <2>14, <2>15, <2>16, <2>17, <2>18, <2>20 DEF StateInv
  <1> QED
    BY <1>1, <1>2

(* An answer to a bundle that is active or deleted. *)
LEMMA InvDeliver ==
    ASSUME TypeOK, StateInv, Running, NEW r \in Req, NEW d \in Daemon,
           NEW D \in SUBSET MI, NEW st \in [D -> Known],
           MessageOK(d, r, D), NEW lost \in SUBSET D, Deliver(r, d, st, lost)
    PROVE  StateInv' /\ Kept /\ Settled
  <1>1. CASE bundle[r] = "active"
    <2>1. UpdateWithEnableCallback(r, d, st, lost)
      BY <1>1 DEF Deliver
    <2> QED
      BY <1>1, <2>1, InvUpdate
  <1>2. CASE bundle[r] # "active"
    <2>1. UNCHANGED <<allDaemons, phase, programs, open, nreq, req, bundle,
                      requestedOn, freed, val, mi, told, last, fault>>
      BY <1>2 DEF Deliver
    <2> QED
      BY <2>1, InvFrame DEF Running
  <1> QED
    BY <1>1, <1>2

(* What is left of a daemon's deferrals is sound if they were.             *)
LEMMA DeferralsKept ==
    ASSUME TypeOK, MessagesInv, Kept, NEW d \in Daemon, NEW S,
           NEW a \in DropDeferred(S, deferrals[d])
    PROVE  MessageOK(d, a.req, DOMAIN a.st)'
  <1>1. \A b \in deferrals[d] : IsAnswer(b)
    BY DEF TypeOK
  <1>2. PICK b \in deferrals[d] : a.req = b.req /\ a.st = b.st
    BY <1>1, DropType
  <1>3. MessageOK(d, b.req, DOMAIN b.st)
    BY DEF MessagesInv
  <1>4. b.req \in Req \union {0} /\ DOMAIN b.st \in SUBSET MI
    BY <1>1 DEF IsAnswer
  <1>5. MessageOK(d, b.req, DOMAIN b.st)'
    BY <1>3, <1>4, MessageKept
  <1> QED
    BY <1>2, <1>5

(* The messages left when the oldest has been dealt with are sound.        *)
LEMMA TailKept ==
    ASSUME TypeOK, MessagesInv, Kept, NEW d \in Daemon, pending[d] # <<>>,
           pending' = [pending EXCEPT ![d] = Tail(@)],
           NEW e \in Daemon, NEW i \in 1 .. Len(pending'[e])
    PROVE  MessageOK(e, pending[e][i].req, pending[e][i].mis)'
  <1>1. pending \in [Daemon -> Seq(Messages)]
    BY DEF TypeOK
  <1>2. Len(pending[d]) >= 1
    BY <1>1
  <1>3. PICK k \in 1 .. Len(pending[e]) : pending'[e][i] = pending[e][k]
    <2>1. CASE e = d
      <3>1. pending'[d] = Tail(pending[d])
        BY <1>1
      <3>2. /\ i \in 1 .. (Len(pending[d]) - 1)
            /\ pending'[d][i] = pending[d][i + 1]
        BY <2>1, <3>1, <1>1, <1>2
      <3>3. i + 1 \in 1 .. Len(pending[d])
        BY <3>2, <1>1
      <3> QED
        BY <2>1, <3>2, <3>3
    <2>2. CASE e # d
      BY <2>2, <1>1
    <2> QED
      BY <2>1, <2>2
  <1>4. PICK q \in Req \union {0}, mis \in SUBSET MI :
           /\ pending'[e][i].req = q /\ pending'[e][i].mis = mis
           /\ MessageOK(e, q, mis)
    BY <1>3, MessageTypes DEF MessagesInv
  <1>5. MessageOK(e, q, mis)'
    BY <1>4, MessageKept
  <1> QED
    BY <1>4, <1>5

(* Messages that stay in the queues are sound.                             *)
LEMMA PendingKept ==
    ASSUME TypeOK, MessagesInv, Kept, pending' = pending,
           NEW e \in Daemon, NEW i \in 1 .. Len(pending'[e])
    PROVE  MessageOK(e, pending[e][i].req, pending[e][i].mis)'
  <1>1. i \in 1 .. Len(pending[e])
    OBVIOUS
  <1>2. /\ MessageOK(e, pending[e][i].req, pending[e][i].mis)
        /\ pending[e][i].req \in Req \union {0}
        /\ pending[e][i].mis \in SUBSET MI
    BY <1>1, MessageTypes DEF MessagesInv
  <1> QED
    BY <1>2, MessageKept

(* The daemon answers its oldest message, which leaves its queue. *)
LEMMA InvEnableDataCallback ==
    ASSUME TypeOK, StateInv, MessagesInv, NEW d \in Daemon,
           EnableDataCallback(d)
    PROVE  StateInv' /\ MessagesInv' /\ Settled
  <1>1. PICK st \in [Head(pending[d]).mis -> Known],
             lost \in SUBSET Head(pending[d]).mis,
             made \in SUBSET Head(pending[d]).mis,
             open_ \in SUBSET Head(pending[d]).mis :
           /\ deferrals' = [deferrals EXCEPT ![d] =
                  DropDeferred(lost, @) \union
                  (IF open_ = {} THEN {}
                   ELSE {[req |-> Head(pending[d]).req, st |-> st,
                          open |-> open_]})]
           /\ Deliver(Head(pending[d]).req, d, st, lost)
    BY AnswerParts
  <1>2. /\ Running /\ pending[d] # <<>> /\ Head(pending[d]).req # 0
        /\ pending' = [pending EXCEPT ![d] = Tail(@)]
    BY DEF EnableDataCallback
  <1>3. pending \in [Daemon -> Seq(Messages)] /\ DOMAIN deferrals = Daemon
    BY DEF TypeOK
  <1>4. Len(pending[d]) >= 1 /\ Head(pending[d]) = pending[d][1]
    BY <1>2, <1>3
  <1>5. PICK r \in Req, D \in SUBSET MI :
           /\ r = Head(pending[d]).req /\ D = Head(pending[d]).mis
           /\ MessageOK(d, r, D)
    BY <1>2, <1>4, MessageTypes DEF MessagesInv
  <1>6. st \in [D -> Known] /\ DOMAIN st = D /\ Deliver(r, d, st, lost)
    BY <1>1, <1>5
  <1>7. StateInv' /\ Kept /\ Settled
    BY <1>2, <1>5, <1>6, InvDeliver
  <1>8. ASSUME NEW e \in Daemon, NEW i \in 1 .. Len(pending'[e])
        PROVE  MessageOK(e, pending[e][i].req, pending[e][i].mis)'
    BY <1>2, <1>7, <1>8, TailKept
  <1>9. ASSUME NEW e \in Daemon, NEW a \in deferrals'[e]
        PROVE  MessageOK(e, a.req, DOMAIN a.st)'
    <2>1. CASE a \in deferrals[e]
      BY <2>1, <1>7, MessageTypes, MessageKept DEF MessagesInv
    <2>2. CASE e = d /\ a \in DropDeferred(lost, deferrals[d])
      BY <2>2, <1>7, DeferralsKept
    <2>3. CASE e = d /\ a = [req |-> r, st |-> st, open |-> open_]
      <3>1. a.req = r /\ DOMAIN a.st = D
        BY <2>3, <1>6
      <3>2. MessageOK(d, r, D)'
        BY <1>5, <1>7, MessageKept
      <3> QED
        BY <2>3, <3>1, <3>2
    <2> QED
      BY <2>1, <2>2, <2>3, <1>1, <1>3, <1>5, <1>9
  <1> QED
    BY <1>7, <1>8, <1>9 DEF MessagesInv

(* A deferred pair of an answer is decided, and the answer is sent again. *)
LEMMA InvDeferredCallback ==
    ASSUME TypeOK, StateInv, MessagesInv, NEW d \in Daemon,
           DeferredCallback(d)
    PROVE  StateInv' /\ MessagesInv' /\ Settled
  <1>1. PICK a \in deferrals[d] : \E b :
             \E lost \in SUBSET DOMAIN a.st, st \in [DOMAIN a.st -> Known] :
             /\ IsAnswer(b) /\ b.req = a.req /\ DOMAIN b.st = DOMAIN a.st
             /\ deferrals' = [deferrals EXCEPT ![d] =
                    DropDeferred(lost, @ \ {a}) \union
                    (IF b.open = {} THEN {} ELSE {b})]
             /\ Deliver(a.req, d, st, lost)
             /\ Running /\ UNCHANGED pending
    BY DeferredParts
  <1>2. PICK b : \E lost \in SUBSET DOMAIN a.st, st \in [DOMAIN a.st -> Known] :
             /\ IsAnswer(b) /\ b.req = a.req /\ DOMAIN b.st = DOMAIN a.st
             /\ deferrals' = [deferrals EXCEPT ![d] =
                    DropDeferred(lost, @ \ {a}) \union
                    (IF b.open = {} THEN {} ELSE {b})]
             /\ Deliver(a.req, d, st, lost)
             /\ Running /\ UNCHANGED pending
    BY <1>1
  <1>3. PICK lost \in SUBSET DOMAIN a.st, st \in [DOMAIN a.st -> Known] :
             /\ IsAnswer(b) /\ b.req = a.req /\ DOMAIN b.st = DOMAIN a.st
             /\ deferrals' = [deferrals EXCEPT ![d] =
                    DropDeferred(lost, @ \ {a}) \union
                    (IF b.open = {} THEN {} ELSE {b})]
             /\ Deliver(a.req, d, st, lost)
             /\ Running /\ UNCHANGED pending
    BY <1>2
  <1>4. PICK r \in Req, D \in SUBSET MI :
             r = a.req /\ D = DOMAIN a.st /\ MessageOK(d, r, D)
    BY DEF TypeOK, IsAnswer, MessagesInv
  <1>5. StateInv' /\ Kept /\ Settled
    BY <1>3, <1>4, InvDeliver
  <1>6. ASSUME NEW e \in Daemon, NEW i \in 1 .. Len(pending'[e])
        PROVE  MessageOK(e, pending[e][i].req, pending[e][i].mis)'
    BY <1>3, <1>5, <1>6, PendingKept
  <1>7. ASSUME NEW e \in Daemon, NEW x \in deferrals'[e]
        PROVE  MessageOK(e, x.req, DOMAIN x.st)'
    <2>1. CASE x \in deferrals[e]
      BY <2>1, <1>5, MessageTypes, MessageKept DEF MessagesInv
    <2>2. CASE e = d /\ x \in DropDeferred(lost, deferrals[d] \ {a})
      <3>1. x \in DropDeferred(lost, deferrals[d])
        BY <2>2 DEF DropDeferred
      <3> QED
        BY <2>2, <3>1, <1>5, DeferralsKept
    <2>3. CASE e = d /\ x = b
      <3>1. MessageOK(d, r, D)'
        BY <1>4, <1>5, MessageKept
      <3> QED
        BY <2>3, <3>1, <1>3, <1>4
    <2>4. DOMAIN deferrals = Daemon
      BY DEF TypeOK
    <2> QED
      BY <2>1, <2>2, <2>3, <2>4, <1>3, <1>7
  <1> QED
    BY <1>5, <1>6, <1>7 DEF MessagesInv

(* A deleted node, and the nodes a synchronous call made, leave bundles and *)
(* values alone.                                                           *)
LEMMA InvDaemon ==
    ASSUME TypeOK, StateInv, MessagesInv, NEW d \in Daemon,
           EndOfDataCollection(d) \/ EnableDataCollection2(d)
    PROVE  StateInv' /\ MessagesInv' /\ Settled
  <1>1. /\ Running /\ pending[d] # <<>>
        /\ UNCHANGED <<allDaemons, nreq, req, bundle, freed, val, mi, told,
                       last, fault>>
    BY DEF EndOfDataCollection, EnableDataCollection2
  <1>2. StateInv' /\ Kept /\ Settled
    BY <1>1, InvFrame DEF Running
  <1>3. pending' = pending \/ pending' = [pending EXCEPT ![d] = Tail(@)]
    BY DEF EndOfDataCollection, EnableDataCollection2
  <1>4. ASSUME NEW e \in Daemon, NEW i \in 1 .. Len(pending'[e])
        PROVE  MessageOK(e, pending[e][i].req, pending[e][i].mis)'
    BY <1>1, <1>2, <1>3, <1>4, PendingKept, TailKept
  <1>5. ASSUME NEW e \in Daemon, NEW a \in deferrals'[e]
        PROVE  MessageOK(e, a.req, DOMAIN a.st)'
    <2>1. CASE a \in deferrals[e]
      BY <2>1, <1>2, MessageTypes, MessageKept DEF MessagesInv
    <2>2. CASE a \notin deferrals[e]
      <3>1. \E m : deferrals' = [deferrals EXCEPT ![d] = DropDeferred({m}, @)]
        BY <2>2, <1>5 DEF EndOfDataCollection, EnableDataCollection2
      <3>2. PICK m : deferrals' = [deferrals EXCEPT ![d] = DropDeferred({m}, @)]
        BY <3>1
      <3>3. e = d /\ a \in DropDeferred({m}, deferrals[d])
        BY <3>2, <2>2, <1>5 DEF TypeOK
      <3> QED
        BY <3>3, <1>2, DeferralsKept
    <2> QED
      BY <2>1, <2>2
  <1> QED
    BY <1>2, <1>4, <1>5 DEF MessagesInv

-----------------------------------------------------------------------------
(* The requests of the clients *)

(* The initial state: no values, bundles or messages. *)
LEMMA InvInit == Init => ProtocolInv
  <1> SUFFICES ASSUME Init PROVE ProtocolInv
    OBVIOUS
  <1>1. /\ InitialDaemons \subseteq allDaemons
        /\ ValuesInv /\ EnabledHasSucceeded /\ NoDanglingBundle
    BY DEF Init, ValuesInv, EnabledHasSucceeded, NoDanglingBundle, NoVal
  <1>2. SharingInv /\ ClosedInv /\ FreshInv
    BY DEF Init, SharingInv, ClosedInv, FreshInv, Accepted, NoVal
  <1>3. MessagesInv
    BY DEF Init, MessagesInv
  <1> QED
    BY <1>1, <1>2, <1>3 DEF ProtocolInv

(* A request for a past phase leaves bundles and values alone. *)
LEMMA InvStaleRequest ==
    ASSUME TypeOK, StateInv, MessagesInv,
           NEW c \in Client, NEW mis \in SUBSET MI,
           RejectStaleRequest(c, mis) \/ DropStaleRequest(c, mis)
    PROVE  StateInv' /\ MessagesInv' /\ Settled
  <1> DEFINE r == nreq + 1
  <1>1. nreq \in Nat /\ r \in Req /\ nreq' = r /\ r > nreq
    BY ConstantsAssumption
    DEF RejectStaleRequest, DropStaleRequest, TypeOK, Req
  <1>2. /\ UNCHANGED <<allDaemons, bundle, freed, val, mi, fault, pending,
                       deferrals>>
        /\ \A q \in Req : q # r => /\ req'[q] = req[q] /\ last'[q] = last[q]
                                   /\ told'[q] = told[q]
    BY DEF RejectStaleRequest, DropStaleRequest, TypeOK
  <1>3. /\ ~Accepted(r) /\ freed[r] = {}
        /\ \A m \in MI : r \notin val[m].parents
    BY <1>1 DEF StateInv, FreshInv, SharingInv
  <1>4. r' = r + 1
    BY <1>1
  <1> HIDE DEF r
  <1>5. PICK k \in Req : k = r
    BY <1>1
  <1>6. \A q \in Req : Accepted(q)' <=> Accepted(q)
    BY <1>2 DEF Accepted
  <1>7. SharingInv'
    BY <1>2, <1>3, <1>5, <1>6 DEF StateInv, SharingInv, Accepted
  <1>8. ClosedInv'
    BY <1>2, <1>3, <1>5 DEF StateInv, ClosedInv, DecidedBundle, Accepted
  <1>9. FreshInv'
    BY <1>1, <1>2, <1>5 DEF StateInv, FreshInv, Accepted, Req
  <1>10. /\ InitialDaemons \subseteq allDaemons' /\ ValuesInv'
         /\ EnabledHasSucceeded' /\ NoDanglingBundle'
    BY <1>2 DEF StateInv, ValuesInv, EnabledHasSucceeded, NoDanglingBundle
  <1>11. Kept
    BY <1>2, <1>6 DEF Kept, Sent
  <1>12. MessagesInv'
    BY <1>2, <1>11, MessagesUnchanged
  <1>13. Settled
    BY <1>1, <1>2, <1>5, FinalIsLive DEF StateInv, FreshInv, Settled
  <1> QED
    BY <1>7, <1>8, <1>9, <1>10, <1>12, <1>13 DEF StateInv

(* A value that is created when a daemon matches satisfies its invariant   *)
(* once it is sent, and is not complete.                                   *)
LEMMA NewValInv ==
    ASSUME NEW m \in MI, Matching(m) # {}, Matching(m) \subseteq Daemon,
           NEW r \in Req
    PROVE  /\ ~IsEachDaemonComplete(NewVal(m))
           /\ NewVal(m).overall = "unknown" /\ ~NewVal(m).sent
           /\ LET v == [NewVal(m) EXCEPT !.parents = @ \union {r}, !.first = r,
                                         !.sent = TRUE, !.asked = Matching(m)]
              IN  /\ ValueInv(v) /\ v.live /\ v.overall = "unknown"
                  /\ v.parents = {r} /\ v.asked = Matching(m)
  <1> DEFINE n == Cardinality(Matching(m))
             unknown == [d \in Daemon |-> "unknown"]
  <1>1. IsFiniteSet(Matching(m)) /\ n \in Nat /\ n >= 1
    <2>1. IsFiniteSet(Matching(m))
      BY ConstantsAssumption, FS_Subset
    <2>2. n \in Nat /\ n # 0
      BY <2>1, FS_CardinalityType, FS_EmptySet
    <2> QED
      BY <2>1, <2>2
  <1>2. \A S \in SUBSET Known : In(unknown, S) = {}
    BY DEF In, Known, Final
  <1>3. Cardinality({}) = 0
    BY FS_EmptySet
  <1>4. /\ In(unknown, Final) = {} /\ In(unknown, Known) = {}
        /\ In(unknown, {"failure"}) = {} /\ In(unknown, {"deferred"}) = {}
        /\ In(unknown, {"success"}) = {}
    BY <1>2 DEF Known, Final
  <1> HIDE DEF n, unknown
  <1>5. Overall(unknown, n) = "unknown"
    BY <1>1, <1>3, <1>4 DEF Overall
  <1> DEFINE w == NewVal(m)
  <1>6. /\ w.num = n /\ w.st = unknown /\ w.overall = "unknown"
        /\ w.live /\ ~w.sent /\ w.reported = {} /\ w.parents = {}
        /\ DOMAIN w = DOMAIN NoVal
    BY DEF NewVal, NoVal, n, unknown
  <1>7. ~IsEachDaemonComplete(w)
    BY <1>1, <1>3, <1>4, <1>6 DEF IsEachDaemonComplete
  <1>8. DOMAIN w = {"live", "num", "st", "overall", "sent", "reported",
                    "parents", "first", "asked"}
    BY <1>6 DEF NoVal
  <1> HIDE DEF w
  <1> DEFINE v == [w EXCEPT !.parents = @ \union {r}, !.first = r,
                            !.sent = TRUE, !.asked = Matching(m)]
  <1>9. /\ v.num = n /\ v.st = unknown /\ v.overall = "unknown"
         /\ v.live /\ v.sent /\ v.reported = {} /\ v.parents = {r}
         /\ v.first = r /\ v.asked = Matching(m)
    BY <1>6, <1>8
  <1> HIDE DEF v
  <1>10. ValueInv(v)
    BY <1>1, <1>4, <1>5, <1>9 DEF ValueInv, Final, n
  <1> QED
    BY <1>6, <1>7, <1>9, <1>10 DEF v, w
(* A new bundle joins the values that exist and sends those it creates. *)
LEMMA InvEnableDataRequest ==
    ASSUME TypeOK, FocusMatched, StateInv, MessagesInv,
           NEW c \in Client, NEW mis \in SUBSET MI, NEW type \in PhaseType,
           EnableDataRequest(c, mis, type)
    PROVE  StateInv' /\ MessagesInv' /\ Settled
  <1> DEFINE base == [m \in MI |-> IF m \in mis
                   THEN IF val[m].live THEN val[m] ELSE NewVal(m)
                   ELSE val[m]]
             unsent == {m \in mis : ~base[m].sent /\ Matching(m) # {}}
             complete == \A m \in mis : IsEachDaemonComplete(base[m])
             message(r, d) == [req |-> r,
                               mis |-> {m \in unsent : d \in Matching(m)},
                               disables |-> disabled[d]]
  <1>1. PICK r \in Req : r = nreq + 1 /\ r > nreq /\ nreq \in Nat
    <2>1. nreq < NumReq
      BY DEF EnableDataRequest
    <2>2. nreq \in Nat
      BY ConstantsAssumption DEF TypeOK
    <2>3. nreq + 1 \in Req
      BY <2>1, <2>2, ConstantsAssumption DEF Req
    <2> QED
      BY <2>2, <2>3
  <1>2. /\ Running /\ nreq' = r
        /\ req' = [req EXCEPT ![r] =
                     [mis |-> mis, type |-> type, client |-> c]]
        /\ bundle' = [bundle EXCEPT ![r] = "active"]
        /\ val' = [m \in MI |->
               IF m \notin mis THEN val[m]
               ELSE [base[m] EXCEPT
                       !.parents = @ \union {r},
                       !.first = IF val[m].live THEN @ ELSE r,
                       !.sent = @ \/ m \in unsent,
                       !.asked = IF m \in unsent THEN Matching(m) ELSE @]]
        /\ mi' = [m \in MI |->
               IF m \in mis /\ base[m].overall = "success" THEN "enabled"
               ELSE IF m \in mis /\ mi[m] = "none" THEN "idle" ELSE mi[m]]
        /\ pending' = [d \in Daemon |->
               IF message(r, d).mis = {} THEN pending[d]
               ELSE Append(pending[d], message(r, d))]
        /\ UNCHANGED <<allDaemons, freed, deferrals, fault>>
    BY <1>1 DEF EnableDataRequest, CreateReq, Unsent, EnableMessage, ReadyMI
  <1>3. /\ \A q \in Req \ {r} : told'[q] = told[q] /\ last'[q] = last[q]
        /\ last'[r] => complete
    BY <1>1 DEF EnableDataRequest, CreateReq, TypeOK
  <1>4. \A m \in MI : Matching(m) # {} /\ Matching(m) \subseteq Daemon
    BY ConstantsAssumption
    DEF FocusMatched, Matching, StateInv, TypeOK
  <1>5. /\ ~Accepted(r) /\ ~last[r] /\ freed[r] = {}
        /\ \A m \in MI : r \notin val[m].parents
    BY <1>1 DEF StateInv, FreshInv, SharingInv
  \* a value the request creates
  <1>6. ASSUME NEW m \in mis, ~val[m].live
        PROVE  /\ val[m] = NoVal
               /\ m \in unsent /\ base[m].overall = "unknown"
               /\ ~IsEachDaemonComplete(base[m])
               /\ ValueInv(val'[m]) /\ val'[m].live
               /\ val'[m].overall = "unknown" /\ val'[m].parents = {r}
               /\ val'[m].asked = Matching(m)
    <2>1. m \in MI /\ base[m] = NewVal(m) /\ val[m] = NoVal
      BY <1>6 DEF StateInv, ValuesInv
    <2>2. /\ ~IsEachDaemonComplete(NewVal(m))
          /\ NewVal(m).overall = "unknown" /\ ~NewVal(m).sent
          /\ LET v == [NewVal(m) EXCEPT !.parents = @ \union {r}, !.first = r,
                                        !.sent = TRUE, !.asked = Matching(m)]
             IN  /\ ValueInv(v) /\ v.live /\ v.overall = "unknown"
                 /\ v.parents = {r} /\ v.asked = Matching(m)
      BY <1>4, <2>1, NewValInv
    <2>3. m \in unsent
      BY <1>4, <2>1, <2>2
    <2>4. val'[m] = [NewVal(m) EXCEPT
                       !.parents = @ \union {r},
                       !.first = IF val[m].live THEN @ ELSE r,
                       !.sent = @ \/ m \in unsent,
                       !.asked = IF m \in unsent THEN Matching(m) ELSE @]
      BY <1>2, <2>1
    <2> HIDE DEF unsent, base
    <2>5. val'[m] = [NewVal(m) EXCEPT !.parents = @ \union {r}, !.first = r,
                                      !.sent = TRUE, !.asked = Matching(m)]
      BY <1>6, <2>3, <2>4
    <2> QED
      BY <2>1, <2>2, <2>3, <2>5
  \* a value the request shares
  <1>7. ASSUME NEW m \in mis, val[m].live
        PROVE  /\ base[m] = val[m] /\ m \notin unsent
               /\ ValueInv(val'[m]) /\ val'[m].live
               /\ val'[m].overall = val[m].overall
               /\ val'[m].parents = val[m].parents \union {r}
               /\ val'[m].asked = val[m].asked
    <2>1. m \in MI /\ base[m] = val[m]
      BY <1>7
    <2>2. ValueInv(val[m]) /\ val[m] \in Value
      BY <1>7, <2>1 DEF StateInv, ValuesInv, TypeOK
    <2>3. m \notin unsent
      BY <2>1, <2>2 DEF ValueInv
    <2>4. val'[m] = [val[m] EXCEPT
                       !.parents = @ \union {r},
                       !.first = IF val[m].live THEN @ ELSE r,
                       !.sent = @ \/ m \in unsent,
                       !.asked = IF m \in unsent THEN Matching(m) ELSE @]
      BY <1>2, <2>1
    <2> HIDE DEF unsent, base
    <2> DEFINE v == val'[m]
    <2>5. /\ v.live /\ v.num = val[m].num /\ v.st = val[m].st
          /\ v.overall = val[m].overall /\ v.sent = val[m].sent
          /\ v.reported = val[m].reported /\ v.first = val[m].first
          /\ v.parents = val[m].parents \union {r}
          /\ v.asked = val[m].asked
      BY <1>7, <2>2, <2>3, <2>4 DEF Value
    <2> HIDE DEF v
    <2>6. ValueInv(v)
      BY <2>2, <2>5 DEF ValueInv
    <2> QED
      BY <2>1, <2>3, <2>5, <2>6 DEF v
  <1>8. \A m \in MI \ mis : val'[m] = val[m]
    BY <1>2
  <1>9. \A m \in mis : base[m].overall = val'[m].overall
    BY <1>6, <1>7
  <1> HIDE DEF base, unsent, message
  <1>10. ValuesInv'
    BY <1>6, <1>7, <1>8 DEF StateInv, ValuesInv
  <1>11. /\ req'[r].mis = mis /\ bundle'[r] = "active"
         /\ \A q \in Req \ {r} : req'[q] = req[q] /\ bundle'[q] = bundle[q]
    BY <1>2 DEF TypeOK
  <1>12. \A m \in MI, q \in Req \ {r} :
            q \in val'[m].parents <=> q \in val[m].parents
    <2>1. NoVal.parents = {}
      BY DEF NoVal
    <2> QED
      BY <1>6, <1>7, <1>8, <2>1
  <1>13. \A m \in MI : r \in val'[m].parents <=> m \in mis
    BY <1>5, <1>6, <1>7, <1>8
  <1>14. \A q \in Req : Accepted(q) => Accepted(q)'
    BY <1>11 DEF Accepted
  <1>15. SharingInv'
    <2> SUFFICES ASSUME NEW q \in Req, NEW m \in MI
                 PROVE  q \in val'[m].parents
                          <=> Accepted(q)' /\ m \in req'[q].mis \ freed[q]
      BY <1>2 DEF SharingInv
    <2>1. CASE q = r
      BY <2>1, <1>5, <1>11, <1>13 DEF Accepted
    <2>2. CASE q # r
      BY <2>2, <1>11, <1>12 DEF StateInv, SharingInv, Accepted
    <2> QED
      BY <2>1, <2>2
  <1>16. ASSUME NEW m \in MI, val[m].overall \in Final
         PROVE  val'[m].overall = val[m].overall
    <2>1. val[m].live
      BY <1>16 DEF StateInv, ValuesInv, NoVal, Final
    <2> QED
      BY <2>1, <1>7, <1>8
  <1>17. ClosedInv'
    <2> SUFFICES ASSUME NEW q \in Req,
                        bundle'[q] = "deleted" \/ (last'[q] /\ Accepted(q)')
                 PROVE  freed[q] = {} /\ \A m \in req'[q].mis : val'[m].overall \in Final
      BY <1>2 DEF ClosedInv, DecidedBundle
    <2>1. CASE q = r
      <3>1. \A m \in mis : IsEachDaemonComplete(base[m])
        BY <2>1, <1>3, <1>11
      <3>2. \A m \in mis : val[m].live /\ base[m] = val[m]
        BY <3>1, <1>6, <1>7
      <3>3. \A m \in mis : ValueInv(val[m]) /\ val[m] \in Value
        BY <3>2 DEF StateInv, ValuesInv, TypeOK
      <3>4. \A m \in mis : val[m].overall \in Final
        BY <3>1, <3>2, <3>3, CompleteIsDecided
      <3> QED
        BY <2>1, <3>4, <1>5, <1>11, <1>16
    <2>2. CASE q # r
      <3>1. DecidedBundle(q)
        BY <2>2, <1>3, <1>11 DEF StateInv, ClosedInv, Accepted
      <3>2. req[q].mis \subseteq MI
        BY DEF TypeOK, Request
      <3> QED
        BY <2>2, <3>1, <3>2, <1>11, <1>16 DEF DecidedBundle
    <2> QED
      BY <2>1, <2>2
  <1>18. FreshInv'
    <2> SUFFICES ASSUME NEW q \in Req, q > r
                 PROVE  /\ ~Accepted(q)' /\ ~last'[q] /\ freed[q] = {}
                        /\ told'[q] = [m \in MI |-> <<>>]
      BY <1>2 DEF FreshInv
    <2>1. q # r /\ q > nreq
      BY <1>1 DEF Req
    <2> QED
      BY <2>1, <1>3, <1>11 DEF StateInv, FreshInv, Accepted
  <1>19. EnabledHasSucceeded'
    <2> SUFFICES ASSUME NEW m \in MI, mi'[m] = "enabled"
                 PROVE  val'[m].overall = "success"
      BY DEF EnabledHasSucceeded
    <2>1. CASE m \in mis /\ base[m].overall = "success"
      BY <2>1, <1>9
    <2>2. CASE ~(m \in mis /\ base[m].overall = "success")
      <3>1. mi[m] = "enabled"
        BY <2>2, <1>2
      <3> QED
        BY <3>1, <1>16 DEF StateInv, EnabledHasSucceeded, Final
    <2> QED
      BY <2>1, <2>2
  <1>20. NoDanglingBundle' /\ InitialDaemons \subseteq allDaemons'
    BY <1>2 DEF StateInv, NoDanglingBundle
  <1>21. Kept
    <2> SUFFICES ASSUME NEW d \in Daemon, NEW q \in Req, NEW m \in MI,
                        Sent(d, q, m)
                 PROVE  m \in freed[q] \/ (q \in val'[m].parents /\ d \in val'[m].asked)
      BY <1>2, <1>14 DEF Kept, Sent
    <2>1. CASE q \in val[m].parents /\ d \in val[m].asked
      <3>1. val[m].live
        BY <2>1, ParentsLive DEF StateInv
      <3> QED
        BY <2>1, <3>1, <1>7, <1>8
    <2> QED
      BY <2>1 DEF Sent
  <1>22. ASSUME NEW d \in Daemon, NEW i \in 1 .. Len(pending'[d])
         PROVE  MessageOK(d, pending[d][i].req, pending[d][i].mis)'
    <2>1. pending[d] \in Seq(Messages)
      BY DEF TypeOK
    <2>2. CASE i \in 1 .. Len(pending[d]) /\ pending'[d][i] = pending[d][i]
      <3>1. PICK q \in Req \union {0}, D \in SUBSET MI :
               /\ pending'[d][i].req = q /\ pending'[d][i].mis = D
               /\ MessageOK(d, q, D)
        BY <2>2, MessageTypes DEF MessagesInv
      <3>2. MessageOK(d, q, D)'
        BY <3>1, <1>21, MessageKept
      <3> QED
        BY <3>1, <3>2
    <2>3. CASE pending'[d][i] = message(r, d)
      <3>1. /\ pending'[d][i].req = r
            /\ pending'[d][i].mis = {m \in unsent : d \in Matching(m)}
        BY <2>3 DEF message
      <3>2. Accepted(r)'
        BY <1>11 DEF Accepted
      <3>3. \A m \in unsent : d \in Matching(m) =>
                r \in val'[m].parents /\ d \in val'[m].asked
        <4>1. unsent \subseteq mis
          BY DEF unsent
        <4> QED
          BY <4>1, <1>6, <1>7
      <3> QED
        BY <3>1, <3>2, <3>3 DEF MessageOK, Sent
    <2>4. pending'[d] = pending[d] \/ pending'[d] = Append(pending[d], message(r, d))
      BY <1>2
    <2> QED
      BY <2>1, <2>2, <2>3, <2>4
  <1>23. ASSUME NEW d \in Daemon, NEW a \in deferrals'[d]
         PROVE  MessageOK(d, a.req, DOMAIN a.st)'
    BY <1>2, <1>21, MessageTypes, MessageKept DEF MessagesInv
  <1>24. \A m \in MI : val[m].overall \in Final => val'[m].live
    BY <1>7, <1>8, FinalIsLive DEF StateInv
  <1>25. Settled
    BY <1>3, <1>5, <1>16, <1>24 DEF Settled
  <1> QED
    BY <1>10, <1>15, <1>17, <1>18, <1>19, <1>20, <1>22, <1>23, <1>25
    DEF StateInv, MessagesInv
-----------------------------------------------------------------------------
(* New programs *)

(* Asking one more daemon keeps the invariant of an undecided value.       *)
LEMMA AskOneMore ==
    ASSUME NEW v \in Value, ValueInv(v), v.overall \notin Final,
           NEW d \in Daemon
    PROVE  LET w == [v EXCEPT !.num = @ + 1, !.asked = @ \union {d}]
           IN  /\ ValueInv(w) /\ w.live = v.live /\ w.first = v.first
               /\ w.overall = v.overall /\ w.parents = v.parents
               /\ w.asked = v.asked \union {d}
  <1> DEFINE w == [v EXCEPT !.num = @ + 1, !.asked = @ \union {d}]
  <1>1. /\ w.live = v.live /\ w.num = v.num + 1 /\ w.st = v.st
        /\ w.overall = v.overall /\ w.sent = v.sent /\ w.first = v.first
        /\ w.reported = v.reported /\ w.parents = v.parents
        /\ w.asked = v.asked \union {d}
    BY DEF Value
  <1> HIDE DEF w
  <1>2. v.num \in Nat /\ v.num >= 1
    BY DEF Value, ValueInv
  <1>3. Cardinality(w.asked) <= v.num + 1
    <2>1. Cardinality(w.asked) \in {Cardinality(v.asked), Cardinality(v.asked) + 1}
      BY <1>1, AskedFinite, FS_AddElement
    <2> QED
      BY <2>1, <1>2, AskedFinite DEF ValueInv
  <1>4. w.overall = Overall(w.st, w.num)
    <2>1. v.overall = Overall(v.st, v.num)
      BY DEF ValueInv
    <2>2. In(v.st, {"failure"}) = {}
      BY <2>1 DEF Overall, Final
    <2>3. CASE In(v.st, {"deferred"}) # {}
      BY <2>1, <2>2, <2>3, <1>1 DEF Overall
    <2>4. CASE In(v.st, {"deferred"}) = {}
      <3>1. In(v.st, {"success"}) \subseteq v.asked
        BY DEF ValueInv, In, Known, Final
      <3>2. /\ Cardinality(In(v.st, {"success"})) <= Cardinality(v.asked)
            /\ Cardinality(In(v.st, {"success"})) \in Nat
        BY <3>1, AskedFinite, FS_Subset, FS_CardinalityType
      <3>3. Cardinality(In(v.st, {"success"})) # v.num + 1
        BY <3>2, <1>2, AskedFinite DEF ValueInv
      <3>4. v.overall = "unknown"
        BY <2>1, <2>2, <2>4 DEF Overall, Final
      <3> QED
        BY <2>2, <2>4, <3>3, <3>4, <1>1 DEF Overall
    <2> QED
      BY <2>3, <2>4
  <1>5. ValueInv(w)
    BY <1>1, <1>2, <1>3, <1>4 DEF ValueInv
  <1> QED
    BY <1>1, <1>5 DEF w

(* An undecided value is not used by a deleted bundle.                     *)
LEMMA UndecidedNotDeleted ==
    ASSUME TypeOK, StateInv, NEW m \in MI, NEW r \in val[m].parents,
           val[m].overall \notin Final
    PROVE  r \in Req /\ Accepted(r) /\ bundle[r] # "deleted"
  <1>1. r \in Req
    BY DEF TypeOK, Value
  <1>2. Accepted(r) /\ m \in req[r].mis
    BY <1>1 DEF StateInv, SharingInv
  <1>3. bundle[r] # "deleted"
    BY <1>1, <1>2 DEF StateInv, ClosedInv, DecidedBundle
  <1> QED
    BY <1>1, <1>2, <1>3

(* The undecided values a new program attaches to ask one daemon more, in  *)
(* the name of a bundle that is still there.                               *)
LEMMA InvNewProgram ==
    ASSUME TypeOK, StateInv, MessagesInv, NEW d \in Daemon, NewProgram(d)
    PROVE  StateInv' /\ MessagesInv' /\ Settled
  <1> DEFINE attach == {m \in MI : /\ mi[m] = "idle" /\ val[m].live
                                   /\ val[m].overall \notin Final
                                   /\ ~AlreadySentOn(m, d)}
  <1>1. \A m \in attach : /\ m \in MI /\ val[m].live /\ val[m] \in Value
                          /\ val[m].overall \notin Final
                          /\ ValueInv(val[m])
                          /\ val[m].first \in val[m].parents
    BY DEF StateInv, ValuesInv, ValueInv, TypeOK
  <1>2. \A m \in attach : /\ val[m].first \in Req /\ Accepted(val[m].first)
                          /\ bundle[val[m].first] # "deleted"
    BY <1>1, UndecidedNotDeleted
  <1>3. ~Dangling({val[m].first : m \in attach})
    BY <1>2 DEF Dangling
  <1>4. /\ Running
        /\ val' = [m \in MI |->
               IF m \in attach
               THEN [val[m] EXCEPT !.num = @ + 1, !.asked = @ \union {d}]
               ELSE val[m]]
        /\ \E ok \in SUBSET MI, S \in SUBSET MI : \E f \in Orderings(S) :
              pending' = [pending EXCEPT ![d] =
                            @ \o ProgramMessages(d, f, attach, ok)]
        /\ UNCHANGED <<allDaemons, nreq, req, bundle, freed, mi, deferrals,
                       told, last, fault>>
    <2> DEFINE missing == {m \in MI : mi[m] = "enabled" /\ d \notin comps[m]}
    <2>1. \E ok \in SUBSET missing, f \in Orderings(attach \union missing) :
             pending' = [pending EXCEPT ![d] =
                           @ \o ProgramMessages(d, f, attach, ok)]
      BY <1>3 DEF NewProgram
    <2>2. attach \union missing \in SUBSET MI /\ missing \subseteq MI
      OBVIOUS
    <2>3. \E ok \in SUBSET MI, S \in SUBSET MI : \E f \in Orderings(S) :
              pending' = [pending EXCEPT ![d] =
                            @ \o ProgramMessages(d, f, attach, ok)]
      <3> HIDE DEF attach, missing
      <3> QED
        BY <2>1, <2>2
    <2> QED
      BY <1>3, <2>3 DEF NewProgram, Ask
  <1> HIDE DEF attach
  <1>5. \A m \in attach :
           /\ ValueInv(val'[m]) /\ val'[m].live /\ val'[m].first = val[m].first
           /\ val'[m].overall = val[m].overall
           /\ val'[m].parents = val[m].parents
           /\ val'[m].asked = val[m].asked \union {d}
    BY <1>1, <1>4, AskOneMore
  <1>6. \A m \in MI \ attach : val'[m] = val[m]
    BY <1>4
  <1>7. \A m \in MI : /\ val'[m].overall = val[m].overall
                      /\ val'[m].parents = val[m].parents
                      /\ val[m].asked \subseteq val'[m].asked
    BY <1>5, <1>6
  <1>8. ValuesInv'
    BY <1>5, <1>6 DEF StateInv, ValuesInv
  <1>9. SharingInv' /\ FreshInv'
    BY <1>4, <1>7 DEF StateInv, SharingInv, FreshInv, Accepted
  <1>10. ClosedInv'
    <2>1. \A r \in Req : req[r].mis \subseteq MI
      BY DEF TypeOK, Request
    <2> QED
      BY <2>1, <1>4, <1>7 DEF StateInv, ClosedInv, DecidedBundle, Accepted
  <1>11. /\ InitialDaemons \subseteq allDaemons' /\ NoDanglingBundle'
         /\ EnabledHasSucceeded'
    BY <1>4, <1>7 DEF StateInv, NoDanglingBundle, EnabledHasSucceeded
  <1>12. Kept
    BY <1>4, <1>7 DEF Kept, Sent, Accepted
  <1>13. ASSUME NEW e \in Daemon, NEW i \in 1 .. Len(pending'[e])
         PROVE  MessageOK(e, pending[e][i].req, pending[e][i].mis)'
    <2>0. PICK ok \in SUBSET MI, S \in SUBSET MI : \E f \in Orderings(S) :
             pending' = [pending EXCEPT ![d] =
                           @ \o ProgramMessages(d, f, attach, ok)]
      BY <1>4
    <2>1. PICK f \in Orderings(S) :
             pending' = [pending EXCEPT ![d] =
                           @ \o ProgramMessages(d, f, attach, ok)]
      BY <2>0
    <2> DEFINE new == ProgramMessages(d, f, attach, ok)
               n == Cardinality(S)
    <2>2. pending \in [Daemon -> Seq(Messages)]
      BY DEF TypeOK
    <2>3. n \in Nat /\ \A m \in attach : val[m].first \in Req
      BY <1>2, ConstantsAssumption, FS_Subset, FS_CardinalityType
    <2>5. new \in Seq(Messages) /\ Len(new) = n
      BY <2>3, ProgramMessagesType
    <2>6. CASE i \in 1 .. Len(pending[e]) /\ pending'[e][i] = pending[e][i]
      <3>1. PICK q \in Req \union {0}, D \in SUBSET MI :
               /\ pending'[e][i].req = q /\ pending'[e][i].mis = D
               /\ MessageOK(e, q, D)
        BY <2>6, MessageTypes DEF MessagesInv
      <3>2. MessageOK(e, q, D)'
        BY <3>1, <1>12, MessageKept
      <3> QED
        BY <3>1, <3>2
    <2>7. ASSUME e = d, NEW k \in 1 .. n, pending'[e][i] = new[k]
          PROVE  MessageOK(e, pending[e][i].req, pending[e][i].mis)'
      <3>1. k \in DOMAIN f
        BY <2>3 DEF Orderings
      <3>2. new[k] = [req |-> IF f[k] \in attach THEN val[f[k]].first ELSE 0,
                      mis |-> {f[k]} \intersect (attach \union ok),
                      disables |-> IF k = 1 THEN disabled[d] ELSE {}]
        BY <3>1 DEF ProgramMessages
      <3>3. CASE f[k] \notin attach
        <4>1. pending'[e][i].req = 0
          BY <2>7, <3>2, <3>3
        <4> QED
          BY <4>1 DEF MessageOK
      <3>4. CASE f[k] \in attach
        <4>1. PICK m \in attach : m = f[k]
          BY <3>4
        <4>2. /\ pending'[e][i].req = val[m].first
              /\ pending'[e][i].mis = {m}
          BY <2>7, <3>2, <4>1
        <4>3. PICK q \in Req : q = val[m].first
          BY <1>2
        <4>4. q \in val'[m].parents /\ d \in val'[m].asked
          BY <1>1, <1>5, <4>3
        <4>5. Accepted(q)'
          BY <1>2, <1>4, <4>3 DEF Accepted
        <4> QED
          BY <2>7, <4>2, <4>3, <4>4, <4>5 DEF MessageOK, Sent
      <3> QED
        BY <3>3, <3>4
    <2> HIDE DEF new, n
    <2>8. CASE e = d
      <3>1. pending'[d] = pending[d] \o new
        BY <2>1, <2>2 DEF new
      <3>2. \/ i \in 1 .. Len(pending[d]) /\ pending'[d][i] = pending[d][i]
            \/ \E k \in 1 .. n : pending'[d][i] = new[k]
        <4>1. /\ Len(pending'[d]) = Len(pending[d]) + Len(new)
              /\ pending'[d][i] = IF i <= Len(pending[d]) THEN pending[d][i]
                                  ELSE new[i - Len(pending[d])]
          <5>1. pending[d] \in Seq(Messages) /\ i \in 1 .. Len(pending'[d])
            BY <2>2, <2>8, <1>13
          <5>2. /\ Len(pending[d] \o new) = Len(pending[d]) + Len(new)
                /\ \A j \in 1 .. Len(pending[d]) + Len(new) :
                      (pending[d] \o new)[j]
                        = IF j <= Len(pending[d]) THEN pending[d][j]
                          ELSE new[j - Len(pending[d])]
            BY <5>1, <2>5, ConcatProperties
          <5> QED
            BY <3>1, <5>1, <5>2
        <4>2. Len(pending[d]) \in Nat /\ Len(new) \in Nat
          BY <2>2, <2>5, LenProperties
        <4>3. CASE i <= Len(pending[d])
          BY <4>1, <4>2, <4>3, <2>8
        <4>4. CASE i > Len(pending[d])
          <5>1. i - Len(pending[d]) \in 1 .. n
            BY <4>1, <4>2, <4>4, <2>5, <2>8
          <5> QED
            BY <4>1, <4>2, <4>4, <5>1, <2>8
        <4> QED
          BY <4>2, <4>3, <4>4, <2>8
      <3> QED
        BY <2>6, <2>7, <2>8, <3>2
    <2>9. CASE e # d
      BY <2>1, <2>2, <2>6, <2>9
    <2> QED
      BY <2>8, <2>9
  <1>14. ASSUME NEW e \in Daemon, NEW a \in deferrals'[e]
         PROVE  MessageOK(e, a.req, DOMAIN a.st)'
    BY <1>4, <1>12, MessageTypes, MessageKept DEF MessagesInv
  <1>15. \A m \in MI : val[m].overall \in Final => val'[m].live
    BY <1>5, <1>6, FinalIsLive DEF StateInv
  <1>16. Settled
    BY <1>4, <1>7, <1>15 DEF Settled
  <1> QED
    BY <1>8, <1>9, <1>10, <1>11, <1>13, <1>14, <1>16 DEF StateInv, MessagesInv

-----------------------------------------------------------------------------
(* A new phase *)

(* A new phase forgets undecided values only, with the bundles that used   *)
(* them noting the loss, and completes no bundle.                          *)
LEMMA InvStartPhase ==
    ASSUME TypeOK, StateInv, MessagesInv,
           NEW stop \in SUBSET Enabled, NEW keep \in SUBSET stop,
           StartPhase(stop, keep)
    PROVE  StateInv' /\ MessagesInv' /\ Settled
  <1> DEFINE undecided == {m \in MI : val[m].live /\ val[m].overall \notin Final}
             currentParents == [m \in MI |->
                {r \in val[m].parents : req[r].type = "CurrentPhase"}]
             gone == {m \in undecided : currentParents[m] = val[m].parents}
             cancelled == UNION {currentParents[m] : m \in undecided}
             failure == [m \in MI |-> "failure"]
  <1>1. CASE Fail("freed") /\ UNCHANGED <<nodes, pending, deferrals>>
    BY <1>1, InvFail, MessagesUnchanged
  <1>2. CASE ~(Fail("freed") /\ UNCHANGED <<nodes, pending, deferrals>>)
    <2>1. ~Dangling(Parents(val, undecided))
      BY UndecidedNotDeleted DEF Dangling, Parents
    <2>2. /\ mi' = [m \in MI |-> IF m \notin stop THEN mi[m]
                                 ELSE IF m \in keep THEN "idle"
                                 ELSE "deleted"]
          /\ told' = Tell(undecided, currentParents, failure)
          /\ last' = FlagLast(cancelled, val)
          /\ val' = [m \in MI |-> IF m \in gone THEN NoVal ELSE val[m]]
          /\ freed' = [r \in Req |-> freed[r] \union
                            {m \in gone : r \in val[m].parents}]
          /\ UNCHANGED <<allDaemons, nreq, req, bundle, pending, deferrals,
                         fault>>
      BY <1>2, <2>1 DEF StartPhase
    <2>3. /\ \A m \in gone : val'[m] = NoVal
          /\ \A m \in MI \ gone : val'[m] = val[m]
      BY <2>2
    <2>4. \A r \in Req, m \in MI :
             m \in freed'[r] <=> m \in freed[r] \/ (m \in gone /\ r \in val[m].parents)
      BY <2>2
    <2>5. \A r \in Req : \A m \in undecided :
             r \in currentParents[m] => r \in val[m].parents
      OBVIOUS
    <2>6. \A m \in gone : val[m].overall \notin Final
      OBVIOUS
    <2>7. gone \subseteq undecided /\ undecided \subseteq MI
      OBVIOUS
    <2>8. \A m \in undecided : val[m].live /\ val[m].overall \notin Final
      OBVIOUS
    <2> HIDE DEF undecided, gone, currentParents, failure
    \* no bundle becomes complete here
    <2>9. ASSUME NEW r \in Req, last'[r]
          PROVE  last[r]
      <3>1. ASSUME r \in cancelled, IsBundleComplete(r, val)
            PROVE  FALSE
        <4>1. PICK m \in undecided : r \in val[m].parents
          BY <3>1, <2>5
        <4>2. Accepted(r) /\ m \in req[r].mis
          BY <4>1, <2>7 DEF StateInv, SharingInv
        <4>3. IsEachDaemonComplete(val[m])
          BY <3>1, <4>2 DEF IsBundleComplete
        <4>4. ValueInv(val[m]) /\ val[m] \in Value
          BY <4>1, <2>7, ParentsLive DEF StateInv
        <4> QED
          BY <4>1, <4>3, <4>4, <2>8, CompleteIsDecided
      <3> HIDE DEF cancelled
      <3> QED
        BY <2>2, <2>9, <3>1 DEF FlagLast, TypeOK
    <2>10. ValuesInv'
      <3>1. ~NoVal.live
        BY DEF NoVal
      <3> QED
        BY <2>3, <3>1 DEF StateInv, ValuesInv
    <2>11. SharingInv'
      <3> SUFFICES ASSUME NEW r \in Req, NEW m \in MI
                   PROVE  r \in val'[m].parents
                            <=> Accepted(r) /\ m \in req[r].mis \ freed'[r]
        BY <2>2 DEF SharingInv, Accepted
      <3>1. r \in val[m].parents <=> Accepted(r) /\ m \in req[r].mis \ freed[r]
        BY DEF StateInv, SharingInv
      <3>2. CASE m \in gone
        BY <3>1, <3>2, <2>3, <2>4 DEF NoVal
      <3>3. CASE m \notin gone
        BY <3>1, <3>3, <2>3, <2>4
      <3> QED
        BY <3>2, <3>3
    <2>12. ClosedInv'
      <3> SUFFICES ASSUME NEW r \in Req,
                          bundle[r] = "deleted" \/ (last[r] /\ Accepted(r))
                   PROVE  freed'[r] = {} /\ \A m \in req[r].mis : val'[m].overall \in Final
        BY <2>2, <2>9 DEF ClosedInv, DecidedBundle, Accepted
      <3>1. DecidedBundle(r) /\ req[r].mis \subseteq MI
        BY DEF StateInv, ClosedInv, TypeOK, Request
      <3>2. \A m \in req[r].mis : m \notin gone
        BY <3>1, <2>6 DEF DecidedBundle
      <3>3. \A m \in MI : r \in val[m].parents => m \in req[r].mis
        BY DEF StateInv, SharingInv
      <3>4. freed'[r] \subseteq MI
        BY <2>2, <2>7 DEF TypeOK
      <3> QED
        BY <3>1, <3>2, <3>3, <3>4, <2>3, <2>4 DEF DecidedBundle
    <2>13. FreshInv'
      <3> SUFFICES ASSUME NEW r \in Req, r > nreq
                   PROVE  /\ ~Accepted(r) /\ ~last[r] /\ freed'[r] = {}
                          /\ told'[r] = [m \in MI |-> <<>>]
        BY <2>2, <2>9 DEF FreshInv, Accepted
      <3>1. /\ ~Accepted(r) /\ ~last[r] /\ freed[r] = {}
            /\ told[r] = [m \in MI |-> <<>>]
        BY DEF StateInv, FreshInv
      <3>2. \A m \in MI : r \notin val[m].parents
        BY <3>1 DEF StateInv, SharingInv
      <3>3. freed'[r] = {}
        BY <2>2, <2>7, <3>1, <3>2
      <3>4. told'[r] = [m \in MI |-> told[r][m]]
        BY <2>2, <2>5, <3>2, <2>7 DEF Tell
      <3> QED
        BY <3>1, <3>3, <3>4
    <2>14. EnabledHasSucceeded'
      <3> SUFFICES ASSUME NEW m \in MI, mi'[m] = "enabled"
                   PROVE  val'[m].overall = "success"
        BY DEF EnabledHasSucceeded
      <3>1. val[m].overall = "success"
        BY <2>2 DEF StateInv, EnabledHasSucceeded
      <3> QED
        BY <3>1, <2>3, <2>6 DEF Final
    <2>15. NoDanglingBundle' /\ InitialDaemons \subseteq allDaemons'
      BY <2>2 DEF StateInv, NoDanglingBundle
    <2>16. Kept
      <3>1. \A d \in Daemon, r \in Req, m \in MI : Sent(d, r, m) => Sent(d, r, m)'
        BY <2>3, <2>4 DEF Sent
      <3> QED
        BY <2>2, <3>1 DEF Kept, Accepted
    <2>17. MessagesInv'
      BY <2>2, <2>16, MessagesUnchanged
    <2>18. ASSUME NEW r \in Req, last[r]
           PROVE  last'[r] /\ told'[r] = told[r]
      <3>1. \A m \in undecided : r \notin currentParents[m]
        BY <2>5, <2>7, <2>8, <2>18, ClosedIsDecided DEF StateInv
      <3>2. told'[r] = [m \in MI |-> told[r][m]]
        BY <2>2, <3>1 DEF Tell
      <3>3. last'[r]
        BY <2>2, <2>18 DEF FlagLast
      <3> QED
        BY <3>2, <3>3 DEF TypeOK
    <2>19. \A m \in MI : val[m].overall \in Final =>
              val'[m].live /\ val'[m].overall = val[m].overall
      BY <2>3, <2>6, FinalIsLive DEF StateInv
    <2>20. Settled
      BY <2>18, <2>19 DEF Settled
    <2> QED
      BY <2>10, <2>11, <2>12, <2>13, <2>14, <2>15, <2>17, <2>20 DEF StateInv
  <1> QED
    BY <1>1, <1>2
-----------------------------------------------------------------------------
(* All steps *)

(* Every step keeps the protocol invariant and leaves decisions settled. *)
LEMMA InvNext ==
    ASSUME FocusMatched, TypeOK, ProtocolInv, [Next]_vars
    PROVE  ProtocolInv' /\ Settled
  <1>0. StateInv /\ MessagesInv
    BY DEF ProtocolInv, StateInv
  <1> SUFFICES StateInv' /\ MessagesInv' /\ Settled
    BY DEF ProtocolInv, StateInv
  <1>1. ASSUME NEW c \in Client, NEW mis \in SUBSET MI, NEW type \in PhaseType,
               EnableDataRequest(c, mis, type)
        PROVE  StateInv' /\ MessagesInv' /\ Settled
    BY <1>0, <1>1, InvEnableDataRequest
  <1>2. ASSUME NEW c \in Client, NEW mis \in SUBSET MI,
               RejectStaleRequest(c, mis) \/ DropStaleRequest(c, mis)
        PROVE  StateInv' /\ MessagesInv' /\ Settled
    BY <1>0, <1>2, InvStaleRequest
  <1>3. ASSUME NEW d \in Daemon, EnableDataCallback(d)
        PROVE  StateInv' /\ MessagesInv' /\ Settled
    BY <1>0, <1>3, InvEnableDataCallback
  <1>4. ASSUME NEW d \in Daemon, DeferredCallback(d)
        PROVE  StateInv' /\ MessagesInv' /\ Settled
    BY <1>0, <1>4, InvDeferredCallback
  <1>11. ASSUME NEW d \in Daemon,
                EndOfDataCollection(d) \/ EnableDataCollection2(d)
         PROVE  StateInv' /\ MessagesInv' /\ Settled
    BY <1>0, <1>11, InvDaemon
  <1>5. ASSUME NEW d \in Daemon, AddDaemon(d)
        PROVE  StateInv' /\ MessagesInv' /\ Settled
    <2>1. /\ Running /\ allDaemons \subseteq allDaemons'
          /\ UNCHANGED <<nreq, req, bundle, freed, val, mi, told, last, fault,
                         pending, deferrals>>
      BY <1>5 DEF AddDaemon
    <2> QED
      BY <1>0, <2>1, InvFrame, MessagesUnchanged DEF Running
  <1>6. ASSUME NEW d \in Daemon, NewProgram(d)
        PROVE  StateInv' /\ MessagesInv' /\ Settled
    BY <1>0, <1>6, InvNewProgram
  <1>7. ASSUME NEW stop \in SUBSET Enabled, NEW keep \in SUBSET stop,
               StartPhase(stop, keep)
        PROVE  StateInv' /\ MessagesInv' /\ Settled
    BY <1>0, <1>7, InvStartPhase
  <1>8. ASSUME NEW m \in MI, DisableDataCollection(m) \/ ClearPersistentData(m)
        PROVE  StateInv' /\ MessagesInv' /\ Settled
    <2>1. /\ Running
          /\ \E next \in {"idle", "deleted"} : mi' = [mi EXCEPT ![m] = next]
          /\ UNCHANGED <<allDaemons, nreq, req, bundle, freed, val, told, last,
                         fault, pending, deferrals>>
      BY <1>8 DEF DisableDataCollection, ClearPersistentData
    <2>2. \A n \in MI : mi'[n] = "enabled" => mi[n] = "enabled"
      BY <2>1 DEF TypeOK
    <2> QED
      BY <1>0, <2>1, <2>2, InvFrame, MessagesUnchanged DEF Running
  <1>9. ASSUME NEW c \in Client, DestroyPerformanceStream(c)
        PROVE  StateInv' /\ MessagesInv' /\ Settled
    <2>1. /\ Running
          /\ UNCHANGED <<allDaemons, nreq, req, bundle, freed, val, mi, told,
                         last, fault, pending, deferrals>>
      BY <1>9 DEF DestroyPerformanceStream
    <2> QED
      BY <1>0, <2>1, InvFrame, MessagesUnchanged DEF Running
  <1>10. CASE UNCHANGED vars
    <2>1. UNCHANGED <<allDaemons, nreq, req, bundle, freed, val, mi, told,
                      last, fault, pending, deferrals>>
      BY <1>10 DEF vars
    <2>2. fault # "dangling"
      BY <1>0 DEF StateInv, NoDanglingBundle
    <2> QED
      BY <1>0, <2>1, <2>2, InvFrame, MessagesUnchanged
  <1> QED
    BY <1>1, <1>2, <1>3, <1>4, <1>5, <1>6, <1>7, <1>8, <1>9, <1>10, <1>11
    DEF Next, Answering

(* When every focus selects a daemon attached from the start, the protocol *)
(* invariant holds throughout: updateWithEnableCallback, startPhase and    *)
(* propagateMetrics keep values, bundles and messages consistent.          *)
THEOREM ProtocolCorrect == ASSUME FocusMatched PROVE Spec => []ProtocolInv
  <1>1. Init => ProtocolInv
    BY InvInit
  <1>2. TypeOK /\ ProtocolInv /\ [Next]_vars => ProtocolInv'
    BY InvNext
  <1>3. Spec => []TypeOK
    BY TypeCorrect
  <1> QED
    BY <1>1, <1>2, <1>3, PTL DEF Spec

(* No handler reaches a deleted bundle through a value's parent list,      *)
(* which ~metricFocusReqBundle leaves as it is.                            *)
THEOREM DeletedBundleUnreached ==
    ASSUME FocusMatched PROVE Spec => []NoDanglingBundle
  <1>1. ProtocolInv => NoDanglingBundle
    BY DEF ProtocolInv
  <1> QED
    BY <1>1, ProtocolCorrect, PTL

(* calculateNewOverallState says success only when each daemon the pair    *)
(* was sent to, at the request or when it attached, has answered success.  *)
THEOREM UnanimousSuccess ==
    ASSUME FocusMatched PROVE Spec => []SuccessIsUnanimous
  <1>1. TypeOK /\ ProtocolInv => SuccessIsUnanimous
    <2> SUFFICES ASSUME TypeOK, ProtocolInv, NEW m \in MI,
                        val[m].overall = "success", NEW d \in val[m].asked
                 PROVE  val[m].st[d] = "success"
      BY DEF SuccessIsUnanimous
    <2>1. ValueInv(val[m]) /\ val[m] \in Value
      BY FinalIsLive DEF ProtocolInv, TypeOK, Final
    <2>2. d \in In(val[m].st, {"success"})
      BY <2>1, SuccessOfAll
    <2> QED
      BY <2>2 DEF In
  <1> QED
    BY <1>1, ProtocolCorrect, TypeCorrect, PTL

(* An instance that delivers data has a value that succeeded, whatever     *)
(* phases start and whichever clients stop.                                *)
THEOREM EnabledSucceeded ==
    ASSUME FocusMatched PROVE Spec => []EnabledHasSucceeded
  <1>1. ProtocolInv => EnabledHasSucceeded
    BY DEF ProtocolInv
  <1> QED
    BY <1>1, ProtocolCorrect, PTL

(* No step changes or deletes a value that succeeded or failed.            *)
THEOREM StableDecision == ASSUME FocusMatched PROVE Spec => DecisionIsStable
  <1>1. TypeOK /\ ProtocolInv /\ [Next]_vars =>
          [\A m \in MI : val[m].overall \in Final =>
              val'[m].live /\ val'[m].overall = val[m].overall]_vars
    BY InvNext DEF Settled
  <1> QED
    BY <1>1, ProtocolCorrect, TypeCorrect, PTL DEF Spec, DecisionIsStable

(* No step tells a client more of a request after the packet               *)
(* flushPerfStreamMsgs flagged as its last.                                *)
THEOREM LastIsLast == ASSUME FocusMatched PROVE Spec => NothingAfterLast
  <1>1. TypeOK /\ ProtocolInv /\ [Next]_vars =>
          [\A r \in Req : last[r] => last'[r] /\ told'[r] = told[r]]_vars
    BY InvNext DEF Settled
  <1> QED
    BY <1>1, ProtocolCorrect, TypeCorrect, PTL DEF Spec, NothingAfterLast
=============================================================================
