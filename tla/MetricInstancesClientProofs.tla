-------------------- MODULE MetricInstancesClientProofs --------------------
(***************************************************************************)
(* Theorems about MetricInstances: what a client uses is collected for it, *)
(* and nothing is collected for nobody.  Both follow from ClientInv, which *)
(* says, for each client, what the requests that wait for a value, the     *)
(* replies on their way to the client, the instances it uses and the       *)
(* instances it is a user of have to do with each other.  Each client's    *)
(* part is kept by its own steps; a step of another client leaves it       *)
(* Untouched.  Only a decision and a phase start touch all of them.        *)
(*                                                                         *)
(* The invariant BaseInv of MetricInstancesProofs is known throughout,     *)
(* before and after a step.                                                *)
(***************************************************************************)
EXTENDS MetricInstancesProofs

(* The phase of a request or reply of c is not over; c itself is of a phase *)
(* that is not over.                                                        *)
OfPhase(c, ph) == c \in Curr => ph = phase
Fresh(c) == OfPhase(c, cphase[c])

\* m answers a request of c for the value of id, of a phase that is not over
IsOut(c, id, m) == m.kind = "reply" /\ m.id = id /\ OfPhase(c, m.phase)

(* A client of the current phase is of a phase that was started.            *)
PhaseOK(c) ==
    /\ c \in Curr => cphase[c] \in 0 .. phase \/ cphase[c] = NoPhase
    /\ \A id \in hold[c] : id < nextId

(* The requests of c that wait for a value.  A visi waits for the pair; and *)
(* no client asks twice, unless its calls crossed an answer.                *)
AskOK(c) == \A id \in Id : \A n \in 1 .. Len(parents[id]) :
    parents[id][n].client = c =>
        /\ c \in Curr => /\ parents[id][n].phase <= phase
                         /\ parents[id][n].phase = phase => cphase[c] = phase
        /\ c \in Visi \intersect Curr => cphase[c] = parents[id][n].phase
        /\ OfPhase(c, parents[id][n].phase) /\ ~Crossed(id, c) =>
              /\ c \in Visi => inst[id].pair \in pend[c]
              /\ \A k \in 1 .. Len(parents[id]) :
                    parents[id][k].client = c /\ OfPhase(c, parents[id][k].phase) => k = n

(* A reply that waits for c says what was decided.  A visi waits for the    *)
(* pair; and c is a user of what was granted.                               *)
ReplyOK(c, m) == m.kind = "reply" =>
    /\ m.id \in Id => m.id < nextId /\ m.pair = inst[m.id].pair
    /\ c \in Curr => m.phase <= phase /\ (m.phase = phase => cphase[c] = phase)
    /\ c \in Visi \intersect Curr => cphase[c] = m.phase
    /\ OfPhase(c, m.phase) =>
          /\ m.id \in Id
          /\ val[m.id] = IF m.ok THEN "success" ELSE "failure"
          /\ ~Crossed(m.id, c) =>
                /\ c \in Visi => m.pair \in pend[c]
                /\ m.ok /\ life[c] = "open" => c \in UsersOf(m.id, c)
MailOK(c) == \A m \in Answers :
    (\E n \in 1 .. Len(inbox[c]) : inbox[c][n] = m) => ReplyOK(c, m)

(* There is one such reply at most, unless the calls of c crossed an answer.*)
UniqueOK(c) == \A k, n \in 1 .. Len(inbox[c]) : \A id \in Id :
    IsOut(c, id, inbox[c][k]) /\ IsOut(c, id, inbox[c][n]) /\ ~Crossed(id, c) => k = n

(* What c uses it is a user of; and a search has nothing outstanding for    *)
(* what it uses.                                                            *)
HeldOK(c, id) == Fresh(c) /\ ~Crossed(id, c) =>
    /\ c \in UsersOf(id, c)
    /\ c \in PC =>
          /\ \A n \in 1 .. Len(inbox[c]) : ~IsOut(c, id, inbox[c][n])
          /\ \A n \in 1 .. Len(parents[id]) :
                parents[id][n].client = c => ~OfPhase(c, parents[id][n].phase)
HoldOK(c) == \A id \in hold[c] : HeldOK(c, id)

(* What c is a user of it uses, or will hear that it may, or it left before *)
(* it was told, or is a search that was ended by a notice.                  *)
UsedOK(c, id) == c \in UsersOf(id, c) /\ ~Crossed(id, c) =>
    /\ Fresh(c)
    /\ \/ c \in ended
       \/ id \in hold[c]
       \/ \E n \in 1 .. Len(inbox[c]) : IsOut(c, id, inbox[c][n]) /\ inbox[c][n].ok
       \/ life[c] # "open" /\ inst[id].pair \in pend[c]
UserOK(c) == \A id \in Id : UsedOK(c, id)

ClientOK(c) == /\ PhaseOK(c) /\ AskOK(c) /\ MailOK(c) /\ UniqueOK(c) /\ HoldOK(c)
               /\ UserOK(c)
ClientInv == \A c \in Client : ClientOK(c)

-----------------------------------------------------------------------------
(* What stays                                                               *)

\* what a step must not change for the facts about x to stay
Steady(x) ==
    /\ phase' = phase /\ cphase'[x] = cphase[x]
    /\ \A p \in Pair : <<x, p>> \in crossed => <<x, p>> \in crossed'
    /\ nextId' \in Nat /\ nextId <= nextId'
    /\ \A id \in Id :
          /\ id < nextId => inst'[id].pair = inst[id].pair
          /\ val[id] \in {"success", "failure"} => val'[id] = val[id]
    /\ life'[x] = "open" => life[x] = "open"
KeepsUser(x, id) == x \in UsersOf(id, x) => x \in UsersOf(id, x)'
NoNewUser(x, id) == x \in UsersOf(id, x)' => x \in UsersOf(id, x)
NoNewRequest(x, id) == \A n \in 1 .. Len(parents'[id]) :
    parents'[id][n].client = x =>
        n \in 1 .. Len(parents[id]) /\ parents'[id][n] = parents[id][n]
\* the first s messages for x are taken out
NoNewMail(x, s) ==
    /\ Len(inbox'[x]) = Len(inbox[x]) - s
    /\ \A n \in 1 .. Len(inbox[x]) - s : inbox'[x][n] = inbox[x][n + s]

(* What BaseInv says of handles, requests and messages, as used below.      *)
LEMMA BaseFacts ==
    ASSUME BaseInv
    PROVE  /\ phase \in 0 .. MaxPhase /\ nextId \in Nat /\ MaxPhase \in Nat /\ NoPhase = MaxPhase + 1
           /\ Id \subseteq Nat
           /\ \A id \in Id :
                 /\ inst[id] \in Instance /\ Sound(inst[id])
                 /\ parents[id] \in Seq(Requests) /\ Len(parents[id]) \in Nat
                 /\ \A n \in 1 .. Len(parents[id]) : parents[id][n] \in Requests
                 /\ val[id] \in {"none", "undecided", "success", "failure"}
                 /\ Len(parents[id]) > 0 => val[id] = "undecided"
                 /\ val[id] = "undecided" => inst[id].live
                 /\ val[id] = "failure" => inst[id].live
                 /\ inst[id].live => id < nextId
                 /\ val[id] # "none" => id < nextId
                 /\ \A c \in Client : c \in UsersOf(id, c) =>
                       inst[id].enabled /\ inst[id].live /\ val[id] = "success"
           /\ \A c \in Client :
                 /\ inbox[c] \in Seq(Answers \union Notices) /\ Len(inbox[c]) \in Nat
                 /\ \A n \in 1 .. Len(inbox[c]) : inbox[c][n] \in Answers \union Notices
                 /\ hold[c] \subseteq Id /\ pend[c] \subseteq Pair
                 /\ c \in PC => life[c] = "open"
                 /\ cphase[c] \in 0 .. NoPhase
  <1>1. TypeOK /\ InstanceInv /\ OnlyVisisExit
    BY DEF BaseInv
  <1>2. phase \in 0 .. MaxPhase /\ nextId \in Nat /\ MaxPhase \in Nat /\ NoPhase = MaxPhase + 1
        /\ Id \subseteq Nat
    BY <1>1, InstancesAssumption DEF TypeOK, NoPhase, Id
  <1>3. ASSUME NEW id \in Id
        PROVE  /\ inst[id] \in Instance /\ Sound(inst[id])
               /\ parents[id] \in Seq(Requests) /\ Len(parents[id]) \in Nat
               /\ \A n \in 1 .. Len(parents[id]) : parents[id][n] \in Requests
               /\ val[id] \in {"none", "undecided", "success", "failure"}
               /\ Len(parents[id]) > 0 => val[id] = "undecided"
               /\ val[id] = "undecided" => inst[id].live
               /\ val[id] = "failure" => inst[id].live
               /\ inst[id].live => id < nextId
               /\ val[id] # "none" => id < nextId
               /\ \A c \in Client : c \in UsersOf(id, c) =>
                     inst[id].enabled /\ inst[id].live /\ val[id] = "success"
    <2>1. /\ inst[id] \in Instance /\ parents[id] \in Seq(Requests)
          /\ val[id] \in {"none", "undecided", "success", "failure"}
      BY <1>1 DEF TypeOK, Requests
    <2>2. /\ Sound(inst[id])
          /\ id >= nextId => ~inst[id].live /\ val[id] = "none"
          /\ val[id] = "undecided" <=> parents[id] # <<>>
          /\ ~inst[id].live => val[id] \in {"none", "success"}
          /\ inst[id].enabled => val[id] = "success"
      BY <1>1 DEF InstanceInv
    <2>3. Len(parents[id]) \in Nat /\ (Len(parents[id]) > 0 => parents[id] # <<>>)
          /\ \A n \in 1 .. Len(parents[id]) : parents[id][n] \in Requests
      BY <2>1, LenProperties, ElementOfSeq
    <2>4. \A c \in Client : c \in UsersOf(id, c) => inst[id].enabled /\ inst[id].live
      BY <2>2 DEF UsersOf, Sound, Idle
    <2>5. ~(id >= nextId) => id < nextId
      BY <1>2
    <2> QED
      BY <2>1, <2>2, <2>3, <2>4, <2>5
  <1>4. ASSUME NEW c \in Client
        PROVE  /\ inbox[c] \in Seq(Answers \union Notices) /\ Len(inbox[c]) \in Nat
               /\ \A n \in 1 .. Len(inbox[c]) : inbox[c][n] \in Answers \union Notices
               /\ hold[c] \subseteq Id /\ pend[c] \subseteq Pair
               /\ c \in PC => life[c] = "open"
               /\ cphase[c] \in 0 .. NoPhase
    <2>1. inbox[c] \in Seq(Answers \union Notices)
      BY <1>1 DEF TypeOK
    <2>2. /\ Len(inbox[c]) \in Nat
          /\ \A n \in 1 .. Len(inbox[c]) : inbox[c][n] \in Answers \union Notices
      BY <2>1, LenProperties, ElementOfSeq
    <2> QED
      BY <1>1, <2>1, <2>2 DEF TypeOK, OnlyVisisExit
  <1> QED
    BY <1>2, <1>3, <1>4

(* A reply that waits stays true: its value stays decided as it says, the   *)
(* visi goes on waiting and the user stays one.                             *)
LEMMA ReplyStays ==
    ASSUME BaseInv, NEW x \in Client, NEW m \in Answers, ReplyOK(x, m), Steady(x),
           OfPhase(x, m.phase) /\ m.id \in Id /\ <<x, inst[m.id].pair>> \notin crossed' =>
               /\ x \in Visi /\ m.pair \in pend[x] => m.pair \in pend'[x]
               /\ life'[x] = "open" => KeepsUser(x, m.id)
    PROVE  ReplyOK(x, m)'
  <1>1. m.kind = "reply" /\ m.id \in Nat /\ nextId \in Nat /\ nextId' \in Nat /\ nextId <= nextId'
    BY InstancesAssumption, BaseFacts DEF Answers, Steady
  <1>2. \A id \in Id : inst[id].pair \in Pair
    BY BaseFacts DEF Instance
  <1>3. m.id \in Id => /\ m.id < nextId /\ m.id < nextId'
                       /\ inst'[m.id].pair = inst[m.id].pair /\ m.pair = inst[m.id].pair
    <2>1. Id \subseteq Nat
      BY BaseFacts
    <2> QED
      BY <1>1, <2>1 DEF ReplyOK, Steady
  <1>4. phase' = phase /\ cphase'[x] = cphase[x]
    BY DEF Steady
  <1>5. ASSUME OfPhase(x, m.phase)
        PROVE  /\ m.id \in Id
               /\ val'[m.id] = IF m.ok THEN "success" ELSE "failure"
    BY <1>1, <1>5 DEF ReplyOK, Steady
  <1>6. ASSUME OfPhase(x, m.phase), ~Crossed(m.id, x)'
        PROVE  /\ x \in Visi => m.pair \in pend'[x]
               /\ m.ok /\ life'[x] = "open" => x \in UsersOf(m.id, x)'
    <2>1. <<x, inst[m.id].pair>> \notin crossed' /\ ~Crossed(m.id, x)
      BY <1>2, <1>3, <1>5, <1>6 DEF Crossed, Steady
    <2> QED
      BY <1>1, <1>5, <1>6, <2>1 DEF ReplyOK, Steady, KeepsUser
  <1>7. OfPhase(x, m.phase)' <=> OfPhase(x, m.phase)
    BY <1>4 DEF OfPhase
  <1> QED
    BY <1>1, <1>3, <1>4, <1>5, <1>6, <1>7 DEF ReplyOK

(* The facts about the requests of x stay if none is added and, for a       *)
(* visi, it goes on waiting for their pairs.                                *)
LEMMA AskStays ==
    ASSUME BaseInv, NEW x \in Client, AskOK(x), Steady(x),
           \A id \in Id : NoNewRequest(x, id),
           \A id \in Id : \A n \in 1 .. Len(parents[id]) :
               /\ x \in Visi /\ parents[id][n].client = x
               /\ OfPhase(x, parents[id][n].phase) /\ <<x, inst[id].pair>> \notin crossed'
               => inst[id].pair \in pend'[x]
    PROVE  AskOK(x)'
  <1> SUFFICES ASSUME NEW id \in Id, NEW n \in 1 .. Len(parents'[id]),
                      parents'[id][n].client = x
               PROVE  /\ x \in Curr => /\ parents'[id][n].phase <= phase'
                                       /\ parents'[id][n].phase = phase' => cphase'[x] = phase'
                      /\ x \in Visi \intersect Curr => cphase'[x] = parents'[id][n].phase
                      /\ OfPhase(x, parents[id][n].phase)' /\ ~Crossed(id, x)' =>
                           /\ x \in Visi => inst'[id].pair \in pend'[x]
                           /\ \A k \in 1 .. Len(parents'[id]) :
                                 parents'[id][k].client = x /\ OfPhase(x, parents[id][k].phase)'
                                 => k = n
    BY DEF AskOK
  <1>1. n \in 1 .. Len(parents[id]) /\ parents'[id][n] = parents[id][n]
    BY DEF NoNewRequest
  <1>2. inst'[id].pair = inst[id].pair /\ inst[id].pair \in Pair
    <2>1. Len(parents[id]) > 0
      BY <1>1, BaseFacts
    <2> QED
      BY <2>1, BaseFacts DEF Steady, Instance
  <1>3. phase' = phase /\ cphase'[x] = cphase[x]
    BY DEF Steady
  <1>4. ASSUME OfPhase(x, parents[id][n].phase)', ~Crossed(id, x)'
        PROVE  /\ x \in Visi => inst'[id].pair \in pend'[x]
               /\ \A k \in 1 .. Len(parents'[id]) :
                     parents'[id][k].client = x /\ OfPhase(x, parents[id][k].phase)' => k = n
    <2>1. /\ OfPhase(x, parents[id][n].phase) /\ ~Crossed(id, x)
          /\ <<x, inst[id].pair>> \notin crossed'
      BY <1>1, <1>2, <1>3, <1>4 DEF OfPhase, Crossed, Steady
    <2>2. x \in Visi => inst'[id].pair \in pend'[x]
      BY <1>1, <1>2, <2>1
    <2>3. ASSUME NEW k \in 1 .. Len(parents'[id]),
                 parents'[id][k].client = x, OfPhase(x, parents[id][k].phase)'
          PROVE  k = n
      <3>1. /\ k \in 1 .. Len(parents[id]) /\ parents[id][k].client = x
            /\ OfPhase(x, parents[id][k].phase)
        BY <1>3, <2>3 DEF NoNewRequest, OfPhase
      <3> QED
        BY <1>1, <2>1, <3>1 DEF AskOK
    <2> QED
      BY <2>2, <2>3
  <1>5. /\ x \in Curr => /\ parents[id][n].phase <= phase
                         /\ parents[id][n].phase = phase => cphase[x] = phase
        /\ x \in Visi \intersect Curr => cphase[x] = parents[id][n].phase
    BY <1>1 DEF AskOK
  <1> QED
    BY <1>1, <1>3, <1>4, <1>5

(* The facts about the mail of x stay if messages are only taken out from   *)
(* the front.                                                               *)
LEMMA MailStays ==
    ASSUME BaseInv, BaseInv', NEW x \in Client, MailOK(x), UniqueOK(x), Steady(x),
           NEW s \in Nat, NoNewMail(x, s),
           \A n \in 1 .. Len(inbox[x]) :
              /\ s < n /\ inbox[x][n].kind = "reply" /\ inbox[x][n].id \in Id
              /\ OfPhase(x, inbox[x][n].phase)
              /\ <<x, inst[inbox[x][n].id].pair>> \notin crossed'
              => /\ x \in Visi /\ inbox[x][n].pair \in pend[x] => inbox[x][n].pair \in pend'[x]
                 /\ life'[x] = "open" => KeepsUser(x, inbox[x][n].id)
    PROVE  MailOK(x)' /\ UniqueOK(x)'
  <1>1. Len(inbox[x]) \in Nat /\ Len(inbox'[x]) = Len(inbox[x]) - s
        /\ \A n \in 1 .. Len(inbox[x]) : inbox[x][n] \in Answers \union Notices
    BY BaseFacts DEF NoNewMail
  <1>2. ASSUME NEW n \in 1 .. Len(inbox'[x])
        PROVE  n + s \in 1 .. Len(inbox[x]) /\ s < n + s /\ inbox'[x][n] = inbox[x][n + s]
    BY <1>1, <1>2 DEF NoNewMail
  <1>3. MailOK(x)'
    <2> SUFFICES ASSUME NEW m \in Answers, NEW n \in 1 .. Len(inbox'[x]), inbox'[x][n] = m
                 PROVE  ReplyOK(x, m)'
      BY DEF MailOK
    <2>1. inbox[x][n + s] = m /\ n + s \in 1 .. Len(inbox[x]) /\ s < n + s
      BY <1>2
    <2>2. ReplyOK(x, m) /\ m.kind = "reply"
      BY <2>1 DEF MailOK, Answers
    <2>3. OfPhase(x, m.phase) /\ m.id \in Id /\ <<x, inst[m.id].pair>> \notin crossed' =>
             /\ x \in Visi /\ m.pair \in pend[x] => m.pair \in pend'[x]
             /\ life'[x] = "open" => KeepsUser(x, m.id)
      BY <2>1, <2>2
    <2> QED
      BY <2>2, <2>3, ReplyStays
  <1>4. UniqueOK(x)'
    <2> SUFFICES ASSUME NEW k \in 1 .. Len(inbox'[x]), NEW n \in 1 .. Len(inbox'[x]),
                        NEW id \in Id, IsOut(x, id, inbox[x][k])', IsOut(x, id, inbox[x][n])',
                        ~Crossed(id, x)'
                 PROVE  k = n
      BY DEF UniqueOK
    <2>1. /\ k + s \in 1 .. Len(inbox[x]) /\ n + s \in 1 .. Len(inbox[x])
          /\ IsOut(x, id, inbox[x][k + s]) /\ IsOut(x, id, inbox[x][n + s])
      BY <1>2 DEF IsOut, OfPhase, Steady
    <2>2. inbox[x][n + s] \in Answers
      BY <1>1, <2>1 DEF IsOut, Notices
    <2>3. id < nextId
      BY <2>1, <2>2 DEF MailOK, ReplyOK, IsOut
    <2>4. ~Crossed(id, x)
      <3>1. inst[id].pair \in Pair
        BY BaseFacts DEF Instance
      <3> QED
        BY <2>3, <3>1 DEF Crossed, Steady
    <2>5. k + s = n + s
      BY <2>1, <2>4 DEF UniqueOK
    <2> QED
      BY <1>1, <2>5
  <1> QED
    BY <1>3, <1>4

(* What x uses stays collected for it if it stays a user and nothing new    *)
(* that is about it comes.                                                  *)
LEMMA HeldStays ==
    ASSUME BaseInv, BaseInv', NEW x \in Client, PhaseOK(x), HoldOK(x), Steady(x),
           NEW id \in hold[x], KeepsUser(x, id), NoNewRequest(x, id),
           NEW s \in Nat, NoNewMail(x, s)
    PROVE  HeldOK(x, id)'
  <1> SUFFICES ASSUME Fresh(x)', ~Crossed(id, x)'
               PROVE  /\ x \in UsersOf(id, x)'
                      /\ x \in PC =>
                            /\ \A n \in 1 .. Len(inbox'[x]) : ~IsOut(x, id, inbox[x][n])'
                            /\ \A n \in 1 .. Len(parents'[id]) :
                                  parents'[id][n].client = x => ~OfPhase(x, parents[id][n].phase)'
    BY DEF HeldOK
  <1>1. id \in Id /\ id < nextId /\ inst[id].pair \in Pair
    BY BaseFacts DEF PhaseOK, Instance
  <1>2. Fresh(x) /\ ~Crossed(id, x)
    BY <1>1 DEF Steady, Fresh, OfPhase, Crossed
  <1>3. HeldOK(x, id)
    BY DEF HoldOK
  <1>4. x \in UsersOf(id, x)'
    BY <1>2, <1>3 DEF HeldOK, KeepsUser
  <1>5. ASSUME x \in PC, NEW n \in 1 .. Len(inbox'[x]), IsOut(x, id, inbox[x][n])'
        PROVE  FALSE
    <2>1. n + s \in 1 .. Len(inbox[x]) /\ inbox'[x][n] = inbox[x][n + s]
      <3>1. Len(inbox[x]) \in Nat /\ n \in 1 .. Len(inbox[x]) - s
        BY <1>5, BaseFacts DEF NoNewMail
      <3> QED
        BY <3>1 DEF NoNewMail
    <2>2. IsOut(x, id, inbox[x][n + s])
      BY <1>5, <2>1 DEF IsOut, OfPhase, Steady
    <2> QED
      BY <1>2, <1>3, <1>5, <2>1, <2>2 DEF HeldOK
  <1>6. ASSUME x \in PC, NEW n \in 1 .. Len(parents'[id]), parents'[id][n].client = x,
               OfPhase(x, parents[id][n].phase)'
        PROVE  FALSE
    <2>1. n \in 1 .. Len(parents[id]) /\ parents'[id][n] = parents[id][n]
      BY <1>6 DEF NoNewRequest
    <2>2. OfPhase(x, parents[id][n].phase)
      BY <1>6, <2>1 DEF OfPhase, Steady
    <2> QED
      BY <1>2, <1>3, <1>6, <2>1, <2>2 DEF HeldOK
  <1> QED
    BY <1>4, <1>5, <1>6

(* What explains that x is a user of an instance stays.                     *)
LEMMA UsedStays ==
    ASSUME BaseInv, NEW x \in Client, NEW id \in Id, UsedOK(x, id), Steady(x),
           NoNewUser(x, id), x \in ended => x \in ended', id \in hold[x] => id \in hold'[x],
           life[x] # "open" /\ inst[id].pair \in pend[x] =>
               life'[x] # "open" /\ inst[id].pair \in pend'[x],
           \A n \in 1 .. Len(inbox[x]) : IsOut(x, id, inbox[x][n]) /\ inbox[x][n].ok =>
               \/ id \in hold'[x] \/ x \in ended'
               \/ \E k \in 1 .. Len(inbox'[x]) : inbox'[x][k] = inbox[x][n]
               \/ life'[x] # "open" /\ inst[id].pair \in pend'[x]
    PROVE  UsedOK(x, id)'
  <1> SUFFICES ASSUME x \in UsersOf(id, x)', ~Crossed(id, x)'
               PROVE  /\ Fresh(x)'
                      /\ \/ x \in ended'
                         \/ id \in hold'[x]
                         \/ \E n \in 1 .. Len(inbox'[x]) :
                               IsOut(x, id, inbox[x][n])' /\ inbox'[x][n].ok
                         \/ life'[x] # "open" /\ inst'[id].pair \in pend'[x]
    BY DEF UsedOK
  <1>1. x \in UsersOf(id, x)
    BY DEF NoNewUser
  <1>2. id < nextId /\ inst[id].pair \in Pair
    BY <1>1, BaseFacts DEF Instance
  <1>3. inst'[id].pair = inst[id].pair /\ ~Crossed(id, x)
    BY <1>2 DEF Steady, Crossed
  <1>4. Fresh(x) /\ \/ x \in ended
                    \/ id \in hold[x]
                    \/ \E n \in 1 .. Len(inbox[x]) : IsOut(x, id, inbox[x][n]) /\ inbox[x][n].ok
                    \/ life[x] # "open" /\ inst[id].pair \in pend[x]
    BY <1>1, <1>3 DEF UsedOK
  <1>5. Fresh(x)'
    BY <1>4 DEF Fresh, OfPhase, Steady
  <1>6. ASSUME NEW n \in 1 .. Len(inbox[x]), IsOut(x, id, inbox[x][n]), inbox[x][n].ok,
               NEW k \in 1 .. Len(inbox'[x]), inbox'[x][k] = inbox[x][n]
        PROVE  IsOut(x, id, inbox[x][k])' /\ inbox'[x][k].ok
    BY <1>6 DEF IsOut, OfPhase, Steady
  <1> QED
    BY <1>3, <1>4, <1>5, <1>6

\* a step of another client: nothing changes for x
Untouched(x) ==
    /\ Steady(x) /\ life'[x] = life[x] /\ pend'[x] = pend[x] /\ hold'[x] = hold[x]
    /\ x \in ended => x \in ended'
    /\ inbox'[x] = inbox[x]
    /\ \A id \in Id : NoNewRequest(x, id) /\ KeepsUser(x, id) /\ NoNewUser(x, id)

(* The phase of x, and the handles it uses, stay those of something that    *)
(* exists.                                                                  *)
LEMMA PhaseStays ==
    ASSUME BaseInv, NEW x \in Client, PhaseOK(x), Steady(x),
           \A id \in hold'[x] : id \in Id /\ (id \in hold[x] \/ id < nextId)
    PROVE  PhaseOK(x)'
  <1>1. \A id \in hold'[x] : id < nextId'
    <2> TAKE id \in hold'[x]
    <2>1. id \in Nat /\ id < nextId /\ nextId \in Nat /\ nextId' \in Nat /\ nextId <= nextId'
      BY BaseFacts DEF PhaseOK, Steady
    <2> QED
      BY <2>1
  <1>2. x \in Curr => cphase'[x] \in 0 .. phase' \/ cphase'[x] = NoPhase
    BY DEF PhaseOK, Steady
  <1> QED
    BY <1>1, <1>2 DEF PhaseOK

(* A step that leaves x untouched leaves what is said of it true.           *)
LEMMA UntouchedStays ==
    ASSUME BaseInv, BaseInv', NEW x \in Client, ClientOK(x), Untouched(x)
    PROVE  ClientOK(x)'
  <1>1. /\ PhaseOK(x) /\ AskOK(x) /\ MailOK(x) /\ UniqueOK(x) /\ HoldOK(x) /\ UserOK(x)
        /\ Steady(x) /\ life'[x] = life[x] /\ pend'[x] = pend[x] /\ hold'[x] = hold[x]
        /\ (x \in ended => x \in ended') /\ inbox'[x] = inbox[x]
        /\ \A id \in Id : NoNewRequest(x, id) /\ KeepsUser(x, id) /\ NoNewUser(x, id)
    BY DEF ClientOK, Untouched
  <1>2. NoNewMail(x, 0)
    BY <1>1, BaseFacts DEF NoNewMail
  <1>3. PhaseOK(x)'
    BY <1>1, BaseFacts, PhaseStays
  <1>4. AskOK(x)'
    <2>1. \A id \in Id : \A n \in 1 .. Len(parents[id]) :
               /\ x \in Visi /\ parents[id][n].client = x
               /\ OfPhase(x, parents[id][n].phase) /\ <<x, inst[id].pair>> \notin crossed'
               => inst[id].pair \in pend'[x]
      <3> SUFFICES ASSUME NEW id \in Id, NEW n \in 1 .. Len(parents[id]), x \in Visi,
                          parents[id][n].client = x, OfPhase(x, parents[id][n].phase),
                          <<x, inst[id].pair>> \notin crossed'
                   PROVE  inst[id].pair \in pend'[x]
        OBVIOUS
      <3>1. ~Crossed(id, x)
        BY <1>1, BaseFacts DEF Crossed, Steady, Instance
      <3> QED
        BY <1>1, <3>1 DEF AskOK
    <2> QED
      BY <1>1, <2>1, AskStays
  <1>5. MailOK(x)' /\ UniqueOK(x)'
    <2>1. \A n \in 1 .. Len(inbox[x]) :
              /\ 0 < n /\ inbox[x][n].kind = "reply" /\ inbox[x][n].id \in Id
              /\ OfPhase(x, inbox[x][n].phase)
              /\ <<x, inst[inbox[x][n].id].pair>> \notin crossed'
              => /\ x \in Visi /\ inbox[x][n].pair \in pend[x] => inbox[x][n].pair \in pend'[x]
                 /\ life'[x] = "open" => KeepsUser(x, inbox[x][n].id)
      BY <1>1
    <2> QED
      BY <1>1, <1>2, <2>1, MailStays
  <1>6. HoldOK(x)'
    <2>1. ASSUME NEW id \in hold[x] PROVE HeldOK(x, id)'
      <3>1. id \in Id
        BY BaseFacts
      <3> QED
        BY <1>1, <1>2, <3>1, HeldStays
    <2> QED
      BY <1>1, <2>1 DEF HoldOK
  <1>7. UserOK(x)'
    <2>1. ASSUME NEW id \in Id PROVE UsedOK(x, id)'
      <3>1. UsedOK(x, id)
        BY <1>1 DEF UserOK
      <3> QED
        BY <1>1, <3>1, UsedStays
    <2> QED
      BY <2>1 DEF UserOK
  <1> QED
    BY <1>3, <1>4, <1>5, <1>6, <1>7 DEF ClientOK

(* A step that leaves the data manager alone changes no user and no         *)
(* request.                                                                 *)
LEMMA DmAlone ==
    ASSUME BaseInv, NEW x \in Client, UNCHANGED <<phase, dm, requests>>,
           cphase'[x] = cphase[x], crossed \subseteq crossed',
           life'[x] = "open" => life[x] = "open"
    PROVE  /\ Steady(x)
           /\ \A id \in Id : NoNewRequest(x, id) /\ KeepsUser(x, id) /\ NoNewUser(x, id)
  <1>1. UNCHANGED <<phase, inst, nextId, val, parents>>
    BY DEF dm, requests
  <1>2. nextId \in Nat
    BY BaseFacts
  <1>3. Steady(x)
    BY <1>1, <1>2 DEF Steady
  <1>4. \A id \in Id : NoNewRequest(x, id) /\ KeepsUser(x, id) /\ NoNewUser(x, id)
    BY <1>1 DEF NoNewRequest, KeepsUser, NoNewUser, UsersOf
  <1> QED
    BY <1>3, <1>4

(* When c has disabled an instance there is one user less; nobody else      *)
(* notices.                                                                 *)
LEMMA DmOneLess ==
    ASSUME BaseInv, NEW x \in Client, NEW id \in Id, NEW c \in Client, NEW r,
           Disabled(id, c, r), UNCHANGED <<phase, requests>>,
           cphase'[x] = cphase[x], crossed \subseteq crossed',
           life'[x] = "open" => life[x] = "open"
    PROVE  /\ Steady(x)
           /\ \A k \in Id : NoNewRequest(x, k) /\ NoNewUser(x, k)
           /\ \A k \in Id : x # c \/ k # id => KeepsUser(x, k)
           /\ x = c => ~(x \in UsersOf(id, x)')
  <1>1. UNCHANGED <<phase, nextId, val, parents>>
    BY DEF requests
  <1>2. nextId \in Nat /\ inst \in [Id -> Instance]
    BY BaseFacts DEF BaseInv, TypeOK
  <1>3. /\ inst'[id].pair = inst[id].pair
        /\ inst'[id].users = inst[id].users \ {c} /\ inst'[id].gusers = inst[id].gusers \ {c}
        /\ \A k \in Id \ {id} : inst'[k] = inst[k]
    BY <1>2 DEF Disabled
  <1>4. Steady(x)
    BY <1>1, <1>2, <1>3 DEF Steady
  <1>5. \A k \in Id : NoNewRequest(x, k) /\ NoNewUser(x, k)
    BY <1>1, <1>3 DEF NoNewRequest, NoNewUser, UsersOf
  <1>6. \A k \in Id : x # c \/ k # id => KeepsUser(x, k)
    BY <1>3 DEF KeepsUser, UsersOf
  <1>7. x = c => ~(x \in UsersOf(id, x)')
    BY <1>3 DEF UsersOf
  <1> QED
    BY <1>4, <1>5, <1>6, <1>7

(* Taking the first message out moves the others up.                        *)
LEMMA Popped ==
    ASSUME BaseInv, NEW c \in Client, inbox[c] # <<>>, Pop(c)
    PROVE  /\ Len(inbox[c]) \in Nat /\ Len(inbox[c]) > 0 /\ Head(inbox[c]) = inbox[c][1]
           /\ Len(inbox'[c]) = Len(inbox[c]) - 1 /\ NoNewMail(c, 1)
           /\ \A n \in 1 .. Len(inbox[c]) - 1 : inbox'[c][n] = inbox[c][n + 1]
           /\ \A n \in 1 .. Len(inbox[c]) : n # 1 =>
                 n - 1 \in 1 .. Len(inbox'[c]) /\ inbox'[c][n - 1] = inbox[c][n]
           /\ \A x \in Client \ {c} : inbox'[x] = inbox[x]
           /\ Head(inbox[c]) \in Answers \union Notices
  <1> DEFINE S == Answers \union Notices
  <1>1. inbox \in [Client -> Seq(S)]
    BY DEF BaseInv, TypeOK
  <1>2. inbox'[c] = Tail(inbox[c]) /\ \A x \in Client \ {c} : inbox'[x] = inbox[x]
    BY <1>1 DEF Pop
  <1> HIDE DEF S
  <1>3. inbox[c] \in Seq(S)
    BY <1>1
  <1>4. /\ Head(inbox[c]) \in S /\ Tail(inbox[c]) \in Seq(S)
        /\ Len(Tail(inbox[c])) = Len(inbox[c]) - 1
        /\ \A n \in 1 .. Len(Tail(inbox[c])) : Tail(inbox[c])[n] = inbox[c][n + 1]
    BY <1>3, HeadTailProperties
  <1>5. Head(inbox[c]) = inbox[c][1]
    BY <1>3
  <1>6. Len(inbox[c]) \in Nat /\ Len(inbox[c]) > 0
    BY <1>3, EmptySeq, LenProperties
  <1>7. Len(inbox'[c]) = Len(inbox[c]) - 1
        /\ \A n \in 1 .. Len(inbox[c]) - 1 : inbox'[c][n] = inbox[c][n + 1]
    BY <1>2, <1>4
  <1>8. ASSUME NEW n \in 1 .. Len(inbox[c]), n # 1
        PROVE  n - 1 \in 1 .. Len(inbox'[c]) /\ inbox'[c][n - 1] = inbox[c][n]
    <2>1. n - 1 \in 1 .. Len(inbox[c]) - 1 /\ (n - 1) + 1 = n
      BY <1>6, <1>8
    <2> QED
      BY <1>7, <2>1
  <1> QED
    BY <1>2, <1>4, <1>5, <1>6, <1>7, <1>8 DEF NoNewMail, S

(* cancelSubRequest keeps ClientInv: only the search no longer waits.       *)
LEMMA CancelClient ==
    ASSUME BaseInv, BaseInv', ClientInv, NEW c \in Client, NEW p \in Pair, CancelSubRequest(c, p)
    PROVE  ClientInv'
  <1>1. /\ c \in PC /\ pend' = [pend EXCEPT ![c] = @ \ {p}]
        /\ UNCHANGED <<phase, dm, requests, cphase, ended, hold, life, inbox, crossed>>
    BY DEF CancelSubRequest
  <1>2. ASSUME NEW x \in Client
        PROVE  /\ Steady(x) /\ ClientOK(x)
               /\ \A id \in Id : NoNewRequest(x, id) /\ KeepsUser(x, id) /\ NoNewUser(x, id)
    BY <1>1, DmAlone DEF ClientInv
  <1>3. ASSUME NEW x \in Client, x # c PROVE ClientOK(x)'
    <2>1. pend'[x] = pend[x]
      BY <1>1, <1>3, BaseParts DEF ClientTypes
    <2>2. Untouched(x)
      BY <1>1, <1>2, <2>1 DEF Untouched
    <2> QED
      BY <1>2, <2>2, UntouchedStays
  <1>4. ClientOK(c)'
    <2>1. /\ PhaseOK(c) /\ AskOK(c) /\ MailOK(c) /\ UniqueOK(c) /\ HoldOK(c) /\ UserOK(c)
          /\ Steady(c) /\ c \notin Visi /\ life[c] = "open"
          /\ \A id \in Id : NoNewRequest(c, id) /\ KeepsUser(c, id) /\ NoNewUser(c, id)
      BY <1>1, <1>2, InstancesAssumption, BaseFacts DEF ClientOK
    <2>2. NoNewMail(c, 0)
      BY <1>1, BaseFacts DEF NoNewMail
    <2>3. PhaseOK(c)'
      BY <1>1, <2>1, BaseFacts, PhaseStays
    <2>4. AskOK(c)'
      BY <2>1, AskStays
    <2>5. MailOK(c)' /\ UniqueOK(c)'
      BY <2>1, <2>2, MailStays
    <2>6. HoldOK(c)'
      <3>1. ASSUME NEW id \in hold[c] PROVE HeldOK(c, id)'
        <4>1. id \in Id
          BY BaseFacts
        <4> QED
          BY <2>1, <2>2, <4>1, HeldStays
      <3> QED
        BY <1>1, <3>1 DEF HoldOK
    <2>7. UserOK(c)'
      <3>1. ASSUME NEW id \in Id PROVE UsedOK(c, id)'
        <4>1. UsedOK(c, id)
          BY <2>1 DEF UserOK
        <4> QED
          BY <1>1, <2>1, <4>1, UsedStays
      <3> QED
        BY <3>1 DEF UserOK
    <2> QED
      BY <2>3, <2>4, <2>5, <2>6, <2>7 DEF ClientOK
  <1> QED
    BY <1>3, <1>4 DEF ClientInv

(* The end of a visi process keeps ClientInv: it no longer hears what it    *)
(* waits for.                                                               *)
LEMMA QuitClient ==
    ASSUME BaseInv, BaseInv', ClientInv, NEW c \in Client, Quit(c)
    PROVE  ClientInv'
  <1>1. /\ life' = [life EXCEPT ![c] = "closing"] /\ life[c] = "open"
        /\ UNCHANGED <<phase, dm, requests, cphase, ended, pend, hold, inbox, crossed>>
    BY DEF Quit
  <1>2. life'[c] = "closing" /\ \A x \in Client \ {c} : life'[x] = life[x]
    BY <1>1, BaseParts DEF ClientTypes
  <1>3. ASSUME NEW x \in Client
        PROVE  /\ Steady(x) /\ ClientOK(x)
               /\ \A id \in Id : NoNewRequest(x, id) /\ KeepsUser(x, id) /\ NoNewUser(x, id)
    <2>1. life'[x] = "open" => life[x] = "open"
      BY <1>2
    <2> QED
      BY <1>1, <2>1, DmAlone DEF ClientInv
  <1>4. ASSUME NEW x \in Client, x # c PROVE ClientOK(x)'
    <2>2. Untouched(x)
      BY <1>1, <1>2, <1>3, <1>4 DEF Untouched
    <2> QED
      BY <1>3, <2>2, UntouchedStays
  <1>5. ClientOK(c)'
    <2>1. /\ PhaseOK(c) /\ AskOK(c) /\ MailOK(c) /\ UniqueOK(c) /\ HoldOK(c) /\ UserOK(c)
          /\ Steady(c)
          /\ \A id \in Id : NoNewRequest(c, id) /\ KeepsUser(c, id) /\ NoNewUser(c, id)
      BY <1>3 DEF ClientOK
    <2>2. NoNewMail(c, 0)
      BY <1>1, BaseFacts DEF NoNewMail
    <2>3. PhaseOK(c)'
      BY <1>1, <2>1, BaseFacts, PhaseStays
    <2>4. AskOK(c)'
      <3>1. \A id \in Id : \A n \in 1 .. Len(parents[id]) :
               /\ c \in Visi /\ parents[id][n].client = c
               /\ OfPhase(c, parents[id][n].phase) /\ <<c, inst[id].pair>> \notin crossed'
               => inst[id].pair \in pend'[c]
        BY <1>1, <2>1 DEF AskOK, Crossed
      <3> QED
        BY <2>1, <3>1, AskStays
    <2>5. MailOK(c)' /\ UniqueOK(c)'
      BY <1>1, <2>1, <2>2, MailStays
    <2>6. HoldOK(c)'
      <3>1. ASSUME NEW id \in hold[c] PROVE HeldOK(c, id)'
        <4>1. id \in Id
          BY BaseFacts
        <4> QED
          BY <2>1, <2>2, <4>1, HeldStays
      <3> QED
        BY <1>1, <3>1 DEF HoldOK
    <2>7. UserOK(c)'
      <3>1. ASSUME NEW id \in Id PROVE UsedOK(c, id)'
        <4>1. UsedOK(c, id)
          BY <2>1 DEF UserOK
        <4> QED
          BY <1>1, <2>1, <4>1, UsedStays
      <3> QED
        BY <3>1 DEF UserOK
    <2> QED
      BY <2>3, <2>4, <2>5, <2>6, <2>7 DEF ClientOK
  <1> QED
    BY <1>4, <1>5 DEF ClientInv

(* A notice keeps ClientInv: a search that it ends is excused from then     *)
(* on.                                                                      *)
LEMMA HearOfPhaseClient ==
    ASSUME BaseInv, BaseInv', ClientInv, NEW c \in Client, HearOfPhase(c)
    PROVE  ClientInv'
  <1>1. /\ c \in PC /\ inbox[c] # <<>> /\ Head(inbox[c]).kind = "phase"
        /\ Pop(c) /\ ended \subseteq ended'
        /\ UNCHANGED <<phase, dm, requests, cphase, pend, hold, life, crossed>>
    BY DEF HearOfPhase
  <1>2. ASSUME NEW x \in Client
        PROVE  /\ Steady(x) /\ ClientOK(x)
               /\ \A id \in Id : NoNewRequest(x, id) /\ KeepsUser(x, id) /\ NoNewUser(x, id)
    BY <1>1, DmAlone DEF ClientInv
  <1>3. ASSUME NEW x \in Client, x # c PROVE ClientOK(x)'
    <2>1. inbox'[x] = inbox[x]
      BY <1>1, <1>3, Popped
    <2>2. Untouched(x)
      BY <1>1, <1>2, <2>1 DEF Untouched
    <2> QED
      BY <1>2, <2>2, UntouchedStays
  <1>4. ClientOK(c)'
    <2>1. /\ PhaseOK(c) /\ AskOK(c) /\ MailOK(c) /\ UniqueOK(c) /\ HoldOK(c) /\ UserOK(c)
          /\ Steady(c) /\ c \notin Visi /\ life[c] = "open"
          /\ \A id \in Id : NoNewRequest(c, id) /\ KeepsUser(c, id) /\ NoNewUser(c, id)
      BY <1>1, <1>2, InstancesAssumption, BaseFacts DEF ClientOK
    <2>2. /\ Head(inbox[c]) = inbox[c][1] /\ NoNewMail(c, 1)
          /\ \A n \in 1 .. Len(inbox[c]) : n # 1 =>
                n - 1 \in 1 .. Len(inbox'[c]) /\ inbox'[c][n - 1] = inbox[c][n]
      BY <1>1, Popped
    <2>3. NoNewMail(c, 1)
      BY <2>2
    <2>4. PhaseOK(c)'
      BY <1>1, <2>1, BaseFacts, PhaseStays
    <2>5. AskOK(c)'
      BY <2>1, AskStays
    <2>6. MailOK(c)' /\ UniqueOK(c)'
      BY <2>1, <2>3, MailStays
    <2>7. HoldOK(c)'
      <3>1. ASSUME NEW id \in hold[c] PROVE HeldOK(c, id)'
        <4>1. id \in Id
          BY BaseFacts
        <4> QED
          BY <2>1, <2>3, <4>1, HeldStays
      <3> QED
        BY <1>1, <3>1 DEF HoldOK
    <2>8. UserOK(c)'
      <3>1. ASSUME NEW id \in Id PROVE UsedOK(c, id)'
        <4>1. UsedOK(c, id)
          BY <2>1 DEF UserOK
        <4>2. ASSUME NEW n \in 1 .. Len(inbox[c]), IsOut(c, id, inbox[c][n])
              PROVE  \E k \in 1 .. Len(inbox'[c]) : inbox'[c][k] = inbox[c][n]
          <5>1. n # 1
            BY <1>1, <2>2, <4>2 DEF IsOut
          <5>2. n - 1 \in 1 .. Len(inbox'[c]) /\ inbox'[c][n - 1] = inbox[c][n]
            BY <2>2, <5>1
          <5> QED
            BY <5>2
        <4> QED
          BY <1>1, <2>1, <4>1, <4>2, UsedStays
      <3> QED
        BY <3>1 DEF UserOK
    <2> QED
      BY <2>4, <2>5, <2>6, <2>7, <2>8 DEF ClientOK
  <1> QED
    BY <1>3, <1>4 DEF ClientInv

(* A search has no relevant reply outstanding for what it uses.             *)
LEMMA NothingForHeld ==
    ASSUME BaseInv, NEW c \in PC, ClientOK(c), NEW id \in hold[c], ~Crossed(id, c),
           NEW n \in 1 .. Len(inbox[c]), IsOut(c, id, inbox[c][n])
    PROVE  FALSE
  <1>1. c \in Client /\ inbox[c][n] \in Answers /\ ReplyOK(c, inbox[c][n])
    BY BaseFacts DEF Client, IsOut, Notices, ClientOK, MailOK
  <1>2. Fresh(c)
    BY <1>1 DEF Fresh, OfPhase, IsOut, ReplyOK
  <1> QED
    BY <1>2 DEF ClientOK, HoldOK, HeldOK

(* inActivateFilter keeps ClientInv: the search is no longer a user of      *)
(* what it no longer uses, and had no reply for it outstanding.             *)
LEMMA InActivateClient ==
    ASSUME BaseInv, BaseInv', ClientInv, NEW c \in Client, NEW id \in Id, InActivateFilter(c, id)
    PROVE  ClientInv'
  <1>1. /\ c \in PC /\ id \in hold[c] /\ DisableAndClear(id, c)
        /\ hold' = [hold EXCEPT ![c] = @ \ {id}]
        /\ UNCHANGED <<phase, requests, cphase, ended, pend, life, inbox, crossed>>
    BY DEF InActivateFilter
  <1>2. PICK r : Disabled(id, c, r)
    BY <1>1, SearchDisables
  <1>3. ASSUME NEW x \in Client
        PROVE  /\ Steady(x) /\ ClientOK(x)
               /\ \A k \in Id : NoNewRequest(x, k) /\ NoNewUser(x, k)
               /\ \A k \in Id : x # c \/ k # id => KeepsUser(x, k)
               /\ x = c => ~(x \in UsersOf(id, x)')
    BY <1>1, <1>2, DmOneLess DEF ClientInv
  <1>4. hold'[c] = hold[c] \ {id} /\ \A x \in Client \ {c} : hold'[x] = hold[x]
    BY <1>1, BaseParts DEF ClientTypes
  <1>5. ASSUME NEW x \in Client, x # c PROVE ClientOK(x)'
    <2>1. Untouched(x)
      BY <1>1, <1>3, <1>4, <1>5 DEF Untouched
    <2> QED
      BY <1>3, <2>1, UntouchedStays
  <1>6. ClientOK(c)'
    <2>1. /\ PhaseOK(c) /\ AskOK(c) /\ MailOK(c) /\ UniqueOK(c) /\ HoldOK(c) /\ UserOK(c)
          /\ Steady(c) /\ c \notin Visi /\ life[c] = "open" /\ ClientOK(c)
          /\ \A k \in Id : NoNewRequest(c, k) /\ NoNewUser(c, k)
          /\ \A k \in Id : k # id => KeepsUser(c, k)
          /\ ~(c \in UsersOf(id, c)')
      BY <1>1, <1>3, InstancesAssumption, BaseFacts DEF ClientOK
    <2>2. NoNewMail(c, 0)
      BY <1>1, BaseFacts DEF NoNewMail
    <2>3. PhaseOK(c)'
      BY <1>4, <2>1, BaseFacts, PhaseStays
    <2>4. AskOK(c)'
      BY <2>1, AskStays
    <2>5. MailOK(c)' /\ UniqueOK(c)'
      <3>1. ASSUME NEW n \in 1 .. Len(inbox[c]), inbox[c][n].kind = "reply",
                   inbox[c][n].id \in Id, OfPhase(c, inbox[c][n].phase),
                   <<c, inst[inbox[c][n].id].pair>> \notin crossed'
            PROVE  KeepsUser(c, inbox[c][n].id)
        <4>1. CASE inbox[c][n].id = id
          <5>1. IsOut(c, id, inbox[c][n]) /\ ~Crossed(id, c)
            BY <1>1, <3>1, <4>1 DEF IsOut, Crossed
          <5> QED
            BY <1>1, <2>1, <5>1, NothingForHeld
        <4>2. CASE inbox[c][n].id # id
          BY <2>1, <3>1, <4>2
        <4> QED
          BY <4>1, <4>2
      <3> QED
        BY <2>1, <2>2, <3>1, MailStays
    <2>6. HoldOK(c)'
      <3>1. ASSUME NEW k \in hold'[c] PROVE HeldOK(c, k)'
        <4>1. k \in hold[c] /\ k \in Id /\ k # id
          BY <1>4, BaseFacts
        <4> QED
          BY <2>1, <2>2, <4>1, HeldStays
      <3> QED
        BY <3>1 DEF HoldOK
    <2>7. UserOK(c)'
      <3>1. ASSUME NEW k \in Id, k # id PROVE UsedOK(c, k)'
        <4>1. UsedOK(c, k)
          BY <2>1 DEF UserOK
        <4> QED
          BY <1>1, <1>4, <2>1, <3>1, <4>1, UsedStays
      <3>2. UsedOK(c, id)'
        BY <2>1 DEF UsedOK
      <3> QED
        BY <3>1, <3>2 DEF UserOK
    <2> QED
      BY <2>3, <2>4, <2>5, <2>6, <2>7 DEF ClientOK
  <1> QED
    BY <1>5, <1>6 DEF ClientInv

(* StopMetricResource keeps ClientInv: a visi that waits for the pair it    *)
(* stops has its call recorded as one that crossed an answer.               *)
LEMMA StopClient ==
    ASSUME BaseInv, BaseInv', ClientInv, NEW c \in Client, NEW id \in Id,
           StopMetricResource(c, id)
    PROVE  ClientInv'
  <1>1. /\ c \in Visi /\ life[c] = "open" /\ id \in hold[c] /\ Disable(id, inst[id], c)
        /\ hold' = [hold EXCEPT ![c] = @ \ {id}]
        /\ crossed' = crossed \union ({c} \X (pend[c] \intersect {inst[id].pair}))
        /\ UNCHANGED <<phase, requests, cphase, ended, pend, life, inbox>>
    BY DEF StopMetricResource
  <1>2. PICK r : Disabled(id, c, r)
    BY <1>1, VisiDisables
  <1>3. ASSUME NEW x \in Client
        PROVE  /\ Steady(x) /\ ClientOK(x)
               /\ \A k \in Id : NoNewRequest(x, k) /\ NoNewUser(x, k)
               /\ \A k \in Id : x # c \/ k # id => KeepsUser(x, k)
               /\ x = c => ~(x \in UsersOf(id, x)')
    BY <1>1, <1>2, DmOneLess DEF ClientInv
  <1>4. hold'[c] = hold[c] \ {id} /\ \A x \in Client \ {c} : hold'[x] = hold[x]
    BY <1>1, BaseParts DEF ClientTypes
  <1>5. ASSUME NEW x \in Client, x # c PROVE ClientOK(x)'
    <2>1. Untouched(x)
      BY <1>1, <1>3, <1>4, <1>5 DEF Untouched
    <2> QED
      BY <1>3, <2>1, UntouchedStays
  <1>6. ClientOK(c)'
    <2>1. /\ PhaseOK(c) /\ AskOK(c) /\ MailOK(c) /\ UniqueOK(c) /\ HoldOK(c) /\ UserOK(c)
          /\ Steady(c) /\ ClientOK(c)
          /\ \A k \in Id : NoNewRequest(c, k) /\ NoNewUser(c, k)
          /\ \A k \in Id : k # id => KeepsUser(c, k)
          /\ ~(c \in UsersOf(id, c)')
      BY <1>3 DEF ClientOK
    <2>2. NoNewMail(c, 0)
      BY <1>1, BaseFacts DEF NoNewMail
    <2>3. PhaseOK(c)'
      BY <1>4, <2>1, BaseFacts, PhaseStays
    <2>4. AskOK(c)'
      <3>1. \A k \in Id : \A n \in 1 .. Len(parents[k]) :
               /\ c \in Visi /\ parents[k][n].client = c
               /\ OfPhase(c, parents[k][n].phase) /\ <<c, inst[k].pair>> \notin crossed'
               => inst[k].pair \in pend'[c]
        BY <1>1, <2>1 DEF AskOK, Crossed
      <3> QED
        BY <2>1, <3>1, AskStays
    <2>5. MailOK(c)' /\ UniqueOK(c)'
      <3>1. ASSUME NEW n \in 1 .. Len(inbox[c]), inbox[c][n].kind = "reply",
                   inbox[c][n].id \in Id, OfPhase(c, inbox[c][n].phase),
                   <<c, inst[inbox[c][n].id].pair>> \notin crossed'
            PROVE  KeepsUser(c, inbox[c][n].id)
        <4>1. CASE inbox[c][n].id = id
          <5>1. inbox[c][n] \in Answers /\ ReplyOK(c, inbox[c][n])
            BY <2>1, <3>1, BaseFacts DEF Notices, MailOK
          <5>2. ~Crossed(id, c) /\ inst[id].pair \in pend[c]
            BY <1>1, <3>1, <4>1, <5>1 DEF ReplyOK, Crossed
          <5> QED
            BY <1>1, <3>1, <4>1, <5>2
        <4>2. CASE inbox[c][n].id # id
          BY <2>1, <3>1, <4>2
        <4> QED
          BY <4>1, <4>2
      <3> QED
        BY <1>1, <2>1, <2>2, <3>1, MailStays
    <2>6. HoldOK(c)'
      <3>1. ASSUME NEW k \in hold'[c] PROVE HeldOK(c, k)'
        <4>1. k \in hold[c] /\ k \in Id /\ k # id
          BY <1>4, BaseFacts
        <4> QED
          BY <2>1, <2>2, <4>1, HeldStays
      <3> QED
        BY <3>1 DEF HoldOK
    <2>7. UserOK(c)'
      <3>1. ASSUME NEW k \in Id, k # id PROVE UsedOK(c, k)'
        <4>1. UsedOK(c, k)
          BY <2>1 DEF UserOK
        <4> QED
          BY <1>1, <1>4, <2>1, <3>1, <4>1, UsedStays
      <3>2. UsedOK(c, id)'
        BY <2>1 DEF UsedOK
      <3> QED
        BY <3>1, <3>2 DEF UserOK
    <2> QED
      BY <2>3, <2>4, <2>5, <2>6, <2>7 DEF ClientOK
  <1> QED
    BY <1>5, <1>6 DEF ClientInv

(* A visi that exits keeps ClientInv, also when it disables a pair a        *)
(* second time: it takes away no user but itself.                           *)
LEMMA DisableOnExitClient ==
    ASSUME BaseInv, BaseInv', ClientInv, NEW c \in Client, DisableOnExit(c)
    PROVE  ClientInv'
  <1>0. PICK id \in IF again[c] # {} THEN again[c] ELSE hold[c] :
          /\ Disable(id, inst[id], c)
          /\ hold' = [hold EXCEPT ![c] = @ \ {id}]
    BY DEF DisableOnExit
  <1>1. /\ life[c] = "closing" /\ c \in Visi /\ id \in Id /\ Disable(id, inst[id], c)
        /\ hold' = [hold EXCEPT ![c] = @ \ {id}]
        /\ UNCHANGED <<phase, requests, cphase, ended, pend, life, inbox, crossed>>
    <2>1. life[c] = "closing" /\ c \notin PC /\ c \in Visi
      BY BaseFacts DEF DisableOnExit, Client
    <2>2. id \in Id
      BY <1>0, BaseParts DEF ClientTypes
    <2> QED
      BY <1>0, <2>1, <2>2 DEF DisableOnExit
  <1>2. PICK r : Disabled(id, c, r)
    BY <1>1, VisiDisables
  <1>3. ASSUME NEW x \in Client
        PROVE  /\ Steady(x) /\ ClientOK(x)
               /\ \A k \in Id : NoNewRequest(x, k) /\ NoNewUser(x, k)
               /\ \A k \in Id : x # c \/ k # id => KeepsUser(x, k)
               /\ x = c => ~(x \in UsersOf(id, x)')
    BY <1>1, <1>2, DmOneLess DEF ClientInv
  <1>4. hold'[c] = hold[c] \ {id} /\ \A x \in Client \ {c} : hold'[x] = hold[x]
    BY <1>1, BaseParts DEF ClientTypes
  <1>5. ASSUME NEW x \in Client, x # c PROVE ClientOK(x)'
    <2>1. Untouched(x)
      BY <1>1, <1>3, <1>4, <1>5 DEF Untouched
    <2> QED
      BY <1>3, <2>1, UntouchedStays
  <1>6. ClientOK(c)'
    <2>1. /\ PhaseOK(c) /\ AskOK(c) /\ MailOK(c) /\ UniqueOK(c) /\ HoldOK(c) /\ UserOK(c)
          /\ Steady(c) /\ ClientOK(c)
          /\ \A k \in Id : NoNewRequest(c, k) /\ NoNewUser(c, k)
          /\ \A k \in Id : k # id => KeepsUser(c, k)
          /\ ~(c \in UsersOf(id, c)')
      BY <1>3 DEF ClientOK
    <2>2. NoNewMail(c, 0)
      BY <1>1, BaseFacts DEF NoNewMail
    <2>3. PhaseOK(c)'
      BY <1>4, <2>1, BaseFacts, PhaseStays
    <2>4. AskOK(c)'
      <3>1. \A k \in Id : \A n \in 1 .. Len(parents[k]) :
               /\ c \in Visi /\ parents[k][n].client = c
               /\ OfPhase(c, parents[k][n].phase) /\ <<c, inst[k].pair>> \notin crossed'
               => inst[k].pair \in pend'[c]
        BY <1>1, <2>1 DEF AskOK, Crossed
      <3> QED
        BY <2>1, <3>1, AskStays
    <2>5. MailOK(c)' /\ UniqueOK(c)'
      BY <1>1, <2>1, <2>2, MailStays
    <2>6. HoldOK(c)'
      <3>1. ASSUME NEW k \in hold'[c] PROVE HeldOK(c, k)'
        <4>1. k \in hold[c] /\ k \in Id /\ k # id
          BY <1>4, BaseFacts
        <4> QED
          BY <2>1, <2>2, <4>1, HeldStays
      <3> QED
        BY <3>1 DEF HoldOK
    <2>7. UserOK(c)'
      <3>1. ASSUME NEW k \in Id, k # id PROVE UsedOK(c, k)'
        <4>1. UsedOK(c, k)
          BY <2>1 DEF UserOK
        <4> QED
          BY <1>1, <1>4, <2>1, <3>1, <4>1, UsedStays
      <3>2. UsedOK(c, id)'
        BY <2>1 DEF UsedOK
      <3> QED
        BY <3>1, <3>2 DEF UserOK
    <2> QED
      BY <2>3, <2>4, <2>5, <2>6, <2>7 DEF ClientOK
  <1> QED
    BY <1>5, <1>6 DEF ClientInv

(* A stream that is destroyed keeps ClientInv: the replies in it are lost,  *)
(* but the visi still waited for their pairs.                               *)
LEMMA DestroyClient ==
    ASSUME BaseInv, BaseInv', ClientInv, NEW c \in Client, DestroyPerformanceStream(c)
    PROVE  ClientInv'
  <1>1. /\ life[c] = "closing" /\ hold[c] = {} /\ c \in Visi
        /\ life' = [life EXCEPT ![c] = "gone"] /\ inbox' = [inbox EXCEPT ![c] = <<>>]
        /\ UNCHANGED <<phase, dm, requests, cphase, ended, pend, hold, crossed>>
    BY BaseFacts DEF DestroyPerformanceStream, Client
  <1>2. /\ life'[c] = "gone" /\ inbox'[c] = <<>>
        /\ \A x \in Client \ {c} : life'[x] = life[x] /\ inbox'[x] = inbox[x]
    BY <1>1 DEF BaseInv, TypeOK
  <1>3. ASSUME NEW x \in Client
        PROVE  /\ Steady(x) /\ ClientOK(x)
               /\ \A id \in Id : NoNewRequest(x, id) /\ KeepsUser(x, id) /\ NoNewUser(x, id)
    <2>1. life'[x] = "open" => life[x] = "open"
      BY <1>2
    <2> QED
      BY <1>1, <2>1, DmAlone DEF ClientInv
  <1>4. ASSUME NEW x \in Client, x # c PROVE ClientOK(x)'
    <2>2. Untouched(x)
      BY <1>1, <1>2, <1>3, <1>4 DEF Untouched
    <2> QED
      BY <1>3, <2>2, UntouchedStays
  <1>5. ClientOK(c)'
    <2>1. /\ PhaseOK(c) /\ AskOK(c) /\ MailOK(c) /\ UniqueOK(c) /\ HoldOK(c) /\ UserOK(c)
          /\ Steady(c)
          /\ \A id \in Id : NoNewRequest(c, id) /\ KeepsUser(c, id) /\ NoNewUser(c, id)
      BY <1>3 DEF ClientOK
    <2>2. Len(inbox'[c]) = 0 /\ Len(inbox[c]) \in Nat
      BY <1>2, BaseFacts
    <2>3. PhaseOK(c)'
      BY <1>1, <2>1, BaseFacts, PhaseStays
    <2>4. AskOK(c)'
      <3>1. \A id \in Id : \A n \in 1 .. Len(parents[id]) :
               /\ c \in Visi /\ parents[id][n].client = c
               /\ OfPhase(c, parents[id][n].phase) /\ <<c, inst[id].pair>> \notin crossed'
               => inst[id].pair \in pend'[c]
        BY <1>1, <2>1 DEF AskOK, Crossed
      <3> QED
        BY <2>1, <3>1, AskStays
    <2>5. MailOK(c)' /\ UniqueOK(c)'
      BY <2>2 DEF MailOK, UniqueOK
    <2>6. HoldOK(c)'
      BY <1>1 DEF HoldOK
    <2>7. UserOK(c)'
      <3> SUFFICES ASSUME NEW id \in Id PROVE UsedOK(c, id)'
        BY DEF UserOK
      <3>1. CASE Crossed(id, c)
        BY <1>1, <3>1 DEF UsedOK, Crossed, dm
      <3>2. CASE ~Crossed(id, c)
        <4>1. ASSUME NEW n \in 1 .. Len(inbox[c]), IsOut(c, id, inbox[c][n])
              PROVE  inst[id].pair \in pend[c]
          <5>1. inbox[c][n] \in Answers /\ ReplyOK(c, inbox[c][n])
            BY <2>1, <4>1, BaseFacts DEF Notices, MailOK, IsOut
          <5> QED
            BY <1>1, <3>2, <4>1, <5>1 DEF ReplyOK, IsOut
        <4>2. UsedOK(c, id)
          BY <2>1 DEF UserOK
        <4> QED
          BY <1>1, <1>2, <2>1, <4>1, <4>2, UsedStays
      <3> QED
        BY <3>1, <3>2
    <2> QED
      BY <2>3, <2>4, <2>5, <2>6, <2>7 DEF ClientOK
  <1> QED
    BY <1>4, <1>5 DEF ClientInv

(* Begin keeps ClientInv: nothing a new client has is of its phase yet.     *)
LEMMA BeginClient ==
    ASSUME BaseInv, BaseInv', ClientInv, NEW c \in Client, Begin(c)
    PROVE  ClientInv'
  <1>1. /\ c \in Curr /\ cphase[c] # phase /\ (c \in Visi => cphase[c] = NoPhase)
        /\ cphase' = [cphase EXCEPT ![c] = phase] /\ ended' = ended \ {c}
        /\ pend' = [pend EXCEPT ![c] = {}] /\ hold' = [hold EXCEPT ![c] = {}]
        /\ UNCHANGED <<phase, dm, requests, life, inbox, crossed>>
    BY DEF Begin
  <1>2. /\ cphase'[c] = phase /\ hold'[c] = {}
        /\ \A x \in Client \ {c} : /\ cphase'[x] = cphase[x] /\ pend'[x] = pend[x]
                                   /\ hold'[x] = hold[x]
    BY <1>1, BaseParts DEF ClientTypes
  <1>3. ASSUME NEW x \in Client, x # c PROVE ClientOK(x)'
    <2>1. /\ Steady(x) /\ ClientOK(x)
          /\ \A id \in Id : NoNewRequest(x, id) /\ KeepsUser(x, id) /\ NoNewUser(x, id)
      BY <1>1, <1>2, <1>3, DmAlone DEF ClientInv
    <2>2. Untouched(x)
      BY <1>1, <1>2, <1>3, <2>1 DEF Untouched
    <2> QED
      BY <2>1, <2>2, UntouchedStays
  <1>4. ClientOK(c)'
    <2>1. /\ PhaseOK(c) /\ AskOK(c) /\ MailOK(c) /\ UniqueOK(c) /\ UserOK(c)
          /\ UNCHANGED <<inst, nextId, val, parents>>
          /\ phase \in 0 .. MaxPhase /\ MaxPhase \in Nat /\ NoPhase = MaxPhase + 1
      BY <1>1, BaseFacts DEF ClientInv, ClientOK, dm, requests
    <2>2. PhaseOK(c)'
      BY <1>1, <1>2, <2>1 DEF PhaseOK
    <2>3. AskOK(c)'
      <3> SUFFICES ASSUME NEW id \in Id, NEW n \in 1 .. Len(parents[id]),
                          parents[id][n].client = c
                   PROVE  /\ parents[id][n].phase <= phase
                          /\ c \notin Visi
                          /\ parents[id][n].phase # phase
        BY <1>1, <1>2, <2>1 DEF AskOK, OfPhase
      <3>1. /\ parents[id][n].phase <= phase
            /\ parents[id][n].phase = phase => cphase[c] = phase
            /\ c \in Visi => cphase[c] = parents[id][n].phase
        BY <1>1, <2>1 DEF AskOK
      <3> QED
        BY <1>1, <2>1, <3>1
    <2>4. MailOK(c)'
      <3> SUFFICES ASSUME NEW m \in Answers, NEW n \in 1 .. Len(inbox[c]), inbox[c][n] = m
                   PROVE  ReplyOK(c, m)'
        BY <1>1 DEF MailOK
      <3>1. ReplyOK(c, m) /\ m.kind = "reply"
        BY <2>1 DEF MailOK, Answers
      <3>2. /\ m.phase <= phase /\ (m.phase = phase => cphase[c] = phase)
            /\ (c \in Visi => cphase[c] = m.phase)
            /\ m.id \in Id => m.id < nextId /\ m.pair = inst[m.id].pair
        BY <1>1, <3>1 DEF ReplyOK
      <3>3. m.phase # phase /\ c \notin Visi
        BY <1>1, <2>1, <3>2
      <3> QED
        BY <1>1, <2>1, <3>2, <3>3 DEF ReplyOK, OfPhase
    <2>5. UniqueOK(c)'
      BY <1>1, <2>1 DEF UniqueOK, IsOut, OfPhase, Crossed
    <2>6. HoldOK(c)'
      BY <1>2 DEF HoldOK
    <2>7. UserOK(c)'
      <3> SUFFICES ASSUME NEW id \in Id PROVE UsedOK(c, id)'
        BY DEF UserOK
      <3>1. UsedOK(c, id) /\ ~Fresh(c)
        BY <1>1, <2>1 DEF UserOK, Fresh, OfPhase
      <3> QED
        BY <1>1, <2>1, <3>1 DEF UsedOK, UsersOf, Crossed
    <2> QED
      BY <2>2, <2>3, <2>4, <2>5, <2>6, <2>7 DEF ClientOK
  <1> QED
    BY <1>3, <1>4 DEF ClientInv

(* A reply whose phase is not over is about a live instance.                *)
LEMMA ReplyIsLive ==
    ASSUME BaseInv, NEW c \in Client, NEW m \in Answers, ReplyOK(c, m),
           OfPhase(c, m.phase), ~Crossed(m.id, c), life[c] = "open"
    PROVE  m.id \in Id /\ inst[m.id].live
  <1>1. /\ m.id \in Id /\ val[m.id] = IF m.ok THEN "success" ELSE "failure"
        /\ (m.ok => c \in UsersOf(m.id, c))
    BY DEF ReplyOK, Answers
  <1> QED
    BY <1>1, BaseFacts

(* The reply a visi takes out is the one it has outstanding for its pair.   *)
LEMMA OnePairOneReply ==
    ASSUME BaseInv, NEW c \in Visi, life[c] = "open", NEW m \in Answers, ReplyOK(c, m),
           Fresh(c), NEW k \in Id, inst[k].live, ~Crossed(k, c), m.id \in Id,
           m.pair = inst[k].pair
    PROVE  m.id = k /\ OfPhase(c, m.phase)
  <1>1. c \in Client
    BY DEF Client
  <1>2. OfPhase(c, m.phase)
    BY DEF Fresh, OfPhase, ReplyOK, Answers
  <1>3. inst[m.id].pair = inst[k].pair /\ ~Crossed(m.id, c)
    BY DEF ReplyOK, Answers, Crossed
  <1>4. inst[m.id].live
    BY <1>1, <1>2, <1>3, ReplyIsLive
  <1> QED
    BY <1>2, <1>3, <1>4 DEF BaseInv, OnePerPair

(* VISIthreadEnableCallback keeps ClientInv: the reply is the only one for  *)
(* its pair, so no other request or reply relies on the visi's waiting.     *)
LEMMA ReceiveVisiClient ==
    ASSUME BaseInv, BaseInv', ClientInv, NEW c \in Client, ReceiveVisi(c)
    PROVE  ClientInv'
  <1> DEFINE m == Head(inbox[c])
  <1>1. /\ c \in Visi /\ life[c] = "open" /\ inbox[c] # <<>> /\ Pop(c)
        /\ pend' = [pend EXCEPT ![c] = @ \ {m.pair}]
        /\ hold' = [hold EXCEPT ![c] = IF m.ok THEN @ \union {m.id} ELSE @]
        /\ UNCHANGED <<phase, dm, requests, cphase, ended, life, crossed>>
    BY DEF ReceiveVisi
  <1>2. /\ pend'[c] = pend[c] \ {m.pair}
        /\ hold'[c] = IF m.ok THEN hold[c] \union {m.id} ELSE hold[c]
        /\ \A x \in Client \ {c} : pend'[x] = pend[x] /\ hold'[x] = hold[x]
    BY <1>1, BaseParts DEF ClientTypes
  <1>3. /\ m = inbox[c][1] /\ 1 \in 1 .. Len(inbox[c]) /\ NoNewMail(c, 1)
        /\ \A n \in 1 .. Len(inbox[c]) : n # 1 =>
              n - 1 \in 1 .. Len(inbox'[c]) /\ inbox'[c][n - 1] = inbox[c][n]
        /\ \A x \in Client \ {c} : inbox'[x] = inbox[x]
        /\ m \in Answers \union Notices
    BY <1>1, Popped
  <1> HIDE DEF m
  <1>4. ASSUME NEW x \in Client
        PROVE  /\ Steady(x) /\ ClientOK(x)
               /\ \A id \in Id : NoNewRequest(x, id) /\ KeepsUser(x, id) /\ NoNewUser(x, id)
    BY <1>1, DmAlone DEF ClientInv
  <1>5. ASSUME NEW x \in Client, x # c PROVE ClientOK(x)'
    <2>1. Untouched(x)
      BY <1>1, <1>2, <1>3, <1>4, <1>5 DEF Untouched
    <2> QED
      BY <1>4, <2>1, UntouchedStays
  <1>6. ClientOK(c)'
    <2>1. /\ PhaseOK(c) /\ AskOK(c) /\ MailOK(c) /\ UniqueOK(c) /\ HoldOK(c) /\ UserOK(c)
          /\ Steady(c) /\ c \notin PC
          /\ \A id \in Id : NoNewRequest(c, id) /\ KeepsUser(c, id) /\ NoNewUser(c, id)
      BY <1>1, <1>4, InstancesAssumption DEF ClientOK
    <2>2. m \in Answers /\ m.kind = "reply" /\ ReplyOK(c, m) /\ (m.ok => m.id \in Id)
      <3>1. m.kind # "phase" /\ (m.kind = "reply" /\ m.ok => m.id \in Id)
        BY <1>3, <2>1 DEF BaseInv, HandleInv
      <3> QED
        BY <1>3, <2>1, <3>1 DEF Answers, Notices, MailOK
    <2>3. ASSUME NEW k \in Id, inst[k].live, ~Crossed(k, c), Fresh(c), m.pair = inst[k].pair
          PROVE  IsOut(c, k, m) /\ val[k] \in {"success", "failure"}
      <3>1. OfPhase(c, m.phase)
        BY <1>1, <2>2, <2>3 DEF Fresh, OfPhase, ReplyOK
      <3>2. m.id \in Id
        BY <2>2, <3>1 DEF ReplyOK
      <3>3. m.id = k
        BY <1>1, <2>2, <2>3, <3>2, OnePairOneReply
      <3> QED
        BY <2>2, <3>1, <3>3 DEF IsOut, ReplyOK
    <2>4. PhaseOK(c)'
      <3>1. \A id \in hold'[c] : id \in Id /\ (id \in hold[c] \/ id < nextId)
        BY <1>2, <2>2, BaseFacts DEF ReplyOK
      <3> QED
        BY <2>1, <3>1, PhaseStays
    <2>5. AskOK(c)'
      <3>1. ASSUME NEW id \in Id, NEW n \in 1 .. Len(parents[id]), parents[id][n].client = c,
                   OfPhase(c, parents[id][n].phase), <<c, inst[id].pair>> \notin crossed'
            PROVE  inst[id].pair \in pend'[c]
        <4>1. ~Crossed(id, c) /\ inst[id].pair \in pend[c] /\ Fresh(c)
          BY <1>1, <2>1, <3>1 DEF AskOK, Crossed, Fresh, OfPhase
        <4>2. val[id] = "undecided" /\ inst[id].live
          BY <3>1, BaseFacts
        <4> QED
          BY <1>2, <2>3, <4>1, <4>2
      <3> QED
        BY <2>1, <3>1, AskStays
    <2>6. MailOK(c)' /\ UniqueOK(c)'
      <3>1. ASSUME NEW n \in 1 .. Len(inbox[c]), 1 < n, inbox[c][n].kind = "reply",
                   inbox[c][n].id \in Id, OfPhase(c, inbox[c][n].phase),
                   <<c, inst[inbox[c][n].id].pair>> \notin crossed', inbox[c][n].pair \in pend[c]
            PROVE  inbox[c][n].pair \in pend'[c]
        <4> DEFINE q == inbox[c][n]
        <4>1. q \in Answers /\ ReplyOK(c, q)
          BY <2>1, <3>1, BaseFacts DEF Notices, MailOK
        <4>2. ~Crossed(q.id, c) /\ Fresh(c) /\ q.pair = inst[q.id].pair /\ IsOut(c, q.id, q)
          BY <1>1, <3>1, <4>1 DEF Crossed, Fresh, OfPhase, ReplyOK, IsOut
        <4>3. q.id \in Id /\ inst[q.id].live
          BY <1>1, <3>1, <4>1, <4>2, ReplyIsLive
        <4>4. CASE m.pair = q.pair
          <5>1. IsOut(c, q.id, m)
            BY <2>3, <4>2, <4>3, <4>4
          <5>2. n = 1
            BY <1>3, <2>1, <4>2, <4>3, <5>1 DEF UniqueOK
          <5> QED
            BY <3>1, <5>2
        <4>5. CASE m.pair # q.pair
          BY <1>2, <3>1, <4>5
        <4> QED
          BY <4>4, <4>5
      <3> QED
        BY <1>3, <2>1, <3>1, MailStays
    <2>7. HoldOK(c)'
      <3>1. ASSUME NEW id \in hold[c] PROVE HeldOK(c, id)'
        <4>1. id \in Id
          BY BaseFacts
        <4> QED
          BY <1>3, <2>1, <4>1, HeldStays
      <3>2. ASSUME NEW id \in Id, id = m.id, m.ok PROVE HeldOK(c, id)'
        <4> SUFFICES ASSUME Fresh(c)', ~Crossed(id, c)' PROVE c \in UsersOf(id, c)'
          BY <2>1 DEF HeldOK
        <4>1. Fresh(c) /\ ~Crossed(id, c)
          BY <1>1 DEF Fresh, OfPhase, Crossed, dm
        <4>2. OfPhase(c, m.phase)
          BY <1>1, <2>2, <4>1 DEF Fresh, OfPhase, ReplyOK
        <4>3. c \in UsersOf(id, c)
          BY <1>1, <2>2, <3>2, <4>1, <4>2 DEF ReplyOK
        <4> QED
          BY <2>1, <4>3 DEF KeepsUser
      <3> QED
        BY <1>2, <2>2, <3>1, <3>2 DEF HoldOK
    <2>8. UserOK(c)'
      <3>1. ASSUME NEW id \in Id PROVE UsedOK(c, id)'
        <4>1. UsedOK(c, id)
          BY <2>1 DEF UserOK
        <4>2. ASSUME NEW n \in 1 .. Len(inbox[c]), IsOut(c, id, inbox[c][n]), inbox[c][n].ok
              PROVE  \/ id \in hold'[c]
                     \/ \E k \in 1 .. Len(inbox'[c]) : inbox'[c][k] = inbox[c][n]
          BY <1>2, <1>3, <4>2 DEF IsOut
        <4> QED
          BY <1>1, <1>2, <2>1, <4>1, <4>2, UsedStays
      <3> QED
        BY <3>1 DEF UserOK
    <2> QED
      BY <2>4, <2>5, <2>6, <2>7, <2>8 DEF ClientOK
  <1> QED
    BY <1>5, <1>6 DEF ClientInv

(* What a search takes out is ignored: it is of another phase than the      *)
(* search, or for a filter that is active already.                          *)
LEMMA ReplyIgnored ==
    ASSUME BaseInv, BaseInv', NEW c \in PC, ClientOK(c), NEW m \in Answers,
           m = inbox[c][1], 1 \in 1 .. Len(inbox[c]), inbox[c] # <<>>, Pop(c),
           ~Wanted(c, m) \/ m.id \in hold[c],
           UNCHANGED <<phase, dm, requests, cphase, ended, life, crossed, pend, hold>>
    PROVE  ClientOK(c)'
  <1>1. /\ NoNewMail(c, 1)
        /\ \A n \in 1 .. Len(inbox[c]) : n # 1 =>
              n - 1 \in 1 .. Len(inbox'[c]) /\ inbox'[c][n - 1] = inbox[c][n]
    BY Popped DEF Client
  <1>2. /\ PhaseOK(c) /\ AskOK(c) /\ MailOK(c) /\ UniqueOK(c) /\ HoldOK(c) /\ UserOK(c)
        /\ c \in Client /\ c \notin Visi
    BY InstancesAssumption DEF ClientOK, Client
  <1>3. /\ Steady(c)
        /\ \A id \in Id : NoNewRequest(c, id) /\ KeepsUser(c, id) /\ NoNewUser(c, id)
    BY <1>2, DmAlone
  <1>4. PhaseOK(c)'
    BY <1>2, <1>3, BaseFacts, PhaseStays
  <1>5. AskOK(c)'
    BY <1>2, <1>3, AskStays
  <1>6. MailOK(c)' /\ UniqueOK(c)'
    BY <1>1, <1>2, <1>3, MailStays
  <1>7. HoldOK(c)'
    <2>1. ASSUME NEW id \in hold[c] PROVE HeldOK(c, id)'
      <3>1. id \in Id
        BY <1>2, BaseFacts
      <3> QED
        BY <1>1, <1>2, <1>3, <3>1, HeldStays
    <2> QED
      BY <2>1 DEF HoldOK
  <1>8. UserOK(c)'
    <2>1. ASSUME NEW id \in Id PROVE UsedOK(c, id)'
      <3>1. UsedOK(c, id)
        BY <1>2 DEF UserOK
      <3>2. ASSUME NEW n \in 1 .. Len(inbox[c]), IsOut(c, id, inbox[c][n]), inbox[c][n].ok
            PROVE  \/ id \in hold'[c] \/ c \in ended'
                   \/ \E k \in 1 .. Len(inbox'[c]) : inbox'[c][k] = inbox[c][n]
        <4>1. CASE n # 1
          BY <1>1, <4>1
        <4>2. CASE n = 1
          <5>1. ReplyOK(c, m) /\ m.kind = "reply" /\ m.id = id
            BY <1>2, <3>2, <4>2 DEF MailOK, IsOut
          <5>2. c \in Curr => m.phase = cphase[c]
            BY <1>2, <3>2, <4>2, <5>1 DEF ReplyOK, IsOut, OfPhase
          <5> QED
            BY <5>1, <5>2 DEF Wanted
        <4> QED
          BY <4>1, <4>2
      <3> QED
        BY <1>2, <1>3, <3>1, <3>2, UsedStays
    <2> QED
      BY <2>1 DEF UserOK
  <1> QED
    BY <1>4, <1>5, <1>6, <1>7, <1>8 DEF ClientOK

(* A reply that a search wants is the only one of its phase for the value,  *)
(* if any reply for it is.                                                  *)
LEMMA WantedIsOut ==
    ASSUME BaseInv, NEW c \in PC, ClientOK(c), NEW m \in Answers, m = inbox[c][1],
           1 \in 1 .. Len(inbox[c]), Wanted(c, m), NEW n \in 1 .. Len(inbox[c]),
           m.id \in Id, ~Crossed(m.id, c), IsOut(c, m.id, inbox[c][n])
    PROVE  n = 1
  <1>1. inbox[c][n] \in Answers /\ c \in Client
    BY BaseFacts DEF IsOut, Notices, Client
  <1>2. ReplyOK(c, inbox[c][n])
    BY <1>1 DEF ClientOK, MailOK
  <1>3. OfPhase(c, m.phase)
    BY <1>1, <1>2 DEF OfPhase, IsOut, ReplyOK, Wanted
  <1>4. IsOut(c, m.id, inbox[c][1])
    BY <1>3 DEF IsOut, Answers
  <1> QED
    BY <1>4 DEF ClientOK, UniqueOK

(* A reply that is wanted for a request that was cancelled is undone: the   *)
(* search disables what it does not use.                                    *)
LEMMA ReplyUndone ==
    ASSUME BaseInv, BaseInv', NEW c \in PC, ClientOK(c), NEW m \in Answers,
           m = inbox[c][1], 1 \in 1 .. Len(inbox[c]), inbox[c] # <<>>, Pop(c),
           Wanted(c, m), m.id \notin hold[c], m.id \in Id, NEW r, Disabled(m.id, c, r),
           UNCHANGED <<phase, requests, cphase, ended, life, crossed, pend, hold>>
    PROVE  ClientOK(c)'
  <1>1. /\ NoNewMail(c, 1) /\ Len(inbox[c]) \in Nat
        /\ \A n \in 1 .. Len(inbox[c]) : n # 1 =>
              n - 1 \in 1 .. Len(inbox'[c]) /\ inbox'[c][n - 1] = inbox[c][n]
    BY Popped DEF Client
  <1>2. /\ PhaseOK(c) /\ AskOK(c) /\ MailOK(c) /\ UniqueOK(c) /\ HoldOK(c) /\ UserOK(c)
        /\ c \in Client /\ c \notin Visi
    BY InstancesAssumption DEF ClientOK, Client
  <1>3. /\ Steady(c)
        /\ \A k \in Id : NoNewRequest(c, k) /\ NoNewUser(c, k)
        /\ \A k \in Id : k # m.id => KeepsUser(c, k)
        /\ ~(c \in UsersOf(m.id, c)')
    <2> DEFINE i == m.id
    <2> HIDE DEF i
    <2>1. i \in Id /\ Disabled(i, c, r)
      BY DEF i
    <2>2. /\ Steady(c)
          /\ \A k \in Id : NoNewRequest(c, k) /\ NoNewUser(c, k)
          /\ \A k \in Id : c # c \/ k # i => KeepsUser(c, k)
          /\ c = c => ~(c \in UsersOf(i, c)')
      BY <1>2, <2>1, DmOneLess
    <2> QED
      BY <2>2 DEF i
  <1>4. PhaseOK(c)'
    BY <1>2, <1>3, BaseFacts, PhaseStays
  <1>5. AskOK(c)'
    BY <1>2, <1>3, AskStays
  <1>6. MailOK(c)' /\ UniqueOK(c)'
    <2>1. ASSUME NEW n \in 1 .. Len(inbox[c]), 1 < n, inbox[c][n].kind = "reply",
                 inbox[c][n].id \in Id, OfPhase(c, inbox[c][n].phase),
                 <<c, inst[inbox[c][n].id].pair>> \notin crossed'
          PROVE  KeepsUser(c, inbox[c][n].id)
      <3>1. CASE inbox[c][n].id = m.id
        <4>1. IsOut(c, m.id, inbox[c][n]) /\ ~Crossed(m.id, c)
          BY <2>1, <3>1 DEF IsOut, Crossed
        <4>2. n = 1
          BY <4>1, WantedIsOut
        <4> QED
          BY <1>1, <2>1, <4>2
      <3>2. CASE inbox[c][n].id # m.id
        BY <1>3, <2>1, <3>2
      <3> QED
        BY <3>1, <3>2
    <2> QED
      BY <1>1, <1>2, <1>3, <2>1, MailStays
  <1>7. HoldOK(c)'
    <2>1. ASSUME NEW id \in hold[c] PROVE HeldOK(c, id)'
      <3>1. id \in Id /\ id # m.id
        BY <1>2, BaseFacts
      <3> QED
        BY <1>1, <1>2, <1>3, <3>1, HeldStays
    <2> QED
      BY <2>1 DEF HoldOK
  <1>8. UserOK(c)'
    <2>1. ASSUME NEW id \in Id, id # m.id PROVE UsedOK(c, id)'
      <3>1. UsedOK(c, id)
        BY <1>2 DEF UserOK
      <3>2. ASSUME NEW n \in 1 .. Len(inbox[c]), IsOut(c, id, inbox[c][n])
            PROVE  \E k \in 1 .. Len(inbox'[c]) : inbox'[c][k] = inbox[c][n]
        BY <1>1, <2>1, <3>2 DEF IsOut
      <3> QED
        BY <1>2, <1>3, <3>1, <3>2, UsedStays
    <2>2. ASSUME NEW id \in Id, id = m.id PROVE UsedOK(c, id)'
      BY <1>3, <2>2 DEF UsedOK
    <2> QED
      BY <2>1, <2>2 DEF UserOK
  <1> QED
    BY <1>4, <1>5, <1>6, <1>7, <1>8 DEF ClientOK

(* A reply that a search waits for makes its filter active: the search is a *)
(* user, and nothing else is outstanding for the value.                     *)
LEMMA ReplyTaken ==
    ASSUME BaseInv, BaseInv', NEW c \in PC, ClientOK(c), NEW m \in Answers,
           m = inbox[c][1], 1 \in 1 .. Len(inbox[c]), inbox[c] # <<>>, Pop(c),
           Wanted(c, m), m.id \notin hold[c], m.id \in Id,
           hold'[c] = IF m.ok THEN hold[c] \union {m.id} ELSE hold[c],
           UNCHANGED <<phase, dm, requests, cphase, ended, life, crossed>>
    PROVE  ClientOK(c)'
  <1>1. /\ NoNewMail(c, 1) /\ Len(inbox[c]) \in Nat
        /\ \A n \in 1 .. Len(inbox[c]) - 1 : inbox'[c][n] = inbox[c][n + 1]
        /\ Len(inbox'[c]) = Len(inbox[c]) - 1
        /\ \A n \in 1 .. Len(inbox[c]) : n # 1 =>
              n - 1 \in 1 .. Len(inbox'[c]) /\ inbox'[c][n - 1] = inbox[c][n]
    BY Popped DEF Client
  <1>2. /\ PhaseOK(c) /\ AskOK(c) /\ MailOK(c) /\ UniqueOK(c) /\ HoldOK(c) /\ UserOK(c)
        /\ c \in Client /\ c \notin Visi /\ life[c] = "open"
    BY InstancesAssumption, BaseFacts DEF ClientOK, Client
  <1>3. /\ Steady(c)
        /\ \A id \in Id : NoNewRequest(c, id) /\ KeepsUser(c, id) /\ NoNewUser(c, id)
    BY <1>2, DmAlone
  <1>4. ReplyOK(c, m) /\ m.kind = "reply"
    BY <1>2 DEF MailOK, Answers
  <1>5. PhaseOK(c)'
    <2>1. \A id \in hold'[c] : id \in Id /\ (id \in hold[c] \/ id < nextId)
      BY <1>2, <1>4, BaseFacts DEF ReplyOK
    <2> QED
      BY <1>2, <1>3, <2>1, PhaseStays
  <1>6. AskOK(c)'
    BY <1>2, <1>3, AskStays
  <1>7. MailOK(c)' /\ UniqueOK(c)'
    BY <1>1, <1>2, <1>3, MailStays
  <1>8. HoldOK(c)'
    <2>1. ASSUME NEW id \in hold[c] PROVE HeldOK(c, id)'
      <3>1. id \in Id
        BY <1>2, BaseFacts
      <3> QED
        BY <1>1, <1>2, <1>3, <3>1, HeldStays
    <2>2. ASSUME NEW id \in Id, id = m.id, m.ok PROVE HeldOK(c, id)'
      <3> SUFFICES ASSUME Fresh(c), ~Crossed(id, c)
                   PROVE  /\ c \in UsersOf(id, c)
                          /\ \A n \in 1 .. Len(inbox'[c]) : ~IsOut(c, id, inbox[c][n])'
                          /\ Len(parents[id]) = 0
        BY DEF HeldOK, Fresh, OfPhase, Crossed, UsersOf, dm, requests
      <3>1. OfPhase(c, m.phase)
        BY DEF Fresh, OfPhase, Wanted
      <3>2. val[id] = "success" /\ c \in UsersOf(id, c)
        BY <1>2, <1>4, <2>2, <3>1 DEF ReplyOK
      <3>3. Len(parents[id]) = 0
        BY <3>2, BaseFacts
      <3>4. ASSUME NEW n \in 1 .. Len(inbox'[c]), IsOut(c, id, inbox[c][n])'
            PROVE  FALSE
        <4>1. n + 1 \in 1 .. Len(inbox[c]) /\ inbox'[c][n] = inbox[c][n + 1] /\ n \in Nat
          BY <1>1
        <4>2. IsOut(c, m.id, inbox[c][n + 1])
          BY <2>2, <3>4, <4>1 DEF IsOut, OfPhase
        <4>3. n + 1 = 1
          BY <2>2, <4>1, <4>2, WantedIsOut
        <4> QED
          BY <4>1, <4>3
      <3> QED
        BY <3>2, <3>3, <3>4
    <2> QED
      BY <2>1, <2>2 DEF HoldOK
  <1>9. UserOK(c)'
    <2>1. ASSUME NEW id \in Id PROVE UsedOK(c, id)'
      <3>1. UsedOK(c, id)
        BY <1>2 DEF UserOK
      <3>2. ASSUME NEW n \in 1 .. Len(inbox[c]), IsOut(c, id, inbox[c][n]), inbox[c][n].ok
            PROVE  \/ id \in hold'[c]
                   \/ \E k \in 1 .. Len(inbox'[c]) : inbox'[c][k] = inbox[c][n]
        BY <1>1, <3>2 DEF IsOut
      <3> QED
        BY <1>2, <1>3, <3>1, <3>2, UsedStays
    <2> QED
      BY <2>1 DEF UserOK
  <1> QED
    BY <1>5, <1>6, <1>7, <1>8, <1>9 DEF ClientOK

(* PCenableDataCallback keeps ClientInv.                                    *)
LEMMA ReceivePCClient ==
    ASSUME BaseInv, BaseInv', ClientInv, NEW c \in Client, ReceivePC(c)
    PROVE  ClientInv'
  <1>1. /\ c \in PC /\ inbox[c] # <<>> /\ Pop(c) /\ Head(inbox[c]).kind = "reply"
        /\ UNCHANGED <<phase, requests, cphase, ended, life, crossed>>
    BY DEF ReceivePC
  <1>2. /\ Head(inbox[c]) = inbox[c][1] /\ 1 \in 1 .. Len(inbox[c])
        /\ \A x \in Client \ {c} : inbox'[x] = inbox[x]
        /\ Head(inbox[c]) \in Answers \union Notices
    BY <1>1, Popped
  <1>3. Head(inbox[c]) \in Answers
    BY <1>1, <1>2 DEF Notices
  <1>4. PICK m \in Answers : m = Head(inbox[c])
    BY <1>3
  <1>5. m.id \in Id
    BY <1>1, <1>2, <1>4 DEF BaseInv, HandleInv
  <1>6. ClientOK(c)
    BY DEF ClientInv
  <1>7. CASE (~Wanted(c, m) \/ m.id \in hold[c]) /\ UNCHANGED <<dm, pend, hold>>
    <2>1. ClientOK(c)'
      BY <1>1, <1>2, <1>4, <1>6, <1>7, ReplyIgnored
    <2>2. ASSUME NEW x \in Client, x # c PROVE ClientOK(x)'
      <3>1. /\ Steady(x) /\ ClientOK(x)
            /\ \A id \in Id : NoNewRequest(x, id) /\ KeepsUser(x, id) /\ NoNewUser(x, id)
        BY <1>1, <1>7, DmAlone DEF ClientInv
      <3>2. Untouched(x)
        BY <1>1, <1>2, <1>7, <2>2, <3>1 DEF Untouched
      <3> QED
        BY <3>1, <3>2, UntouchedStays
    <2> QED
      BY <2>1, <2>2 DEF ClientInv
  <1>8. CASE /\ Wanted(c, m) /\ m.id \notin hold[c] /\ DisableAndClear(m.id, c)
             /\ UNCHANGED <<pend, hold>>
    <2>0. PICK i \in Id : i = m.id
      BY <1>5
    <2>1. PICK r : Disabled(i, c, r)
      BY <1>1, <1>8, <2>0, SearchDisables
    <2>2. ClientOK(c)'
      BY <1>1, <1>2, <1>4, <1>5, <1>6, <1>8, <2>0, <2>1, ReplyUndone
    <2>3. ASSUME NEW x \in Client, x # c PROVE ClientOK(x)'
      <3>1. /\ Steady(x) /\ ClientOK(x)
            /\ \A k \in Id : NoNewRequest(x, k) /\ NoNewUser(x, k)
            /\ \A k \in Id : x # c \/ k # i => KeepsUser(x, k)
        BY <1>1, <2>1, DmOneLess DEF ClientInv
      <3>2. Untouched(x)
        BY <1>1, <1>2, <1>8, <2>3, <3>1 DEF Untouched
      <3> QED
        BY <3>1, <3>2, UntouchedStays
    <2> QED
      BY <2>2, <2>3 DEF ClientInv
  <1>9. CASE /\ Wanted(c, m) /\ m.id \notin hold[c] /\ UNCHANGED dm
             /\ pend' = [pend EXCEPT ![c] = @ \ {m.pair}]
             /\ hold' = [hold EXCEPT ![c] = IF m.ok THEN @ \union {m.id} ELSE @]
    <2>1. /\ \A x \in Client \ {c} : pend'[x] = pend[x] /\ hold'[x] = hold[x]
          /\ hold'[c] = IF m.ok THEN hold[c] \union {m.id} ELSE hold[c]
      BY <1>9, BaseParts DEF ClientTypes
    <2>2. ClientOK(c)'
      BY <1>1, <1>2, <1>4, <1>5, <1>6, <1>9, <2>1, ReplyTaken
    <2>3. ASSUME NEW x \in Client, x # c PROVE ClientOK(x)'
      <3>1. /\ Steady(x) /\ ClientOK(x)
            /\ \A id \in Id : NoNewRequest(x, id) /\ KeepsUser(x, id) /\ NoNewUser(x, id)
        BY <1>1, <1>9, DmAlone DEF ClientInv
      <3>2. Untouched(x)
        BY <1>1, <1>2, <2>1, <2>3, <3>1 DEF Untouched
      <3> QED
        BY <3>1, <3>2, UntouchedStays
    <2> QED
      BY <2>2, <2>3 DEF ClientInv
  <1> QED
    <2>1. \/ (~Wanted(c, m) \/ m.id \in hold[c]) /\ UNCHANGED <<dm, pend, hold>>
          \/ /\ Wanted(c, m) /\ m.id \notin hold[c] /\ DisableAndClear(m.id, c)
             /\ UNCHANGED <<pend, hold>>
          \/ /\ Wanted(c, m) /\ m.id \notin hold[c] /\ UNCHANGED dm
             /\ pend' = [pend EXCEPT ![c] = @ \ {m.pair}]
             /\ hold' = [hold EXCEPT ![c] = IF m.ok THEN @ \union {m.id} ELSE @]
      BY <1>4 DEF ReceivePC, UndoUnwanted
    <2> QED
      BY <1>7, <1>8, <1>9, <2>1

(* New answers for x come after the others, and leave ClientInv true of the *)
(* mail if each of them says what was decided and is the only one of its    *)
(* phase for its value.                                                     *)
LEMMA MailGrown ==
    ASSUME BaseInv, BaseInv', NEW x \in Client, MailOK(x), UniqueOK(x), Steady(x),
           NEW q \in Seq(Answers), inbox'[x] = inbox[x] \o q,
           pend[x] \subseteq pend'[x], \A id \in Id : KeepsUser(x, id),
           \A m \in Answers : (\E j \in 1 .. Len(q) : q[j] = m) => ReplyOK(x, m)',
           \A id \in Id : \A j \in 1 .. Len(q) : IsOut(x, id, q[j]) /\ ~Crossed(id, x)' =>
               /\ \A k \in 1 .. Len(q) : IsOut(x, id, q[k]) => k = j
               /\ \A n \in 1 .. Len(inbox[x]) : ~IsOut(x, id, inbox[x][n])
    PROVE  MailOK(x)' /\ UniqueOK(x)'
  <1> DEFINE L == Len(inbox[x])
  <1>1. inbox[x] \in Seq(Answers \union Notices) /\ L \in Nat /\ Len(q) \in Nat
        /\ \A n \in 1 .. L : inbox[x][n] \in Answers \union Notices
    BY BaseFacts
  <1>2. q \in Seq(Answers \union Notices)
    OBVIOUS
  <1>3. /\ Len(inbox'[x]) = L + Len(q)
        /\ \A n \in 1 .. L + Len(q) : inbox'[x][n] = IF n <= L THEN inbox[x][n] ELSE q[n - L]
    BY <1>1, <1>2, ConcatProperties
  <1>4. ASSUME NEW n \in 1 .. Len(inbox'[x])
        PROVE  \/ n \in 1 .. L /\ inbox'[x][n] = inbox[x][n]
               \/ n - L \in 1 .. Len(q) /\ inbox'[x][n] = q[n - L] /\ n \in Nat
    <2>1. n \in 1 .. L + Len(q) /\ n \in Nat
      BY <1>3
    <2>2. CASE n <= L
      BY <1>1, <1>3, <2>1, <2>2
    <2>3. CASE ~(n <= L)
      BY <1>1, <1>3, <2>1, <2>3
    <2> QED
      BY <2>2, <2>3
  <1>5. MailOK(x)'
    <2> SUFFICES ASSUME NEW m \in Answers, NEW n \in 1 .. Len(inbox'[x]), inbox'[x][n] = m
                 PROVE  ReplyOK(x, m)'
      BY DEF MailOK
    <2>1. CASE n \in 1 .. L /\ inbox[x][n] = m
      <3>1. ReplyOK(x, m) /\ m.kind = "reply"
        BY <2>1 DEF MailOK, Answers
      <3> QED
        BY <3>1, ReplyStays
    <2>2. CASE n - L \in 1 .. Len(q) /\ q[n - L] = m
      BY <2>2
    <2> QED
      BY <1>4, <2>1, <2>2
  <1>6. UniqueOK(x)'
    <2> SUFFICES ASSUME NEW k \in 1 .. Len(inbox'[x]), NEW n \in 1 .. Len(inbox'[x]),
                        NEW id \in Id, IsOut(x, id, inbox[x][k])', IsOut(x, id, inbox[x][n])',
                        ~Crossed(id, x)'
                 PROVE  k = n
      BY DEF UniqueOK
    <2>1. /\ \A j \in 1 .. Len(inbox'[x]) : j \in 1 .. L /\ inbox'[x][j] = inbox[x][j] =>
                (IsOut(x, id, inbox[x][j])' <=> IsOut(x, id, inbox[x][j]))
          /\ \A j \in 1 .. Len(inbox'[x]) : inbox'[x][j] = q[j - L] =>
                (IsOut(x, id, inbox[x][j])' <=> IsOut(x, id, q[j - L]))
      BY DEF IsOut, OfPhase, Steady
    <2>2. CASE n \in 1 .. L /\ inbox'[x][n] = inbox[x][n]
      <3>1. IsOut(x, id, inbox[x][n])
        BY <2>1, <2>2
      <3>2. k \in 1 .. L /\ IsOut(x, id, inbox[x][k])
        BY <1>4, <2>1, <2>2, <3>1
      <3>3. inbox[x][n] \in Answers
        BY <1>1, <2>2, <3>1 DEF IsOut, Notices
      <3>4. id < nextId
        BY <2>2, <3>1, <3>3 DEF MailOK, ReplyOK, IsOut
      <3>5. ~Crossed(id, x)
        <4>1. inst[id].pair \in Pair
          BY BaseFacts DEF Instance
        <4> QED
          BY <3>4, <4>1 DEF Crossed, Steady
      <3> QED
        BY <2>2, <3>1, <3>2, <3>5 DEF UniqueOK
    <2>3. CASE n - L \in 1 .. Len(q) /\ inbox'[x][n] = q[n - L] /\ n \in Nat
      <3>1. IsOut(x, id, q[n - L])
        BY <2>1, <2>3
      <3>2. k - L \in 1 .. Len(q) /\ IsOut(x, id, q[k - L]) /\ k \in Nat
        BY <1>4, <2>1, <2>3, <3>1
      <3>3. k - L = n - L
        BY <2>3, <3>1, <3>2
      <3> QED
        BY <1>1, <2>3, <3>2, <3>3
    <2> QED
      BY <1>4, <2>2, <2>3
  <1> QED
    BY <1>5, <1>6

(* Appended mail leaves the old where it was.                               *)
LEMMA OldMail ==
    ASSUME BaseInv, NEW x \in Client, NEW q \in Seq(Answers), inbox'[x] = inbox[x] \o q
    PROVE  /\ \A n \in 1 .. Len(inbox[x]) :
                 n \in 1 .. Len(inbox'[x]) /\ inbox'[x][n] = inbox[x][n]
           /\ \A j \in 1 .. Len(q) : \E n \in 1 .. Len(inbox'[x]) : inbox'[x][n] = q[j]
           /\ \A n \in 1 .. Len(inbox'[x]) :
                 \/ n \in 1 .. Len(inbox[x]) /\ inbox'[x][n] = inbox[x][n]
                 \/ \E j \in 1 .. Len(q) : inbox'[x][n] = q[j]
  <1> DEFINE L == Len(inbox[x])
  <1>1. inbox[x] \in Seq(Answers \union Notices) /\ L \in Nat /\ Len(q) \in Nat
    BY BaseFacts
  <1>2. q \in Seq(Answers \union Notices)
    OBVIOUS
  <1>3. /\ Len(inbox'[x]) = L + Len(q)
        /\ \A n \in 1 .. L + Len(q) : inbox'[x][n] = IF n <= L THEN inbox[x][n] ELSE q[n - L]
    BY <1>1, <1>2, ConcatProperties
  <1> HIDE DEF L
  <1>4. ASSUME NEW n \in 1 .. L
        PROVE  n \in 1 .. Len(inbox'[x]) /\ inbox'[x][n] = inbox[x][n]
    BY <1>1, <1>3
  <1>5. ASSUME NEW j \in 1 .. Len(q)
        PROVE  \E n \in 1 .. Len(inbox'[x]) : inbox'[x][n] = q[j]
    <2>1. L + j \in 1 .. L + Len(q) /\ ~(L + j <= L) /\ (L + j) - L = j
      BY <1>1
    <2>2. inbox'[x][L + j] = q[j]
      BY <1>3, <2>1
    <2> QED
      BY <1>3, <2>1, <2>2
  <1>6. ASSUME NEW n \in 1 .. Len(inbox'[x])
        PROVE  \/ n \in 1 .. L /\ inbox'[x][n] = inbox[x][n]
               \/ \E j \in 1 .. Len(q) : inbox'[x][n] = q[j]
    <2>1. n \in 1 .. L + Len(q)
      BY <1>3
    <2>2. CASE n <= L
      BY <1>1, <1>3, <2>1, <2>2
    <2>3. CASE ~(n <= L)
      <3>1. n - L \in 1 .. Len(q) /\ inbox'[x][n] = q[n - L]
        BY <1>1, <1>3, <2>1, <2>3
      <3> QED
        BY <3>1
    <2> QED
      BY <2>2, <2>3
  <1> QED
    BY <1>4, <1>5, <1>6 DEF L

(* What a search uses stays as it is while nothing comes that is about it.  *)
LEMMA HeldGrown ==
    ASSUME BaseInv, BaseInv', NEW x \in Client, PhaseOK(x), HoldOK(x), Steady(x),
           NEW id \in hold[x], KeepsUser(x, id), x \in PC => NoNewRequest(x, id),
           x \in PC => \A n \in 1 .. Len(inbox'[x]) : IsOut(x, id, inbox'[x][n]) =>
               \E k \in 1 .. Len(inbox[x]) : inbox'[x][n] = inbox[x][k]
    PROVE  HeldOK(x, id)'
  <1> SUFFICES ASSUME Fresh(x)', ~Crossed(id, x)'
               PROVE  /\ x \in UsersOf(id, x)'
                      /\ x \in PC =>
                            /\ \A n \in 1 .. Len(inbox'[x]) : ~IsOut(x, id, inbox[x][n])'
                            /\ \A n \in 1 .. Len(parents'[id]) :
                                  parents'[id][n].client = x => ~OfPhase(x, parents[id][n].phase)'
    BY DEF HeldOK
  <1>1. id \in Id /\ id < nextId /\ inst[id].pair \in Pair
    BY BaseFacts DEF PhaseOK, Instance
  <1>2. Fresh(x) /\ ~Crossed(id, x)
    BY <1>1 DEF Steady, Fresh, OfPhase, Crossed
  <1>3. HeldOK(x, id)
    BY DEF HoldOK
  <1>4. x \in UsersOf(id, x)'
    BY <1>2, <1>3 DEF HeldOK, KeepsUser
  <1>5. ASSUME x \in PC, NEW n \in 1 .. Len(inbox'[x]), IsOut(x, id, inbox[x][n])'
        PROVE  FALSE
    <2>1. IsOut(x, id, inbox'[x][n])
      BY <1>5 DEF IsOut, OfPhase, Steady
    <2>2. PICK k \in 1 .. Len(inbox[x]) : inbox'[x][n] = inbox[x][k]
      BY <1>5, <2>1
    <2> QED
      BY <1>2, <1>3, <1>5, <2>1, <2>2 DEF HeldOK
  <1>6. ASSUME x \in PC, NEW n \in 1 .. Len(parents'[id]), parents'[id][n].client = x,
               OfPhase(x, parents[id][n].phase)'
        PROVE  FALSE
    <2>1. n \in 1 .. Len(parents[id]) /\ parents'[id][n] = parents[id][n]
      BY <1>6 DEF NoNewRequest
    <2>2. OfPhase(x, parents[id][n].phase)
      BY <1>6, <2>1 DEF OfPhase, Steady
    <2> QED
      BY <1>2, <1>3, <1>6, <2>1, <2>2 DEF HeldOK
  <1> QED
    BY <1>4, <1>5, <1>6

(* A call that does not cross an answer finds no request of c and no reply  *)
(* to c for the instance it is about.                                       *)
LEMMA NothingOut ==
    ASSUME BaseInv, NEW c \in Client, MailOK(c), NEW p \in Pair, ~Outstanding(c, p),
           NEW id \in Id, (inst[id].live /\ inst[id].pair = p) \/ id = nextId
    PROVE  /\ \A n \in 1 .. Len(parents[id]) : parents[id][n].client # c
           /\ \A n \in 1 .. Len(inbox[c]) : inbox[c][n].kind = "reply" => inbox[c][n].id # id
  <1>1. /\ parents[id] \in Seq(Requests) /\ Len(parents[id]) \in Nat
        /\ inbox[c] \in Seq(Answers \union Notices) /\ Len(inbox[c]) \in Nat
        /\ \A n \in 1 .. Len(inbox[c]) : inbox[c][n] \in Answers \union Notices
    BY BaseFacts
  <1>2. CASE inst[id].live /\ inst[id].pair = p
    <2>1. \A n \in DOMAIN parents[id] : parents[id][n].client # c
      BY <1>2 DEF Outstanding, ToSet
    <2>2. \A n \in DOMAIN inbox[c] : inbox[c][n].kind = "reply" => inbox[c][n].id # id
      BY <1>2 DEF Outstanding, ToSet
    <2>3. DOMAIN parents[id] = 1 .. Len(parents[id]) /\ DOMAIN inbox[c] = 1 .. Len(inbox[c])
      BY <1>1
    <2> QED
      BY <2>1, <2>2, <2>3
  <1>3. CASE id = nextId
    <2>1. ~(id < nextId) /\ nextId \in Nat
      BY <1>3, BaseFacts
    <2>2. Len(parents[id]) = 0
      BY <1>1, <2>1, BaseFacts
    <2>3. ASSUME NEW n \in 1 .. Len(inbox[c]), inbox[c][n].kind = "reply", inbox[c][n].id = id
          PROVE  FALSE
      <3>1. inbox[c][n] \in Answers
        BY <1>1, <2>3 DEF Notices
      <3> QED
        BY <2>1, <2>3, <3>1 DEF MailOK, ReplyOK
    <2> QED
      BY <2>2, <2>3
  <1> QED
    BY <1>2, <1>3

\* the part of a request of c for p that does not depend on its outcome
Asks(c, p) ==
    /\ life[c] = "open" /\ (c \in Curr => cphase[c] # NoPhase) /\ p \notin pend[c]
    /\ c \in PC => ~\E id \in hold[c] : inst[id].live /\ inst[id].pair = p
    /\ pend'[c] = pend[c] \union {p}
    /\ \A x \in Client \ {c} : pend'[x] = pend[x]
    /\ crossed \subseteq crossed' /\ (Outstanding(c, p) => <<c, p>> \in crossed')
    /\ UNCHANGED <<phase, cphase, ended, hold, life>>

(* One message more is a sequence of one appended.                          *)
LEMMA SentOne ==
    ASSUME BaseInv, NEW c \in Client, NEW m \in Answers, inbox'[c] = Append(inbox[c], m)
    PROVE  \E q \in Seq(Answers) : inbox'[c] = inbox[c] \o q /\ Len(q) = 1 /\ q[1] = m
  <1> DEFINE S == Answers \union Notices
  <1>1. inbox[c] \in Seq(S) /\ m \in S
    BY BaseFacts
  <1> HIDE DEF S
  <1>2. Append(inbox[c], m) = inbox[c] \o <<m>>
    BY <1>1, AppendIsConcat
  <1>3. <<m>> \in Seq(Answers) /\ Len(<<m>>) = 1 /\ <<m>>[1] = m
    OBVIOUS
  <1> QED
    BY <1>2, <1>3

(* A request for a phase that is over changes nothing; a visi is told.      *)
LEMMA TooLateClient ==
    ASSUME BaseInv, BaseInv', ClientInv, NEW c \in Client, NEW p \in Pair, Asks(c, p),
           TooLate(c, p)
    PROVE  ClientInv'
  <1>1. /\ c \in Curr /\ cphase[c] # phase /\ cphase[c] # NoPhase
        /\ pend'[c] = pend[c] \union {p}
        /\ \A x \in Client \ {c} : pend'[x] = pend[x]
        /\ UNCHANGED <<phase, cphase, ended, hold, life, inst, nextId, val, parents>>
        /\ crossed \subseteq crossed'
    BY DEF Asks, TooLate, Stale, dm
  <1>2. ASSUME NEW x \in Client
        PROVE  /\ Steady(x) /\ ClientOK(x)
               /\ \A id \in Id : NoNewRequest(x, id) /\ KeepsUser(x, id) /\ NoNewUser(x, id)
    <2>1. Steady(x)
      BY <1>1, BaseFacts DEF Steady
    <2>2. \A id \in Id : NoNewRequest(x, id) /\ KeepsUser(x, id) /\ NoNewUser(x, id)
      BY <1>1 DEF NoNewRequest, KeepsUser, NoNewUser, UsersOf
    <2> QED
      BY <2>1, <2>2 DEF ClientInv
  <1>3. /\ \A x \in Client \ {c} : inbox'[x] = inbox[x]
        /\ inbox'[c] = IF c \in Visi THEN Append(inbox[c], Reply(0, p, FALSE, cphase[c]))
                       ELSE inbox[c]
    BY <1>1 DEF TooLate, Send, RequestOf, BaseInv, TypeOK
  <1>4. ASSUME NEW x \in Client, x # c PROVE ClientOK(x)'
    <2>1. Untouched(x)
      BY <1>1, <1>2, <1>3, <1>4 DEF Untouched
    <2> QED
      BY <1>2, <2>1, UntouchedStays
  <1>5. PICK m \in Answers : m = Reply(0, p, FALSE, cphase[c])
    <2>1. cphase[c] \in 0 .. NoPhase /\ 0 \in 0 .. MaxId
      BY BaseFacts, InstancesAssumption
    <2> QED
      BY <2>1 DEF Reply, Answers
  <1>6. PICK q \in Seq(Answers) : /\ inbox'[c] = inbox[c] \o q
                                  /\ \A j \in 1 .. Len(q) : q[j] = m /\ j = 1
    <2>1. inbox[c] \in Seq(Answers \union Notices)
      BY BaseFacts
    <2>2. CASE c \in Visi
      <3>1. PICK q \in Seq(Answers) : inbox'[c] = inbox[c] \o q /\ Len(q) = 1 /\ q[1] = m
        BY <1>3, <1>5, <2>2, SentOne
      <3>2. \A j \in 1 .. Len(q) : q[j] = m /\ j = 1
        BY <3>1
      <3> QED
        BY <3>1, <3>2
    <2>3. CASE c \notin Visi
      <3>1. << >> \in Seq(Answers) /\ Len(<< >>) = 0 /\ inbox[c] \o << >> = inbox[c]
        BY <2>1, ConcatEmptySeq
      <3>2. inbox'[c] = inbox[c] \o << >> /\ 1 .. Len(<< >>) = {}
        BY <1>3, <2>3, <3>1
      <3> QED
        BY <3>1, <3>2
    <2> QED
      BY <2>2, <2>3
  <1>7. ClientOK(c)'
    <2>1. /\ PhaseOK(c) /\ AskOK(c) /\ MailOK(c) /\ UniqueOK(c) /\ HoldOK(c) /\ UserOK(c)
          /\ Steady(c) /\ life[c] = "open"
          /\ \A id \in Id : NoNewRequest(c, id) /\ KeepsUser(c, id) /\ NoNewUser(c, id)
      BY <1>1, <1>2 DEF ClientOK, Asks
    <2>2. /\ \A n \in 1 .. Len(inbox[c]) : n \in 1 .. Len(inbox'[c]) /\ inbox'[c][n] = inbox[c][n]
          /\ \A n \in 1 .. Len(inbox'[c]) :
                \/ n \in 1 .. Len(inbox[c]) /\ inbox'[c][n] = inbox[c][n]
                \/ \E j \in 1 .. Len(q) : inbox'[c][n] = q[j]
      BY <1>6, OldMail
    <2>3. \A id \in Id : ~IsOut(c, id, m)
      BY <1>1, <1>5 DEF IsOut, Reply, OfPhase
    <2>4. PhaseOK(c)'
      BY <1>1, <2>1, BaseFacts, PhaseStays
    <2>5. AskOK(c)'
      <3>1. \A id \in Id : \A n \in 1 .. Len(parents[id]) :
               /\ c \in Visi /\ parents[id][n].client = c
               /\ OfPhase(c, parents[id][n].phase) /\ <<c, inst[id].pair>> \notin crossed'
               => inst[id].pair \in pend'[c]
        BY <1>1, <2>1 DEF AskOK, Crossed
      <3> QED
        BY <2>1, <3>1, AskStays
    <2>6. MailOK(c)' /\ UniqueOK(c)'
      <3>1. ReplyOK(c, m)'
        <4>1. cphase[c] \in 0 .. phase
          BY <1>1, <2>1 DEF PhaseOK
        <4>2. /\ m.kind = "reply" /\ m.id = 0 /\ m.phase = cphase[c] /\ 0 \notin Id
              /\ cphase[c] <= phase
          BY <1>5, <4>1, BaseFacts, InstancesAssumption DEF Reply, Id
        <4> QED
          BY <1>1, <4>2 DEF ReplyOK, OfPhase
      <3> QED
        BY <1>1, <1>6, <2>1, <2>3, <3>1, MailGrown
    <2>7. HoldOK(c)'
      <3>1. ASSUME NEW id \in hold[c] PROVE HeldOK(c, id)'
        <4>1. id \in Id
          BY BaseFacts
        <4>2. \A n \in 1 .. Len(inbox'[c]) : IsOut(c, id, inbox'[c][n]) =>
                 \E k \in 1 .. Len(inbox[c]) : inbox'[c][n] = inbox[c][k]
          BY <1>6, <2>2, <2>3, <4>1
        <4> QED
          BY <2>1, <4>1, <4>2, HeldGrown
      <3> QED
        BY <1>1, <3>1 DEF HoldOK
    <2>8. UserOK(c)'
      <3>1. ASSUME NEW id \in Id PROVE UsedOK(c, id)'
        <4>1. UsedOK(c, id)
          BY <2>1 DEF UserOK
        <4>2. \A n \in 1 .. Len(inbox[c]) :
                 \E k \in 1 .. Len(inbox'[c]) : inbox'[c][k] = inbox[c][n]
          BY <2>2
        <4> QED
          BY <1>1, <2>1, <4>1, <4>2, UsedStays
      <3> QED
        BY <3>1 DEF UserOK
    <2> QED
      BY <2>4, <2>5, <2>6, <2>7, <2>8 DEF ClientOK
  <1> QED
    BY <1>4, <1>7 DEF ClientInv

(* A request that has to wait is appended to those that wait for the value. *)
LEMMA AskedFacts ==
    ASSUME BaseInv, NEW c \in Client, NEW p \in Pair, Asks(c, p), NEW id \in Id, Asked(c, p, id)
    PROVE  /\ \A x \in Client : Steady(x)
           /\ \A x \in Client : \A k \in Id : KeepsUser(x, k) /\ NoNewUser(x, k)
           /\ \A x \in Client : \A k \in Id : x # c \/ k # id => NoNewRequest(x, k)
           /\ Len(parents'[id]) = Len(parents[id]) + 1
           /\ parents'[id][Len(parents[id]) + 1] = RequestOf(c)
           /\ \A n \in 1 .. Len(parents[id]) : parents'[id][n] = parents[id][n]
           /\ inst'[id].pair = p /\ inbox' = inbox
           /\ (inst[id].live /\ inst[id].pair = p) \/ id = nextId
           /\ \A k \in Id \ {id} : inst'[k] = inst[k] /\ parents'[k] = parents[k]
           /\ id < nextId => inst[id].pair = p
  <1>1. /\ \/ inst[id].live /\ inst[id].pair = p /\ nextId' = nextId
           \/ id = nextId /\ nextId' = nextId + 1
        /\ val[id] \in {"none", "undecided"}
        /\ val' = [val EXCEPT ![id] = "undecided"]
        /\ parents' = [parents EXCEPT ![id] = Append(@, RequestOf(c))]
        /\ inst' = [inst EXCEPT ![id].live = TRUE, ![id].pair = p]
        /\ UNCHANGED inbox
    BY DEF Asked
  <1>2. /\ inst \in [Id -> Instance] /\ nextId \in Nat /\ parents[id] \in Seq(Requests)
        /\ val \in [Id -> {"none", "undecided", "success", "failure"}]
        /\ parents \in [Id -> Seq(Requests)] /\ RequestOf(c) \in Requests
        /\ RequestOf(c).client = c /\ Len(parents[id]) \in Nat
    <2>1. RequestOf(c) \in Requests /\ RequestOf(c).client = c
      BY BaseParts, RequestIsTyped
    <2> QED
      BY <2>1, BaseFacts DEF BaseInv, TypeOK, Requests
  <1>3. /\ inst'[id].pair = p /\ inst'[id].users = inst[id].users
        /\ inst'[id].gusers = inst[id].gusers
        /\ \A k \in Id \ {id} : inst'[k] = inst[k] /\ parents'[k] = parents[k]
    BY <1>1, <1>2 DEF Instance
  <1>4. id < nextId => inst[id].pair = p
    BY <1>1, <1>2
  <1>5. ASSUME NEW x \in Client PROVE Steady(x)
    BY <1>1, <1>2, <1>3, <1>4 DEF Steady, Asks
  <1>6. \A x \in Client : \A k \in Id : KeepsUser(x, k) /\ NoNewUser(x, k)
    BY <1>3 DEF KeepsUser, NoNewUser, UsersOf
  <1>7. /\ Len(parents'[id]) = Len(parents[id]) + 1
        /\ parents'[id][Len(parents[id]) + 1] = RequestOf(c)
        /\ \A n \in 1 .. Len(parents[id]) : parents'[id][n] = parents[id][n]
    <2>1. parents'[id] = Append(parents[id], RequestOf(c))
      BY <1>1, <1>2
    <2> QED
      BY <1>2, <2>1, AppendProperties
  <1>8. ASSUME NEW x \in Client, NEW k \in Id, x # c \/ k # id
        PROVE  NoNewRequest(x, k)
    <2>1. CASE k # id
      BY <1>3, <2>1 DEF NoNewRequest
    <2>2. CASE k = id /\ x # c
      <3> SUFFICES ASSUME NEW n \in 1 .. Len(parents'[id]), parents'[id][n].client = x
                   PROVE  n \in 1 .. Len(parents[id]) /\ parents'[id][n] = parents[id][n]
        BY <2>2 DEF NoNewRequest
      <3>1. n # Len(parents[id]) + 1
        BY <1>2, <1>7, <2>2
      <3>2. n \in 1 .. Len(parents[id])
        BY <1>2, <1>7, <3>1
      <3> QED
        BY <1>7, <3>2
    <2> QED
      BY <1>8, <2>1, <2>2
  <1> QED
    BY <1>1, <1>3, <1>4, <1>5, <1>6, <1>7, <1>8

(* The new request is the only one of c for the value, unless it crosses an *)
(* answer.                                                                  *)
LEMMA AskedClient ==
    ASSUME BaseInv, BaseInv', ClientInv, NEW c \in Client, NEW p \in Pair, Asks(c, p),
           NEW id \in Id, Asked(c, p, id)
    PROVE  ClientInv'
  <1>1. /\ \A x \in Client : Steady(x)
        /\ \A x \in Client : \A k \in Id : KeepsUser(x, k) /\ NoNewUser(x, k)
        /\ \A x \in Client : \A k \in Id : x # c \/ k # id => NoNewRequest(x, k)
        /\ Len(parents'[id]) = Len(parents[id]) + 1
        /\ parents'[id][Len(parents[id]) + 1] = RequestOf(c)
        /\ \A n \in 1 .. Len(parents[id]) : parents'[id][n] = parents[id][n]
        /\ inst'[id].pair = p /\ inbox' = inbox
        /\ (inst[id].live /\ inst[id].pair = p) \/ id = nextId
        /\ \A k \in Id \ {id} : inst'[k] = inst[k] /\ parents'[k] = parents[k]
        /\ id < nextId => inst[id].pair = p
    BY AskedFacts
  <1>2. /\ pend'[c] = pend[c] \union {p}
        /\ \A x \in Client \ {c} : pend'[x] = pend[x]
        /\ UNCHANGED <<phase, cphase, ended, hold, life>>
        /\ crossed \subseteq crossed' /\ (Outstanding(c, p) => <<c, p>> \in crossed')
        /\ (c \in Curr => cphase[c] = phase) /\ life[c] = "open"
    BY DEF Asks, Asked, Stale
  <1>3. ASSUME NEW x \in Client, x # c PROVE ClientOK(x)'
    <2>1. Untouched(x)
      BY <1>1, <1>2, <1>3 DEF Untouched
    <2> QED
      BY <2>1, UntouchedStays DEF ClientInv
  <1>4. ClientOK(c)'
    <2>1. /\ PhaseOK(c) /\ AskOK(c) /\ MailOK(c) /\ UniqueOK(c) /\ HoldOK(c) /\ UserOK(c)
          /\ Steady(c) /\ phase \in Nat /\ Len(parents[id]) \in Nat
          /\ \A k \in Id : KeepsUser(c, k) /\ NoNewUser(c, k)
      BY <1>1, BaseFacts DEF ClientInv, ClientOK
    <2>2. PhaseOK(c)'
      BY <1>2, <2>1, BaseFacts, PhaseStays
    <2>3. <<c, p>> \notin crossed' =>
             /\ \A n \in 1 .. Len(parents[id]) : parents[id][n].client # c
             /\ \A n \in 1 .. Len(inbox[c]) : inbox[c][n].kind = "reply" => inbox[c][n].id # id
      BY <1>1, <1>2, <2>1, NothingOut
    <2>4. AskOK(c)'
      <3> SUFFICES ASSUME NEW k \in Id, NEW n \in 1 .. Len(parents'[k]),
                          parents'[k][n].client = c
                   PROVE  /\ c \in Curr => /\ parents'[k][n].phase <= phase'
                                           /\ parents'[k][n].phase = phase' => cphase'[c] = phase'
                          /\ c \in Visi \intersect Curr => cphase'[c] = parents'[k][n].phase
                          /\ OfPhase(c, parents[k][n].phase)' /\ ~Crossed(k, c)' =>
                               /\ c \in Visi => inst'[k].pair \in pend'[c]
                               /\ \A j \in 1 .. Len(parents'[k]) :
                                     parents'[k][j].client = c /\ OfPhase(c, parents[k][j].phase)'
                                     => j = n
        BY DEF AskOK
      <3>1. CASE k # id
        <4>1. parents'[k] = parents[k] /\ inst'[k] = inst[k]
          BY <1>1, <3>1
        <4>2. Crossed(k, c) => Crossed(k, c)'
          BY <1>2, <4>1 DEF Crossed
        <4> QED
          BY <1>2, <2>1, <4>1, <4>2 DEF AskOK, OfPhase
      <3>2. CASE k = id /\ n # Len(parents[id]) + 1
        <4>1. n \in 1 .. Len(parents[id]) /\ parents'[id][n] = parents[id][n]
          BY <1>1, <2>1, <3>2
        <4>2. /\ c \in Curr => /\ parents[id][n].phase <= phase
                               /\ parents[id][n].phase = phase => cphase[c] = phase
              /\ c \in Visi \intersect Curr => cphase[c] = parents[id][n].phase
          BY <2>1, <3>2, <4>1 DEF AskOK
        <4>3. Crossed(id, c)'
          BY <1>1, <2>3, <3>2, <4>1 DEF Crossed
        <4> QED
          BY <1>2, <3>2, <4>1, <4>2, <4>3
      <3>3. CASE k = id /\ n = Len(parents[id]) + 1
        <4>1. parents'[id][n].phase = IF c \in Curr THEN phase ELSE NoPhase
          BY <1>1, <1>2, <3>3 DEF RequestOf
        <4>2. ASSUME ~Crossed(id, c)', NEW j \in 1 .. Len(parents'[id]), parents'[id][j].client = c
              PROVE  j = n
          <5>1. \A i \in 1 .. Len(parents[id]) : parents[id][i].client # c
            BY <1>1, <2>3, <4>2 DEF Crossed
          <5>2. j \notin 1 .. Len(parents[id])
            BY <1>1, <4>2, <5>1
          <5> QED
            BY <1>1, <2>1, <3>3, <5>2
        <4>3. c \in Visi => inst'[id].pair \in pend'[c]
          BY <1>1, <1>2
        <4> QED
          BY <1>2, <2>1, <3>3, <4>1, <4>2, <4>3
      <3> QED
        BY <3>1, <3>2, <3>3
    <2>5. MailOK(c)' /\ UniqueOK(c)'
      <3>1. NoNewMail(c, 0)
        BY <1>1, BaseFacts DEF NoNewMail
      <3>2. pend[c] \subseteq pend'[c]
        BY <1>2
      <3> QED
        BY <2>1, <3>1, <3>2, MailStays
    <2>6. HoldOK(c)'
      <3>1. ASSUME NEW k \in hold[c] PROVE HeldOK(c, k)'
        <4>1. k \in Id /\ k < nextId
          BY <2>1, BaseFacts DEF PhaseOK
        <4>2. c \in PC => k # id
          BY <1>1, <3>1, <4>1, BaseFacts DEF Asks
        <4>3. c \in PC => NoNewRequest(c, k)
          BY <1>1, <4>1, <4>2
        <4>4. \A n \in 1 .. Len(inbox'[c]) : IsOut(c, k, inbox'[c][n]) =>
                 \E i \in 1 .. Len(inbox[c]) : inbox'[c][n] = inbox[c][i]
          BY <1>1
        <4> QED
          BY <2>1, <4>1, <4>3, <4>4, HeldGrown
      <3> QED
        BY <1>2, <3>1 DEF HoldOK
    <2>7. UserOK(c)'
      <3>1. ASSUME NEW k \in Id PROVE UsedOK(c, k)'
        <4>1. UsedOK(c, k)
          BY <2>1 DEF UserOK
        <4> QED
          BY <1>1, <1>2, <2>1, <4>1, UsedStays
      <3> QED
        BY <3>1 DEF UserOK
    <2> QED
      BY <2>2, <2>4, <2>5, <2>6, <2>7 DEF ClientOK
  <1> QED
    BY <1>3, <1>4 DEF ClientInv

(* A request whose value is decided is answered at once.  Its answer is the *)
(* only one for the value, unless it crosses another; and if it is granted  *)
(* then c is a user.                                                        *)
LEMMA AnsweredClient ==
    ASSUME BaseInv, BaseInv', ClientInv, NEW c \in Client, NEW p \in Pair, Asks(c, p),
           NEW id \in Id, NEW ok \in BOOLEAN, ~Stale(c), inst[id].live, inst[id].pair = p,
           val[id] = IF ok THEN "success" ELSE "failure",
           Send(c, Reply(id, p, ok, RequestOf(c).phase)),
           \A x \in Client : Steady(x),
           \A x \in Client : \A k \in Id : KeepsUser(x, k) /\ NoNewRequest(x, k),
           \A x \in Client : \A k \in Id : x # c \/ k # id => NoNewUser(x, k),
           ok => c \in UsersOf(id, c)', ~ok => NoNewUser(c, id),
           UNCHANGED <<nextId, val>>, inst'[id].pair = p
    PROVE  ClientInv'
  <1>1. /\ pend'[c] = pend[c] \union {p}
        /\ \A x \in Client \ {c} : pend'[x] = pend[x]
        /\ UNCHANGED <<phase, cphase, ended, hold, life>>
        /\ crossed \subseteq crossed' /\ (Outstanding(c, p) => <<c, p>> \in crossed')
        /\ (c \in Curr => cphase[c] = phase) /\ life[c] = "open"
    BY DEF Asks, Stale
  <1>2. RequestOf(c).phase \in 0 .. NoPhase /\ (c \in Curr => RequestOf(c).phase = phase)
    BY <1>1, BaseParts, RequestIsTyped DEF RequestOf
  <1>3. PICK m \in Answers : m = Reply(id, p, ok, RequestOf(c).phase)
    <2>1. id \in 0 .. MaxId
      BY InstancesAssumption DEF Id
    <2> QED
      BY <1>2, <2>1 DEF Reply, Answers
  <1>4. /\ m.kind = "reply" /\ m.id = id /\ m.pair = p /\ m.ok = ok
        /\ (c \in Curr => m.phase = phase)
    BY <1>2, <1>3 DEF Reply
  <1>5. /\ \A x \in Client \ {c} : inbox'[x] = inbox[x]
        /\ inbox'[c] = Append(inbox[c], m)
    BY <1>3 DEF Send, BaseInv, TypeOK
  <1>6. PICK q \in Seq(Answers) : inbox'[c] = inbox[c] \o q /\ Len(q) = 1 /\ q[1] = m
    BY <1>5, SentOne
  <1>7. ASSUME NEW x \in Client, x # c PROVE ClientOK(x)'
    <2>1. Untouched(x)
      BY <1>1, <1>5, <1>7 DEF Untouched
    <2> QED
      BY <2>1, UntouchedStays DEF ClientInv
  <1>8. ClientOK(c)'
    <2>1. /\ PhaseOK(c) /\ AskOK(c) /\ MailOK(c) /\ UniqueOK(c) /\ HoldOK(c) /\ UserOK(c)
          /\ Steady(c) /\ id < nextId /\ phase \in Nat
          /\ \A k \in Id : NoNewRequest(c, k) /\ KeepsUser(c, k)
          /\ \A k \in Id : k # id => NoNewUser(c, k)
      BY BaseFacts DEF ClientInv, ClientOK
    <2>2. /\ \A n \in 1 .. Len(inbox[c]) : n \in 1 .. Len(inbox'[c]) /\ inbox'[c][n] = inbox[c][n]
          /\ \A j \in 1 .. Len(q) : \E n \in 1 .. Len(inbox'[c]) : inbox'[c][n] = q[j]
          /\ \A n \in 1 .. Len(inbox'[c]) :
                \/ n \in 1 .. Len(inbox[c]) /\ inbox'[c][n] = inbox[c][n]
                \/ \E j \in 1 .. Len(q) : inbox'[c][n] = q[j]
      BY <1>6, OldMail
    <2>3. \A j \in 1 .. Len(q) : q[j] = m /\ j = 1
      BY <1>6
    <2>4. PhaseOK(c)'
      BY <1>1, <2>1, BaseFacts, PhaseStays
    <2>5. AskOK(c)'
      <3>1. \A k \in Id : \A n \in 1 .. Len(parents[k]) :
               /\ c \in Visi /\ parents[k][n].client = c
               /\ OfPhase(c, parents[k][n].phase) /\ <<c, inst[k].pair>> \notin crossed'
               => inst[k].pair \in pend'[c]
        BY <1>1, <2>1 DEF AskOK, Crossed
      <3> QED
        BY <2>1, <3>1, AskStays
    <2>6. MailOK(c)' /\ UniqueOK(c)'
      <3>1. ReplyOK(c, m)'
        <4>1. /\ m.id \in Id /\ m.id < nextId' /\ m.pair = inst'[m.id].pair
              /\ val'[m.id] = IF m.ok THEN "success" ELSE "failure"
              /\ m.pair \in pend'[c] /\ phase' = phase /\ cphase'[c] = cphase[c]
          BY <1>1, <1>4, <2>1
        <4>2. m.ok => c \in UsersOf(m.id, c)'
          BY <1>4 DEF UsersOf
        <4>3. /\ c \in Curr => m.phase <= phase' /\ (m.phase = phase' => cphase'[c] = phase')
              /\ c \in Visi \intersect Curr => cphase'[c] = m.phase
          BY <1>1, <1>4, <2>1
        <4> QED
          BY <4>1, <4>2, <4>3 DEF ReplyOK
      <3>2. ASSUME NEW k \in Id, NEW j \in 1 .. Len(q), IsOut(c, k, q[j]), ~Crossed(k, c)'
            PROVE  /\ \A i \in 1 .. Len(q) : IsOut(c, k, q[i]) => i = j
                   /\ \A n \in 1 .. Len(inbox[c]) : ~IsOut(c, k, inbox[c][n])
        <4>1. k = id
          BY <1>4, <2>3, <3>2 DEF IsOut
        <4>2. ~Outstanding(c, p)
          BY <1>1, <3>2, <4>1 DEF Crossed
        <4>3. \A n \in 1 .. Len(inbox[c]) : inbox[c][n].kind = "reply" => inbox[c][n].id # id
          BY <2>1, <4>2, NothingOut
        <4> QED
          BY <2>3, <4>1, <4>3 DEF IsOut
      <3>3. pend[c] \subseteq pend'[c]
        BY <1>1
      <3>4. \A a \in Answers : (\E j \in 1 .. Len(q) : q[j] = a) => ReplyOK(c, a)'
        BY <2>3, <3>1
      <3> QED
        BY <1>6, <2>1, <3>2, <3>3, <3>4, MailGrown
    <2>7. HoldOK(c)'
      <3>1. ASSUME NEW k \in hold[c] PROVE HeldOK(c, k)'
        <4>1. k \in Id
          BY BaseFacts
        <4>2. c \in PC => k # id
          BY <3>1, <4>1 DEF Asks
        <4>3. c \in PC => \A n \in 1 .. Len(inbox'[c]) : IsOut(c, k, inbox'[c][n]) =>
                 \E i \in 1 .. Len(inbox[c]) : inbox'[c][n] = inbox[c][i]
          BY <1>4, <2>2, <2>3, <4>2 DEF IsOut
        <4> QED
          BY <2>1, <4>1, <4>3, HeldGrown
      <3> QED
        BY <1>1, <3>1 DEF HoldOK
    <2>8. UserOK(c)'
      <3>1. \A n \in 1 .. Len(inbox[c]) : \E k \in 1 .. Len(inbox'[c]) : inbox'[c][k] = inbox[c][n]
        BY <2>2
      <3>2. ASSUME NEW k \in Id, NoNewUser(c, k) PROVE UsedOK(c, k)'
        <4>1. UsedOK(c, k)
          BY <2>1 DEF UserOK
        <4> QED
          BY <1>1, <2>1, <3>1, <3>2, <4>1, UsedStays
      <3>3. ASSUME ok PROVE UsedOK(c, id)'
        <4>1. PICK n \in 1 .. Len(inbox'[c]) : inbox'[c][n] = m
          BY <1>6, <2>2
        <4>2. IsOut(c, id, inbox[c][n])' /\ inbox'[c][n].ok
          BY <1>1, <1>4, <3>3, <4>1 DEF IsOut, OfPhase
        <4>3. Fresh(c)'
          BY <1>1 DEF Fresh, OfPhase
        <4> QED
          BY <4>1, <4>2, <4>3 DEF UsedOK
      <3> QED
        BY <2>1, <3>2, <3>3 DEF UserOK
    <2> QED
      BY <2>4, <2>5, <2>6, <2>7, <2>8 DEF ClientOK
  <1> QED
    BY <1>7, <1>8 DEF ClientInv

(* enableDataRequest keeps ClientInv, whatever its outcome.                 *)
LEMMA EnableClient ==
    ASSUME BaseInv, BaseInv', ClientInv, NEW c \in Client, NEW p \in Pair, Enable(c, p)
    PROVE  ClientInv'
  <1>1. Request(c, p)
    BY DEF Enable
  <1>2. /\ pend' = [pend EXCEPT ![c] = @ \union {p}]
        /\ \/ TooLate(c, p)
           \/ \E id \in Id : Asked(c, p, id) \/ Granted(c, p, id) \/ Refused(c, p, id)
    BY <1>1, RequestDoes
  <1>3. Asks(c, p)
    <2>1. pend'[c] = pend[c] \union {p} /\ \A x \in Client \ {c} : pend'[x] = pend[x]
      BY <1>2, BaseParts DEF ClientTypes
    <2> QED
      BY <2>1 DEF Enable, Asks
  <1>4. CASE TooLate(c, p)
    BY <1>3, <1>4, TooLateClient
  <1>5. ASSUME NEW id \in Id, Asked(c, p, id) PROVE ClientInv'
    BY <1>3, <1>5, AskedClient
  <1>6. ASSUME NEW id \in Id, Granted(c, p, id) PROVE ClientInv'
    <2> DEFINE reqs == <<RequestOf(c)>>
    <2>1. /\ ~Stale(c) /\ inst[id].live /\ inst[id].pair = p /\ val[id] = "success"
          /\ Send(c, Reply(id, p, TRUE, RequestOf(c).phase))
          /\ Ready(id, reqs) /\ UNCHANGED <<nextId, val, parents>>
      BY <1>6 DEF Granted
    <2>2. RequestOf(c) \in Requests /\ RequestOf(c).client = c
      BY BaseParts, RequestIsTyped
    <2>3. reqs \in Seq(Requests) /\ reqs # <<>> /\ ToSet(reqs) = {RequestOf(c)}
      BY <2>2 DEF ToSet
    <2> HIDE DEF reqs
    <2>4. PICK r : Readied(id, {q.client : q \in ToSet(reqs)}, Len(reqs), r)
      BY <2>1, <2>3, ReadyDoes
    <2>5. {q.client : q \in ToSet(reqs)} = {c}
      BY <2>2, <2>3
    <2>6. inst \in [Id -> Instance] /\ nextId \in Nat
      BY BaseFacts DEF BaseInv, TypeOK
    <2>7. /\ inst'[id].pair = p
          /\ inst'[id].users = inst[id].users \union ({c} \intersect Curr)
          /\ inst'[id].gusers = inst[id].gusers \union ({c} \ Curr)
          /\ \A k \in Id \ {id} : inst'[k] = inst[k]
      BY <2>1, <2>4, <2>5, <2>6 DEF Readied
    <2>8. \A x \in Client : Steady(x)
      BY <1>3, <2>1, <2>6, <2>7 DEF Steady, Asks
    <2>9. \A x \in Client : \A k \in Id : KeepsUser(x, k) /\ NoNewRequest(x, k)
      BY <2>1, <2>7 DEF KeepsUser, NoNewRequest, UsersOf
    <2>10. \A x \in Client : \A k \in Id : x # c \/ k # id => NoNewUser(x, k)
      BY <2>7 DEF NoNewUser, UsersOf
    <2>11. c \in UsersOf(id, c)'
      BY <2>7 DEF UsersOf
    <2>12. val[id] = IF TRUE THEN "success" ELSE "failure"
      BY <2>1
    <2> QED
      BY <1>3, <2>1, <2>7, <2>8, <2>9, <2>10, <2>11, <2>12, AnsweredClient
  <1>7. ASSUME NEW id \in Id, Refused(c, p, id) PROVE ClientInv'
    <2>1. /\ ~Stale(c) /\ inst[id].live /\ inst[id].pair = p
          /\ Send(c, Reply(id, p, FALSE, RequestOf(c).phase))
          /\ UNCHANGED <<inst, nextId, val, parents>>
          /\ val[id] = IF FALSE THEN "success" ELSE "failure"
      BY <1>7 DEF Refused, dm
    <2>2. \A x \in Client : Steady(x)
      BY <1>3, <2>1, BaseFacts DEF Steady, Asks
    <2>3. \A x \in Client : \A k \in Id : KeepsUser(x, k) /\ NoNewRequest(x, k) /\ NoNewUser(x, k)
      BY <2>1 DEF KeepsUser, NoNewRequest, NoNewUser, UsersOf
    <2>4. inst'[id].pair = p
      BY <2>1
    <2> QED
      BY <1>3, <2>1, <2>2, <2>3, <2>4, AnsweredClient
  <1> QED
    BY <1>2, <1>4, <1>5, <1>6, <1>7

(* A decision: the requests for the value are gone, their clients are users *)
(* if it was granted, and a request of a phase that is over is recorded.    *)
LEMMA AnswerFacts ==
    ASSUME BaseInv, NEW id \in Id, NEW ok \in BOOLEAN, Answer(id, ok)
    PROVE  /\ \A x \in Client : Steady(x)
           /\ \A x \in Client : \A k \in Id : KeepsUser(x, k) /\ NoNewRequest(x, k)
           /\ \A x \in Client : \A k \in Id : k # id => NoNewUser(x, k)
           /\ \A x \in Client : \/ NoNewUser(x, id)
                                \/ ok /\ \E n \in 1 .. Len(parents[id]) : parents[id][n].client = x
           /\ ok => \A x \in Client : \A n \in 1 .. Len(parents[id]) :
                 parents[id][n].client = x =>
                     /\ x \in UsersOf(id, x)'
                     /\ OfPhase(x, parents[id][n].phase) \/ <<x, inst[id].pair>> \in crossed'
           /\ UNCHANGED <<phase, nextId, clients>> /\ val[id] = "undecided"
           /\ inst'[id].pair = inst[id].pair /\ inst[id].pair \in Pair
           /\ val'[id] = IF ok THEN "success" ELSE "failure"
           /\ crossed \subseteq crossed' /\ inst[id].live /\ id < nextId
           /\ Tell(id, ok)
  <1> DEFINE reqs == parents[id]
             who == {q.client : q \in ToSet(reqs)}
  <1>1. /\ val[id] = "undecided"
        /\ val' = [val EXCEPT ![id] = IF ok THEN "success" ELSE "failure"]
        /\ parents' = [parents EXCEPT ![id] = <<>>]
        /\ Tell(id, ok)
        /\ UNCHANGED <<phase, nextId, clients>>
        /\ \/ /\ ok /\ Ready(id, parents[id])
              /\ crossed' = crossed \union
                   {<<r.client, inst[id].pair>> : r \in {q \in ToSet(parents[id]) :
                                      q.client \in Curr /\ q.phase # phase}}
           \/ ~ok /\ UNCHANGED <<dm, crossed>>
    BY DEF Answer
  <1>2. /\ inst[id].live /\ id < nextId /\ inst[id].pair \in Pair /\ nextId \in Nat
        /\ reqs \in Seq(Requests) /\ Len(reqs) \in Nat /\ inst \in [Id -> Instance]
        /\ val \in [Id -> {"none", "undecided", "success", "failure"}]
        /\ parents \in [Id -> Seq(Requests)]
    BY <1>1, BaseFacts DEF BaseInv, TypeOK, Instance, Requests
  <1>3. reqs # <<>> /\ \A n \in 1 .. Len(reqs) : reqs[n] \in ToSet(reqs)
    <2>1. reqs # <<>>
      BY <1>1 DEF BaseInv, InstanceInv
    <2>2. DOMAIN reqs = 1 .. Len(reqs)
      BY <1>2
    <2> QED
      BY <2>1, <2>2 DEF ToSet
  <1>4. \A q \in ToSet(reqs) : \E n \in 1 .. Len(reqs) : reqs[n] = q
    BY <1>2 DEF ToSet
  <1>5. /\ parents'[id] = <<>> /\ \A k \in Id \ {id} : parents'[k] = parents[k] /\ val'[k] = val[k]
        /\ val'[id] = IF ok THEN "success" ELSE "failure"
    BY <1>1, <1>2
  <1>6. /\ inst'[id].pair = inst[id].pair /\ \A k \in Id \ {id} : inst'[k] = inst[k]
        /\ inst'[id].users = IF ok THEN inst[id].users \union (who \intersect Curr)
                             ELSE inst[id].users
        /\ inst'[id].gusers = IF ok THEN inst[id].gusers \union (who \ Curr)
                              ELSE inst[id].gusers
    <2>1. CASE ok
      <3>1. Ready(id, reqs)
        BY <1>1, <2>1
      <3>2. PICK r : Readied(id, who, Len(reqs), r)
        BY <1>2, <1>3, <3>1, ReadyDoes
      <3> HIDE DEF who
      <3> QED
        BY <1>2, <2>1, <3>2 DEF Readied
    <2>2. CASE ~ok
      BY <1>1, <2>2 DEF dm
    <2> QED
      BY <2>1, <2>2
  <1> HIDE DEF reqs
  <1>7. \A n \in 1 .. Len(reqs) : reqs[n].client \in who
    BY <1>3
  <1>8. \A x \in who : \E n \in 1 .. Len(reqs) : reqs[n].client = x
    BY <1>4
  <1> HIDE DEF who
  <1>9. crossed \subseteq crossed'
    BY <1>1
  <1>10. ASSUME NEW x \in Client PROVE Steady(x)
    BY <1>1, <1>2, <1>5, <1>6, <1>9 DEF Steady, clients
  <1>11. \A x \in Client : \A k \in Id : KeepsUser(x, k) /\ (k # id => NoNewUser(x, k))
    BY <1>6 DEF KeepsUser, NoNewUser, UsersOf
  <1>12. \A x \in Client : \A k \in Id : NoNewRequest(x, k)
    <2>1. Len(parents'[id]) = 0
      BY <1>5
    <2> QED
      BY <1>5, <2>1 DEF NoNewRequest
  <1>13. ASSUME NEW x \in Client, ~NoNewUser(x, id)
         PROVE  ok /\ \E n \in 1 .. Len(reqs) : reqs[n].client = x
    <2>1. ok /\ x \in who
      BY <1>6, <1>13 DEF NoNewUser, UsersOf
    <2> QED
      BY <1>8, <2>1
  <1>14. ASSUME ok, NEW x \in Client, NEW n \in 1 .. Len(reqs), reqs[n].client = x
         PROVE  /\ x \in UsersOf(id, x)'
                /\ OfPhase(x, reqs[n].phase) \/ <<x, inst[id].pair>> \in crossed'
    <2>1. x \in UsersOf(id, x)'
      BY <1>6, <1>7, <1>14 DEF UsersOf
    <2>2. CASE OfPhase(x, reqs[n].phase)
      BY <2>1, <2>2
    <2>3. CASE ~OfPhase(x, reqs[n].phase)
      <3>1. reqs[n] \in ToSet(reqs) /\ reqs[n].client \in Curr /\ reqs[n].phase # phase
        BY <1>3, <1>14, <2>3 DEF OfPhase
      <3>2. <<reqs[n].client, inst[id].pair>> \in crossed'
        BY <1>1, <1>14, <3>1 DEF reqs
      <3> QED
        BY <1>14, <2>1, <3>2
    <2> QED
      BY <2>2, <2>3
  <1> QED
    BY <1>1, <1>2, <1>5, <1>6, <1>9, <1>10, <1>11, <1>12, <1>13, <1>14 DEF reqs

(* Nobody uses, and no reply of a phase that is not over is about, a value  *)
(* that is not decided.                                                     *)
LEMMA NothingDecided ==
    ASSUME BaseInv, NEW x \in Client, ClientOK(x), NEW id \in Id, val[id] = "undecided"
    PROVE  /\ ~(x \in UsersOf(id, x))
           /\ \A n \in 1 .. Len(inbox[x]) : ~IsOut(x, id, inbox[x][n])
           /\ id \in hold[x] => ~Fresh(x) \/ Crossed(id, x)
  <1>1. ~(x \in UsersOf(id, x))
    BY BaseFacts
  <1>2. ASSUME NEW n \in 1 .. Len(inbox[x]), IsOut(x, id, inbox[x][n])
        PROVE  FALSE
    <2>1. inbox[x][n] \in Answers
      BY <1>2, BaseFacts DEF IsOut, Notices
    <2>2. ReplyOK(x, inbox[x][n])
      BY <2>1 DEF ClientOK, MailOK
    <2> QED
      BY <1>2, <2>2 DEF ReplyOK, IsOut
  <1>3. id \in hold[x] => ~Fresh(x) \/ Crossed(id, x)
    BY <1>1 DEF ClientOK, HoldOK, HeldOK
  <1> QED
    BY <1>1, <1>2, <1>3

(* Each request of x is told of the decision, once.                         *)
LEMMA ToldMail ==
    ASSUME BaseInv, BaseInv', NEW x \in Client, ClientOK(x), NEW id \in Id, NEW ok \in BOOLEAN,
           Answer(id, ok), NEW q \in Seq(Answers), ToRequests(q, x, id, ok),
           inbox'[x] = inbox[x] \o q
    PROVE  MailOK(x)' /\ UniqueOK(x)'
  <1>1. /\ Steady(x) /\ \A k \in Id : KeepsUser(x, k)
        /\ ok => \A n \in 1 .. Len(parents[id]) : parents[id][n].client = x =>
                    x \in UsersOf(id, x)'
        /\ phase' = phase /\ UNCHANGED <<nextId, clients>> /\ val[id] = "undecided"
        /\ inst'[id].pair = inst[id].pair /\ inst[id].pair \in Pair
        /\ val'[id] = IF ok THEN "success" ELSE "failure"
        /\ crossed \subseteq crossed' /\ id < nextId
    BY AnswerFacts
  <1>2. /\ MailOK(x) /\ UniqueOK(x) /\ AskOK(x) /\ UNCHANGED <<cphase, pend, life>>
        /\ phase' = phase
    BY <1>1 DEF ClientOK, clients
  <1>3. PICK at \in [1 .. Len(q) -> 1 .. Len(parents[id])] :
            /\ \A j \in 1 .. Len(q) :
                  /\ parents[id][at[j]].client = x
                  /\ q[j] = Reply(id, inst[id].pair, ok, parents[id][at[j]].phase)
            /\ \A n \in 1 .. Len(parents[id]) :
                  parents[id][n].client = x => \E j \in 1 .. Len(q) : at[j] = n
            /\ \A j, l \in 1 .. Len(q) : at[j] = at[l] => j = l
    BY DEF ToRequests
  <1>4. ASSUME NEW j \in 1 .. Len(q)
        PROVE  /\ at[j] \in 1 .. Len(parents[id]) /\ parents[id][at[j]].client = x
               /\ q[j].kind = "reply" /\ q[j].id = id /\ q[j].pair = inst[id].pair
               /\ q[j].ok = ok /\ q[j].phase = parents[id][at[j]].phase
    <2>1. at[j] \in 1 .. Len(parents[id]) /\ parents[id][at[j]].client = x
      BY <1>3
    <2>2. q[j] = Reply(id, inst[id].pair, ok, parents[id][at[j]].phase)
      BY <1>3
    <2> QED
      BY <2>1, <2>2 DEF Reply
  <1>5. ASSUME NEW m \in Answers, NEW j \in 1 .. Len(q), q[j] = m
        PROVE  ReplyOK(x, m)'
    <2>1. /\ at[j] \in 1 .. Len(parents[id]) /\ parents[id][at[j]].client = x
          /\ m.kind = "reply" /\ m.id = id /\ m.pair = inst[id].pair
          /\ m.ok = ok /\ m.phase = parents[id][at[j]].phase
      BY <1>4, <1>5
    <2>2. /\ x \in Curr => m.phase <= phase /\ (m.phase = phase => cphase[x] = phase)
          /\ x \in Visi \intersect Curr => cphase[x] = m.phase
          /\ OfPhase(x, m.phase) /\ ~Crossed(id, x) => (x \in Visi => inst[id].pair \in pend[x])
      BY <1>2, <2>1 DEF AskOK
    <2>3. m.ok => x \in UsersOf(m.id, x)'
      <3>1. ok => x \in UsersOf(id, x)'
        BY <1>1, <2>1
      <3> QED
        BY <2>1, <3>1 DEF UsersOf
    <2>4. ~Crossed(m.id, x)' => ~Crossed(id, x)
      BY <1>1, <2>1 DEF Crossed
    <2>5. OfPhase(x, m.phase)' <=> OfPhase(x, m.phase)
      BY <1>2 DEF OfPhase
    <2> QED
      BY <1>1, <1>2, <2>1, <2>2, <2>3, <2>4, <2>5 DEF ReplyOK
  <1>6. ASSUME NEW k \in Id, NEW j \in 1 .. Len(q), IsOut(x, k, q[j]), ~Crossed(k, x)'
        PROVE  /\ \A l \in 1 .. Len(q) : IsOut(x, k, q[l]) => l = j
               /\ \A n \in 1 .. Len(inbox[x]) : ~IsOut(x, k, inbox[x][n])
    <2>1. k = id /\ OfPhase(x, parents[id][at[j]].phase) /\ ~Crossed(id, x)
      BY <1>1, <1>4, <1>6 DEF IsOut, Crossed
    <2>2. ASSUME NEW l \in 1 .. Len(q), IsOut(x, k, q[l]) PROVE l = j
      <3>1. OfPhase(x, parents[id][at[l]].phase)
        BY <1>4, <2>2 DEF IsOut
      <3>2. at[l] = at[j]
        BY <1>2, <1>4, <2>1, <3>1 DEF AskOK
      <3> QED
        BY <1>3, <3>2
    <2>3. \A n \in 1 .. Len(inbox[x]) : ~IsOut(x, k, inbox[x][n])
      BY <1>1, <2>1, NothingDecided
    <2> QED
      BY <2>2, <2>3
  <1> QED
    BY <1>1, <1>2, <1>5, <1>6, MailGrown

(* updateWithEnableCallback keeps ClientInv.                                *)
LEMMA AnswerClient ==
    ASSUME BaseInv, BaseInv', ClientInv, NEW id \in Id, NEW ok \in BOOLEAN, Answer(id, ok)
    PROVE  ClientInv'
  <1> SUFFICES ASSUME NEW x \in Client PROVE ClientOK(x)'
    BY DEF ClientInv
  <1>1. /\ Steady(x) /\ \A k \in Id : KeepsUser(x, k) /\ NoNewRequest(x, k)
        /\ \A k \in Id : k # id => NoNewUser(x, k)
        /\ \/ NoNewUser(x, id)
           \/ ok /\ \E n \in 1 .. Len(parents[id]) : parents[id][n].client = x
        /\ ok => \A n \in 1 .. Len(parents[id]) : parents[id][n].client = x =>
              OfPhase(x, parents[id][n].phase) \/ <<x, inst[id].pair>> \in crossed'
        /\ UNCHANGED <<phase, nextId, clients>> /\ val[id] = "undecided"
        /\ inst'[id].pair = inst[id].pair /\ inst[id].pair \in Pair
        /\ crossed \subseteq crossed'
        /\ Tell(id, ok)
    BY AnswerFacts
  <1>2. /\ PhaseOK(x) /\ AskOK(x) /\ MailOK(x) /\ UniqueOK(x) /\ HoldOK(x) /\ UserOK(x)
        /\ UNCHANGED <<phase, cphase, ended, pend, hold, life>> /\ ClientOK(x)
    BY <1>1 DEF ClientInv, ClientOK, clients
  <1>3. PICK q \in Seq(Answers) : q = Replies(x, id, ok)
    BY RepliesFacts DEF BaseInv
  <1>4. ToRequests(q, x, id, ok)
    BY <1>3, RepliesFacts DEF BaseInv
  <1>5. inbox'[x] = IF life[x] = "gone" THEN inbox[x] ELSE inbox[x] \o q
    BY <1>1, <1>3 DEF Tell
  <1>6. PhaseOK(x)'
    BY <1>1, <1>2, BaseFacts, PhaseStays
  <1>7. AskOK(x)'
    <2>1. \A k \in Id : \A n \in 1 .. Len(parents[k]) :
               /\ x \in Visi /\ parents[k][n].client = x
               /\ OfPhase(x, parents[k][n].phase) /\ <<x, inst[k].pair>> \notin crossed'
               => inst[k].pair \in pend'[x]
      BY <1>1, <1>2 DEF AskOK, Crossed
    <2> QED
      BY <1>1, <1>2, <2>1, AskStays
  <1>8. MailOK(x)' /\ UniqueOK(x)'
    <2>1. CASE life[x] = "gone"
      <3>1. NoNewMail(x, 0)
        BY <1>5, <2>1, BaseFacts DEF NoNewMail
      <3> QED
        BY <1>1, <1>2, <3>1, MailStays
    <2>2. CASE life[x] # "gone"
      BY <1>2, <1>4, <1>5, <2>2, ToldMail
    <2> QED
      BY <2>1, <2>2
  <1>9. /\ \A n \in 1 .. Len(inbox[x]) : \E k \in 1 .. Len(inbox'[x]) : inbox'[x][k] = inbox[x][n]
        /\ \A n \in 1 .. Len(inbox'[x]) :
              \/ n \in 1 .. Len(inbox[x]) /\ inbox'[x][n] = inbox[x][n]
              \/ inbox'[x][n].id = id
    <2>1. CASE life[x] = "gone"
      BY <1>5, <2>1
    <2>2. CASE life[x] # "gone"
      <3>1. /\ \A n \in 1 .. Len(inbox[x]) :
                  n \in 1 .. Len(inbox'[x]) /\ inbox'[x][n] = inbox[x][n]
            /\ \A n \in 1 .. Len(inbox'[x]) :
                  \/ n \in 1 .. Len(inbox[x]) /\ inbox'[x][n] = inbox[x][n]
                  \/ \E j \in 1 .. Len(q) : inbox'[x][n] = q[j]
        BY <1>5, <2>2, OldMail
      <3>2. ASSUME NEW j \in 1 .. Len(q) PROVE q[j].id = id
        <4>1. \E n \in 1 .. Len(parents[id]) :
                 q[j] = Reply(id, inst[id].pair, ok, parents[id][n].phase)
          BY <1>4 DEF ToRequests
        <4> QED
          BY <4>1 DEF Reply
      <3> QED
        BY <3>1, <3>2
    <2> QED
      BY <2>1, <2>2
  <1>10. HoldOK(x)'
    <2>1. ASSUME NEW k \in hold[x] PROVE HeldOK(x, k)'
      <3>1. k \in Id
        BY BaseFacts
      <3>2. CASE k # id
        <4>1. \A n \in 1 .. Len(inbox'[x]) : IsOut(x, k, inbox'[x][n]) =>
                 \E i \in 1 .. Len(inbox[x]) : inbox'[x][n] = inbox[x][i]
          BY <1>9, <3>2 DEF IsOut
        <4> QED
          BY <1>1, <1>2, <3>1, <4>1, HeldGrown
      <3>3. CASE k = id
        <4>1. ~Fresh(x) \/ Crossed(id, x)
          BY <1>1, <1>2, <2>1, <3>3, NothingDecided
        <4>2. ~Fresh(x)' \/ Crossed(id, x)'
          BY <1>1, <1>2, <4>1 DEF Fresh, OfPhase, Crossed
        <4> QED
          BY <3>3, <4>2 DEF HeldOK
      <3> QED
        BY <3>2, <3>3
    <2> QED
      BY <1>2, <2>1 DEF HoldOK
  <1>11. UserOK(x)'
    <2>1. ASSUME NEW k \in Id, NoNewUser(x, k) PROVE UsedOK(x, k)'
      <3>1. UsedOK(x, k)
        BY <1>2 DEF UserOK
      <3> QED
        BY <1>1, <1>2, <1>9, <2>1, <3>1, UsedStays
    <2>2. ASSUME ok, NEW n \in 1 .. Len(parents[id]), parents[id][n].client = x
          PROVE  UsedOK(x, id)'
      <3> SUFFICES ASSUME ~Crossed(id, x)'
                   PROVE  /\ Fresh(x)'
                          /\ \/ \E i \in 1 .. Len(inbox'[x]) :
                                   IsOut(x, id, inbox[x][i])' /\ inbox'[x][i].ok
                             \/ life'[x] # "open" /\ inst'[id].pair \in pend'[x]
        BY DEF UsedOK
      <3>1. ~Crossed(id, x) /\ <<x, inst[id].pair>> \notin crossed'
        BY <1>1 DEF Crossed
      <3>2. OfPhase(x, parents[id][n].phase)
        BY <1>1, <2>2, <3>1
      <3>3. /\ x \in Curr => parents[id][n].phase = phase /\ cphase[x] = phase
            /\ x \in Visi => inst[id].pair \in pend[x]
        BY <1>2, <2>2, <3>1, <3>2 DEF AskOK, OfPhase
      <3>4. Fresh(x)'
        BY <1>2, <3>3 DEF Fresh, OfPhase
      <3>5. CASE life[x] = "gone"
        <4>1. x \in Visi
          BY <3>5, BaseFacts DEF Client
        <4> QED
          BY <1>1, <1>2, <3>3, <3>4, <3>5, <4>1
      <3>6. CASE life[x] # "gone"
        <4>1. PICK j \in 1 .. Len(q) :
                 q[j] = Reply(id, inst[id].pair, ok, parents[id][n].phase)
          <5>1. PICK at \in [1 .. Len(q) -> 1 .. Len(parents[id])] :
                   /\ \A j \in 1 .. Len(q) :
                         q[j] = Reply(id, inst[id].pair, ok, parents[id][at[j]].phase)
                   /\ \A i \in 1 .. Len(parents[id]) :
                         parents[id][i].client = x => \E j \in 1 .. Len(q) : at[j] = i
            BY <1>4 DEF ToRequests
          <5>2. PICK j \in 1 .. Len(q) : at[j] = n
            BY <2>2, <5>1
          <5> QED
            BY <5>1, <5>2
        <4>2. PICK i \in 1 .. Len(inbox'[x]) : inbox'[x][i] = q[j]
          BY <1>5, <3>6, OldMail
        <4>3. IsOut(x, id, inbox[x][i])' /\ inbox'[x][i].ok
          BY <1>2, <2>2, <3>2, <4>1, <4>2 DEF IsOut, OfPhase, Reply
        <4> QED
          BY <3>4, <4>3
      <3> QED
        BY <3>5, <3>6
    <2>3. UsedOK(x, id)'
      BY <1>1, <2>1, <2>2
    <2> QED
      BY <1>1, <2>1, <2>3 DEF UserOK
  <1> QED
    BY <1>6, <1>7, <1>8, <1>10, <1>11 DEF ClientOK

(* What is in a concatenation is in one of its parts.                       *)
LEMMA InEither ==
    ASSUME NEW S, NEW s \in Seq(S), NEW t \in Seq(S), NEW n \in 1 .. Len(s \o t)
    PROVE  \/ \E k \in 1 .. Len(s) : (s \o t)[n] = s[k]
           \/ \E k \in 1 .. Len(t) : (s \o t)[n] = t[k]
  <1>1. /\ Len(s) \in Nat /\ Len(t) \in Nat /\ Len(s \o t) = Len(s) + Len(t)
        /\ \A i \in 1 .. Len(s) + Len(t) :
              (s \o t)[i] = IF i <= Len(s) THEN s[i] ELSE t[i - Len(s)]
    BY ConcatProperties, LenProperties
  <1>2. CASE n <= Len(s)
    BY <1>1, <1>2
  <1>3. CASE ~(n <= Len(s))
    <2>1. n - Len(s) \in 1 .. Len(t) /\ (s \o t)[n] = t[n - Len(s)]
      BY <1>1, <1>3
    <2> QED
      BY <2>1
  <1> QED
    BY <1>2, <1>3

(* What x has in its inbox after a phase start: what it had, answers to its *)
(* requests that were cancelled, and a notice.                              *)
LEMMA StartMail ==
    ASSUME BaseInv, StartPhase, NEW x \in Client, NEW n \in 1 .. Len(inbox'[x])
    PROVE  \/ \E k \in 1 .. Len(inbox[x]) : inbox'[x][n] = inbox[x][k]
           \/ \E id \in Id : \E k \in 1 .. Len(parents[id]) :
                 /\ val[id] = "undecided" /\ parents[id][k].client = x
                 /\ inbox'[x][n] = Reply(id, inst[id].pair, FALSE, parents[id][k].phase)
           \/ inbox'[x][n] = Notice(phase')
  <1> DEFINE undecided == {id \in Id : val[id] = "undecided"}
             note == IF x \in PC THEN <<Notice(phase')>> ELSE <<>>
             S == Answers \union Notices
  <1>1. /\ phase' = phase + 1 /\ phase < MaxPhase
        /\ inbox' = [c \in Client |->
               IF c \notin Curr \/ life[c] = "gone" THEN inbox[c]
               ELSE inbox[c]
                    \o FlattenSeq([id \in Id |-> IF id \in undecided THEN Replies(c, id, FALSE)
                                               ELSE <<>>])
                    \o (IF c \in PC THEN <<Notice(phase')>> ELSE <<>>)]
    BY DEF StartPhase
  <1>2. CASE x \notin Curr \/ life[x] = "gone"
    BY <1>1, <1>2
  <1>3. CASE ~(x \notin Curr \/ life[x] = "gone")
    <2>1. inbox'[x] = inbox[x]
                \o FlattenSeq([id \in Id |-> IF id \in undecided THEN Replies(x, id, FALSE)
                                           ELSE <<>>])
                \o note
      BY <1>1, <1>3
    <2>2. [id \in Id |-> IF id \in undecided THEN Replies(x, id, FALSE) ELSE <<>>]
            = [id \in Id |-> IF val[id] = "undecided" THEN Replies(x, id, FALSE) ELSE <<>>]
      OBVIOUS
    <2>3. inbox'[x] = (inbox[x] \o Failures(x)) \o note
      BY <2>1, <2>2 DEF Failures
    <2>4. /\ Failures(x) \in Seq(Answers)
          /\ \A j \in 1 .. Len(Failures(x)) :
               \E id \in Id : \E k \in 1 .. Len(parents[id]) :
                  /\ val[id] = "undecided" /\ parents[id][k].client = x
                  /\ Failures(x)[j] = Reply(id, inst[id].pair, FALSE, parents[id][k].phase)
      BY FailuresFacts DEF BaseInv
    <2>5. inbox[x] \in Seq(S) /\ Failures(x) \in Seq(S)
      BY <2>4, BaseFacts
    <2>6. Notice(phase') \in S
      BY <1>1, BaseFacts DEF Notice, Notices
    <2>7. note \in Seq(S) /\ \A k \in 1 .. Len(note) : note[k] = Notice(phase')
      <3> HIDE DEF S
      <3>1. CASE x \in PC
        <4>1. note = <<Notice(phase')>>
          BY <3>1
        <4> HIDE DEF note
        <4> QED
          BY <2>6, <4>1
      <3>2. CASE x \notin PC
        <4>1. note = <<>>
          BY <3>2
        <4> HIDE DEF note
        <4> QED
          BY <4>1
      <3> QED
        BY <3>1, <3>2
    <2> HIDE DEF note, S
    <2>8. inbox[x] \o Failures(x) \in Seq(S)
      BY <2>5, ConcatProperties
    <2>9. \/ \E k \in 1 .. Len(inbox[x] \o Failures(x)) :
                inbox'[x][n] = (inbox[x] \o Failures(x))[k]
          \/ \E k \in 1 .. Len(note) : inbox'[x][n] = note[k]
      BY <2>3, <2>7, <2>8, InEither
    <2>10. ASSUME NEW k \in 1 .. Len(inbox[x] \o Failures(x)),
                  inbox'[x][n] = (inbox[x] \o Failures(x))[k]
           PROVE  \/ \E i \in 1 .. Len(inbox[x]) : inbox'[x][n] = inbox[x][i]
                  \/ \E i \in 1 .. Len(Failures(x)) : inbox'[x][n] = Failures(x)[i]
      BY <2>5, <2>10, InEither
    <2> QED
      BY <2>4, <2>7, <2>9, <2>10
  <1> QED
    BY <1>2, <1>3

(* What a phase start changes of the instances and of the requests.         *)
LEMMA StartFacts ==
    ASSUME BaseInv, StartPhase
    PROVE  /\ phase' = phase + 1 /\ phase \in Nat /\ phase + 1 <= MaxPhase /\ MaxPhase \in Nat
           /\ UNCHANGED <<nextId, clients, crossed>>
           /\ \A x \in Client \ Curr : inbox'[x] = inbox[x]
           /\ \A id \in Id :
                 /\ inst'[id].pair = inst[id].pair /\ inst'[id].gusers = inst[id].gusers
                 /\ inst'[id].users = {}
                 /\ parents'[id] = parents[id] \/ Len(parents'[id]) = 0
                 /\ val[id] \in {"success", "failure"} => val'[id] = val[id]
  <1> DEFINE undecided == {id \in Id : val[id] = "undecided"}
             globally == {id \in undecided : \E r \in ToSet(parents[id]) : r.client \notin Curr}
  <1>1. /\ phase < MaxPhase /\ phase' = phase + 1
        /\ inst' = [id \in Id |-> Stopped(inst[id])]
        /\ val' = [id \in Id |-> IF id \in undecided \ globally THEN "none" ELSE val[id]]
        /\ parents' = [id \in Id |-> IF id \in undecided \ globally THEN <<>> ELSE parents[id]]
        /\ inbox' = [c \in Client |->
               IF c \notin Curr \/ life[c] = "gone" THEN inbox[c]
               ELSE inbox[c]
                    \o FlattenSeq([id \in Id |-> IF id \in undecided THEN Replies(c, id, FALSE)
                                               ELSE <<>>])
                    \o (IF c \in PC THEN <<Notice(phase')>> ELSE <<>>)]
        /\ UNCHANGED <<nextId, clients, crossed>>
    BY DEF StartPhase
  <1> HIDE DEF globally
  <1>2. phase \in Nat /\ phase + 1 <= MaxPhase /\ MaxPhase \in Nat
    BY <1>1, BaseFacts
  <1>3. ASSUME NEW id \in Id
        PROVE  /\ inst'[id].pair = inst[id].pair /\ inst'[id].gusers = inst[id].gusers
               /\ inst'[id].users = {}
               /\ parents'[id] = parents[id] \/ Len(parents'[id]) = 0
               /\ val[id] \in {"success", "failure"} => val'[id] = val[id]
    <2>1. inst[id] \in Instance /\ Sound(inst[id]) /\ inst[id].old <= phase
      BY DEF BaseInv, TypeOK, InstanceInv
    <2>2. inst'[id] = Stopped(inst[id])
      BY <1>1
    <2>3. inst'[id].pair = inst[id].pair /\ inst'[id].gusers = inst[id].gusers
          /\ inst'[id].users = {}
      BY <1>1, <1>2, <2>1, <2>2, StoppedDoes
    <2>4. parents'[id] = parents[id] \/ Len(parents'[id]) = 0
      BY <1>1
    <2>5. val[id] \in {"success", "failure"} => val'[id] = val[id]
      BY <1>1
    <2> QED
      BY <2>3, <2>4, <2>5
  <1>4. \A x \in Client \ Curr : inbox'[x] = inbox[x]
    BY <1>1
  <1> QED
    BY <1>1, <1>2, <1>3, <1>4

(* A client of the current phase uses nothing of the new one, and nothing   *)
(* is on its way to it that is of the new phase.                            *)
LEMMA StartCurrent ==
    ASSUME BaseInv, BaseInv', StartPhase, NEW x \in Client, x \in Curr, ClientOK(x)
    PROVE  ClientOK(x)'
  <1>1. /\ phase' = phase + 1 /\ phase \in Nat /\ phase + 1 <= MaxPhase /\ MaxPhase \in Nat
        /\ UNCHANGED <<nextId, cphase, ended, pend, hold, life, crossed>>
        /\ \A id \in Id :
              /\ inst'[id].pair = inst[id].pair /\ inst'[id].users = {}
              /\ parents'[id] = parents[id] \/ Len(parents'[id]) = 0
        /\ NoPhase = MaxPhase + 1
    BY StartFacts DEF clients, NoPhase
  <1>2. /\ PhaseOK(x) /\ AskOK(x) /\ MailOK(x)
        /\ cphase[x] \in 0 .. phase \/ cphase[x] = NoPhase
    BY DEF ClientOK, PhaseOK
  <1>3. PhaseOK(x)'
    BY <1>1, <1>2 DEF PhaseOK
  <1>4. ASSUME NEW id \in Id, NEW n \in 1 .. Len(parents[id]), parents[id][n].client = x
        PROVE  /\ parents[id][n].phase \in Nat /\ parents[id][n].phase <= phase
               /\ x \in Visi => cphase[x] = parents[id][n].phase
    <2>1. parents[id][n] \in Requests
      BY <1>4, BaseFacts
    <2>2. parents[id][n].phase \in Nat
      BY <1>1, <2>1 DEF Requests
    <2>3. /\ x \in Curr => parents[id][n].phase <= phase
          /\ x \in Visi \intersect Curr => cphase[x] = parents[id][n].phase
      BY <1>2, <1>4 DEF AskOK
    <2> QED
      BY <2>2, <2>3
  <1>5. AskOK(x)'
    <2> SUFFICES ASSUME NEW id \in Id, NEW n \in 1 .. Len(parents'[id]),
                        parents'[id][n].client = x
                 PROVE  /\ parents'[id][n].phase <= phase' /\ parents'[id][n].phase # phase'
                        /\ x \in Visi => cphase'[x] = parents'[id][n].phase
      BY DEF AskOK, OfPhase
    <2>1. n \in 1 .. Len(parents[id]) /\ parents'[id][n] = parents[id][n]
      BY <1>1
    <2> QED
      BY <1>1, <1>4, <2>1
  <1>6. ASSUME NEW m \in Answers, NEW n \in 1 .. Len(inbox'[x]), inbox'[x][n] = m
        PROVE  /\ m.phase \in Nat /\ m.phase <= phase /\ (x \in Visi => cphase[x] = m.phase)
               /\ m.id \in Id => m.id < nextId /\ m.pair = inst[m.id].pair
    <2>1. m.kind = "reply" /\ m.phase \in Nat
      BY InstancesAssumption DEF Answers, NoPhase
    <2>2. CASE \E k \in 1 .. Len(inbox[x]) : m = inbox[x][k]
      BY <1>2, <2>1, <2>2 DEF MailOK, ReplyOK
    <2>3. ASSUME NEW id \in Id, NEW k \in 1 .. Len(parents[id]), val[id] = "undecided",
                 parents[id][k].client = x,
                 m = Reply(id, inst[id].pair, FALSE, parents[id][k].phase)
          PROVE  /\ m.phase \in Nat /\ m.phase <= phase /\ (x \in Visi => cphase[x] = m.phase)
                 /\ m.id \in Id => m.id < nextId /\ m.pair = inst[m.id].pair
      <3>1. m.id = id /\ m.pair = inst[id].pair /\ m.phase = parents[id][k].phase
        BY <2>3 DEF Reply
      <3>2. id < nextId
        BY <2>3, BaseFacts
      <3> QED
        BY <1>4, <2>3, <3>1, <3>2
    <2>4. m # Notice(phase')
      BY <2>1 DEF Notice
    <2> QED
      BY <1>6, <2>2, <2>3, <2>4, StartMail
  <1>7. MailOK(x)'
    <2> SUFFICES ASSUME NEW m \in Answers, NEW n \in 1 .. Len(inbox'[x]), inbox'[x][n] = m
                 PROVE  ReplyOK(x, m)'
      BY DEF MailOK
    <2>1. /\ m.phase \in Nat /\ m.phase <= phase /\ (x \in Visi => cphase[x] = m.phase)
          /\ m.id \in Id => m.id < nextId /\ m.pair = inst[m.id].pair
      BY <1>6
    <2>2. m.phase <= phase' /\ m.phase # phase'
      BY <1>1, <2>1
    <2> QED
      BY <1>1, <2>1, <2>2 DEF ReplyOK, OfPhase
  <1>8. UniqueOK(x)'
    <2> SUFFICES ASSUME NEW n \in 1 .. Len(inbox'[x]), NEW id \in Id, IsOut(x, id, inbox[x][n])'
                 PROVE  FALSE
      BY DEF UniqueOK
    <2>1. inbox'[x][n] \in Answers \union Notices
      <3>1. inbox'[x] \in Seq(Answers \union Notices)
        BY DEF BaseInv, TypeOK
      <3> QED
        BY <3>1, ElementOfSeq
    <2>2. inbox'[x][n] \in Answers /\ inbox'[x][n].phase = phase'
      BY <2>1 DEF IsOut, OfPhase, Notices
    <2>3. inbox'[x][n].phase \in Nat /\ inbox'[x][n].phase <= phase
      BY <1>6, <2>2
    <2> QED
      BY <1>1, <2>2, <2>3
  <1>9. HoldOK(x)'
    <2>1. ~Fresh(x)'
      BY <1>1, <1>2 DEF Fresh, OfPhase
    <2> QED
      BY <2>1 DEF HoldOK, HeldOK
  <1>10. UserOK(x)'
    BY <1>1 DEF UserOK, UsedOK, UsersOf
  <1> QED
    BY <1>3, <1>5, <1>7, <1>8, <1>9, <1>10 DEF ClientOK

(* For a client of the global phase a phase start changes nothing.          *)
LEMMA StartGlobal ==
    ASSUME BaseInv, BaseInv', StartPhase, NEW x \in Client, x \notin Curr, ClientOK(x)
    PROVE  ClientOK(x)'
  <1>1. /\ UNCHANGED <<nextId, cphase, ended, pend, hold, life, crossed>>
        /\ inbox'[x] = inbox[x]
        /\ \A id \in Id :
              /\ inst'[id].pair = inst[id].pair /\ inst'[id].gusers = inst[id].gusers
              /\ parents'[id] = parents[id] \/ Len(parents'[id]) = 0
              /\ val[id] \in {"success", "failure"} => val'[id] = val[id]
    BY StartFacts DEF clients
  <1>2. /\ PhaseOK(x) /\ AskOK(x) /\ MailOK(x) /\ UniqueOK(x) /\ HoldOK(x) /\ UserOK(x)
    BY DEF ClientOK
  <1>3. PhaseOK(x)'
    BY <1>1, <1>2 DEF PhaseOK
  <1>4. \A id \in Id : /\ Crossed(id, x)' <=> Crossed(id, x)
                       /\ UsersOf(id, x)' = UsersOf(id, x)
    BY <1>1 DEF Crossed, UsersOf
  <1>5. AskOK(x)'
    <2> SUFFICES ASSUME NEW id \in Id, NEW n \in 1 .. Len(parents'[id]),
                        parents'[id][n].client = x, ~Crossed(id, x)'
                 PROVE  /\ x \in Visi => inst'[id].pair \in pend'[x]
                        /\ \A k \in 1 .. Len(parents'[id]) : parents'[id][k].client = x => k = n
      BY DEF AskOK
    <2>1. parents'[id] = parents[id] /\ n \in 1 .. Len(parents[id]) /\ ~Crossed(id, x)
      BY <1>1, <1>4
    <2> QED
      BY <1>1, <1>2, <2>1 DEF AskOK, OfPhase
  <1>6. MailOK(x)'
    <2> SUFFICES ASSUME NEW m \in Answers, NEW n \in 1 .. Len(inbox[x]), inbox[x][n] = m
                 PROVE  ReplyOK(x, m)'
      BY <1>1 DEF MailOK
    <2>1. ReplyOK(x, m) /\ m.kind = "reply"
      BY <1>2 DEF MailOK, Answers
    <2>2. /\ m.id \in Id /\ m.id < nextId /\ m.pair = inst[m.id].pair
          /\ val[m.id] = IF m.ok THEN "success" ELSE "failure"
          /\ ~Crossed(m.id, x) =>
                /\ x \in Visi => m.pair \in pend[x]
                /\ m.ok /\ life[x] = "open" => x \in UsersOf(m.id, x)
      BY <2>1 DEF ReplyOK, OfPhase
    <2>3. val'[m.id] = val[m.id] /\ inst'[m.id].pair = inst[m.id].pair
      BY <1>1, <2>2
    <2>4. (Crossed(m.id, x)' <=> Crossed(m.id, x)) /\ UsersOf(m.id, x)' = UsersOf(m.id, x)
      BY <1>4, <2>2
    <2> QED
      BY <1>1, <2>2, <2>3, <2>4 DEF ReplyOK
  <1>7. UniqueOK(x)'
    BY <1>1, <1>2, <1>4 DEF UniqueOK, IsOut, OfPhase
  <1>8. HoldOK(x)'
    <2> SUFFICES ASSUME NEW id \in hold[x], ~Crossed(id, x)'
                 PROVE  /\ x \in UsersOf(id, x)'
                        /\ x \in PC =>
                              /\ \A n \in 1 .. Len(inbox'[x]) : ~IsOut(x, id, inbox[x][n])'
                              /\ \A n \in 1 .. Len(parents'[id]) : parents'[id][n].client # x
      BY <1>1 DEF HoldOK, HeldOK
    <2>1. id \in Id
      BY BaseFacts
    <2>2. /\ x \in UsersOf(id, x)
          /\ x \in PC =>
                /\ \A n \in 1 .. Len(inbox[x]) : ~IsOut(x, id, inbox[x][n])
                /\ \A n \in 1 .. Len(parents[id]) : parents[id][n].client # x
      BY <1>2, <1>4, <2>1 DEF HoldOK, HeldOK, Fresh, OfPhase
    <2> QED
      BY <1>1, <1>4, <2>1, <2>2 DEF IsOut, OfPhase
  <1>9. UserOK(x)'
    <2> SUFFICES ASSUME NEW id \in Id PROVE UsedOK(x, id)'
      BY DEF UserOK
    <2>1. UsedOK(x, id)
      BY <1>2 DEF UserOK
    <2> QED
      BY <1>1, <1>4, <2>1 DEF UsedOK, IsOut, OfPhase, Fresh
  <1> QED
    BY <1>3, <1>5, <1>6, <1>7, <1>8, <1>9 DEF ClientOK

(* phaseInfo::startPhase keeps ClientInv.                                   *)
LEMMA StartPhaseClient ==
    ASSUME BaseInv, BaseInv', ClientInv, StartPhase
    PROVE  ClientInv'
BY StartCurrent, StartGlobal DEF ClientInv

-----------------------------------------------------------------------------
(* ClientInv is an invariant.                                               *)
LEMMA ClientInit == Init => ClientInv
  <1> SUFFICES ASSUME Init, NEW x \in Client PROVE ClientOK(x)
    BY DEF ClientInv
  <1>1. /\ \A id \in Id : Len(parents[id]) = 0 /\ inst[id] = NoInst
        /\ Len(inbox[x]) = 0 /\ hold[x] = {} /\ cphase[x] = NoPhase
    BY DEF Init
  <1>2. PhaseOK(x) /\ HoldOK(x)
    BY <1>1 DEF PhaseOK, HoldOK
  <1>3. AskOK(x) /\ MailOK(x) /\ UniqueOK(x)
    BY <1>1 DEF AskOK, MailOK, UniqueOK
  <1>4. UserOK(x)
    <2>1. NoInst.users = {} /\ NoInst.gusers = {}
      BY DEF NoInst
    <2>2. \A id \in Id : ~(x \in UsersOf(id, x))
      BY <1>1, <2>1 DEF UsersOf
    <2> QED
      BY <2>2 DEF UserOK, UsedOK
  <1> QED
    BY <1>2, <1>3, <1>4 DEF ClientOK

(* A step that changes nothing keeps ClientInv.                             *)
LEMMA ClientStutter ==
    ASSUME BaseInv, BaseInv', ClientInv, UNCHANGED vars
    PROVE  ClientInv'
  <1> SUFFICES ASSUME NEW x \in Client PROVE ClientOK(x)'
    BY DEF ClientInv
  <1>1. /\ UNCHANGED <<phase, dm, requests>>
        /\ UNCHANGED <<cphase, ended, pend, hold, life, inbox, crossed>>
    BY DEF vars, clients
  <1>2. /\ Steady(x) /\ ClientOK(x)
        /\ \A id \in Id : NoNewRequest(x, id) /\ KeepsUser(x, id) /\ NoNewUser(x, id)
    BY <1>1, DmAlone DEF ClientInv
  <1>3. Untouched(x)
    BY <1>1, <1>2 DEF Untouched
  <1> QED
    BY <1>2, <1>3, UntouchedStays

(* Every step keeps ClientInv.                                              *)
LEMMA ClientNext ==
    ASSUME BaseInv, BaseInv', ClientInv, Next
    PROVE  ClientInv'
  <1>1. CASE \E c \in Client, p \in Pair : Enable(c, p) \/ CancelSubRequest(c, p)
    BY <1>1, EnableClient, CancelClient
  <1>2. CASE \E c \in Client, id \in Id : InActivateFilter(c, id) \/ StopMetricResource(c, id)
    BY <1>2, InActivateClient, StopClient
  <1>3. CASE \E c \in Client : Begin(c) \/ Receive(c) \/ Quit(c) \/ Exit(c)
    <2> SUFFICES ASSUME NEW c \in Client, Begin(c) \/ Receive(c) \/ Quit(c) \/ Exit(c)
                 PROVE  ClientInv'
      BY <1>3
    <2>1. CASE Begin(c) \/ Quit(c)
      BY <2>1, BeginClient, QuitClient
    <2>2. CASE Receive(c)
      BY <2>2, ReceiveVisiClient, ReceivePCClient, HearOfPhaseClient DEF Receive
    <2>3. CASE Exit(c)
      BY <2>3, DisableOnExitClient, DestroyClient DEF Exit
    <2> QED
      BY <2>1, <2>2, <2>3
  <1>4. CASE \E id \in Id, ok \in BOOLEAN : Answer(id, ok)
    BY <1>4, AnswerClient
  <1>5. CASE StartPhase
    BY <1>5, StartPhaseClient
  <1> QED
    BY <1>1, <1>2, <1>3, <1>4, <1>5 DEF Next

(* BaseInv and ClientInv hold in every reachable state.                     *)
LEMMA ClientAlways == Spec => [](BaseInv /\ ClientInv)
  <1>1. BaseInv /\ ClientInv /\ [Next]_vars => BaseInv' /\ ClientInv'
    BY BaseNext, BaseStutter, ClientNext, ClientStutter
  <1>2. Init => BaseInv /\ ClientInv
    BY BaseInit, ClientInit
  <1> QED
    BY <1>1, <1>2, PTL DEF Spec

-----------------------------------------------------------------------------
(* The theorems                                                             *)

(* What a client of a phase that is not over uses is collected for it,      *)
(* unless its own calls crossed an answer: neither the disables of other    *)
(* clients, nor late replies that are undone, nor the second disables of a  *)
(* visi that exits, nor a phase start of another phase stop it.             *)
THEOREM HeldCollected == Spec => []HeldIsCollected
  <1>1. BaseInv /\ ClientInv => HeldIsCollected
    <2> SUFFICES ASSUME BaseInv, ClientInv, NEW c \in Client, NEW id \in hold[c],
                        ~(c \in Curr /\ cphase[c] # phase), ~Crossed(id, c)
                 PROVE  /\ inst[id].live /\ inst[id].enabled /\ c \in UsersOf(id, c)
                        /\ inst[id].gdata = "active"
                        /\ c \in Curr => inst[id].data = "active"
      BY DEF HeldIsCollected
    <2>1. id \in Id
      BY BaseFacts
    <2>2. c \in UsersOf(id, c)
      BY DEF ClientInv, ClientOK, HoldOK, HeldOK, Fresh, OfPhase
    <2>3. inst[id].live /\ inst[id].enabled /\ Sound(inst[id])
      BY <2>1, <2>2, BaseFacts
    <2> QED
      BY <2>2, <2>3 DEF Sound, UsersOf
  <1> QED
    BY <1>1, ClientAlways, PTL

(* Nothing is collected for nobody: whoever is recorded as a user of an     *)
(* instance uses it or will hear that it may, but for the cases NoOrphan    *)
(* names, however enables, cancels, decisions, exits and phase starts are   *)
(* interleaved.                                                             *)
THEOREM NoneOrphaned == Spec => []NoOrphan
  <1>1. BaseInv /\ ClientInv => NoOrphan
    <2> SUFFICES ASSUME BaseInv, ClientInv PROVE NoOrphan
      OBVIOUS
    <2>1. \A id \in Id : inst[id].enabled => ~Idle(inst[id])
      BY DEF BaseInv, InstanceInv, Sound
    <2>2. ASSUME NEW id \in Id, NEW c \in Client, c \in UsersOf(id, c), ~Crossed(id, c)
          PROVE  \/ id \in hold[c]
                 \/ OkInInbox(c, id)
                 \/ life[c] # "open" /\ inst[id].pair \in pend[c]
                 \/ c \in ended
      <3>1. UsedOK(c, id)
        BY DEF ClientInv, ClientOK, UserOK
      <3>2. DOMAIN inbox[c] = 1 .. Len(inbox[c])
        BY BaseFacts
      <3> QED
        BY <2>2, <3>1, <3>2 DEF UsedOK, OkInInbox, IsOut
    <2> QED
      BY <2>1, <2>2 DEF NoOrphan
  <1> QED
    BY <1>1, ClientAlways, PTL
=============================================================================
