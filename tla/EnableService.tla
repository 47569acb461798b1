---------------------------- MODULE EnableService ----------------------------
(***************************************************************************)
(* What the data manager promises the clients that enable metric-focus     *)
(* pairs, without daemons, bundles or messages: each pair has one stage,   *)
(* open, then perhaps deferred, then decided, which moves forward only;    *)
(* every listening client that wants the pair hears each move in the step  *)
(* that makes it; one that asks late hears the decision at once.  A new    *)
(* phase fails the undecided pairs of the requests made for the current    *)
(* phase, and forgets a pair nobody else wants.                            *)
(***************************************************************************)
EXTENDS Naturals, Sequences

CONSTANTS Req, MI

VARIABLES
    kind,       \* the phase type each request was made for
    wants,      \* pairs a request has asked for and that are not forgotten
    listening,  \* requests whose client still has its stream
    stage,      \* how far each pair has come
    told,       \* what each request's client heard of each pair
    last        \* the requests that were told no more will come

vars == <<kind, wants, listening, stage, told, last>>

Decided == {"success", "failure"}
Rank(s) == CASE s = "open" -> 0 [] s = "deferred" -> 1 [] s \in Decided -> 2

Init == /\ kind \in [Req -> {"CurrentPhase", "GlobalPhase"}]
        /\ wants = [r \in Req |-> {}]
        /\ listening \subseteq Req
        /\ stage = [m \in MI |-> "open"]
        /\ told = [r \in Req |-> [m \in MI |-> <<>>]]
        /\ last = {}

New(r) == wants[r] = {} /\ r \notin last /\ told[r] = [m \in MI |-> <<>>]

\* a request may be closed when each pair it wants is decided
MayClose(stages) == {r \in Req : \A m \in wants[r] : stages[m] \in Decided}

Ask(r, type, mis) ==
    /\ New(r) /\ mis # {}
    /\ kind' = [kind EXCEPT ![r] = type]
    /\ wants' = [wants EXCEPT ![r] = mis]
    /\ listening' = listening \union {r}
    /\ \E deferred \in SUBSET {m \in mis : stage[m] = "deferred"} :
          told' = [told EXCEPT ![r] = [m \in MI |->
              IF m \in deferred \union {n \in mis : stage[n] \in Decided}
              THEN <<stage[m]>> ELSE <<>>]]
    /\ \/ last' = last
       \/ last' = last \union {r} /\ \A m \in mis : stage[m] \in Decided
    /\ UNCHANGED stage

Refuse(r, mis) ==
    /\ New(r) /\ mis # {}
    /\ kind' = [kind EXCEPT ![r] = "CurrentPhase"]
    /\ listening' = listening \union {r}
    /\ told' = [told EXCEPT ![r] = [m \in MI |->
                   IF m \in mis THEN <<"failure">> ELSE <<>>]]
    /\ last' = last \union {r}
    /\ UNCHANGED <<wants, stage>>

\* a request the data manager loses
Lose(r) ==
    /\ New(r)
    /\ kind' = [kind EXCEPT ![r] = "CurrentPhase"]
    /\ listening' = listening \union {r}
    /\ UNCHANGED <<wants, stage, told, last>>

Advance(next) ==
    LET moved == {m \in MI : next[m] # stage[m]}
    IN  /\ \A m \in moved : Rank(next[m]) > Rank(stage[m])
        /\ moved # {}
        /\ stage' = next
        /\ told' = [r \in Req |-> [m \in MI |->
               IF m \in moved \intersect wants[r] /\ r \in listening
               THEN Append(told[r][m], next[m]) ELSE told[r][m]]]
        /\ \E closed \in SUBSET {r \in MayClose(next) :
                                    r \in listening /\ wants[r] \intersect moved # {}} :
              last' = last \union closed
        /\ UNCHANGED <<kind, wants, listening>>

NewPhase ==
    LET undecided == {m \in MI : stage[m] \notin Decided}
        fails(r) == IF kind[r] = "CurrentPhase"
                    THEN undecided \intersect wants[r] ELSE {}
        forgotten == {m \in undecided : \A r \in Req :
                         m \in wants[r] => kind[r] = "CurrentPhase"}
    IN  /\ told' = [r \in Req |-> [m \in MI |->
               IF m \in fails(r) /\ r \in listening
               THEN Append(told[r][m], "failure") ELSE told[r][m]]]
        /\ wants' = [r \in Req |-> wants[r] \ forgotten]
        /\ stage' = [m \in MI |-> IF m \in forgotten THEN "open" ELSE stage[m]]
        /\ UNCHANGED <<kind, listening, last>>

StopListening(rs) ==
    /\ listening' = listening \ rs
    /\ UNCHANGED <<kind, wants, stage, told, last>>

Next ==
    \/ \E r \in Req, mis \in SUBSET MI :
          \/ \E type \in {"CurrentPhase", "GlobalPhase"} : Ask(r, type, mis)
          \/ Refuse(r, mis)
    \/ \E r \in Req : Lose(r)
    \/ \E next \in [MI -> {"open", "deferred"} \union Decided] : Advance(next)
    \/ NewPhase
    \/ \E rs \in SUBSET Req : StopListening(rs)

Spec == Init /\ [][Next]_vars
=============================================================================
