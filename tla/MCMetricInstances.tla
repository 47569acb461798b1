------------------------- MODULE MCMetricInstances --------------------------
(* Instance of MetricInstances for TLC: who asks for what is fixed at the   *)
(* start, either all clients for one pair, or two clients, a visi of the    *)
(* current phase and the global search, for two pairs.                      *)
EXTENDS MetricInstances

CONSTANTS v1, q2, p1,
    MaxReqLast  \* bound: requests, if the last phase is started

VARIABLE uses   \* the clients and the pairs they may ask for

MCInit ==
    /\ Init
    /\ uses \in {Client \X {p1}, {v1, q2} \X Pair}

MCNext ==
    /\ Next
    /\ uses' = uses
    /\ phase' = MaxPhase => nreq' <= MaxReqLast
    /\ \A c \in Client :
           IF \E p \in Pair : <<c, p>> \in uses
           THEN {c} \X pend'[c] \subseteq uses
           ELSE /\ life'[c] = life[c] /\ cphase'[c] = cphase[c]
                /\ Len(inbox'[c]) >= Len(inbox[c])

MCSpec == MCInit /\ [][MCNext]_<<vars, uses>>
=============================================================================
