----------------------------- MODULE MCDataPath -----------------------------
(***************************************************************************)
(* The stages of the data for TLC: a timer that is sampled (SharedTimer),  *)
(* the samples of processes and daemons made into the intervals of an      *)
(* instance (Collection), and intervals on their way to a visi (DataPath). *)
(* They share no variable: a behaviour uses one of them, of those that the *)
(* run is about, and leaves the others as they were built.  Followed       *)
(* bounds the histories: those with the most openings are not followed as  *)
(* far in time, nor with as many messages, as the others.  With wide       *)
(* intervals an instance is enabled once, while processes of daemon d1     *)
(* come and go; with narrow ones it is enabled again, and no process is    *)
(* new.                                                                    *)
(***************************************************************************)
EXTENDS DataPath, Collection, SharedTimer, TLC

CONSTANTS
    Stages,            \* those of the run
    d1, d2, p1, p2, p3,
    MaxTimeLast,       \* bound: time after the last opening
    MaxMailLast,       \* bound: messages for the visi thread then
    Narrow,            \* the smaller width
    MaxReadingWide,    \* bound: readings of the clock, with wide intervals
    MaxReadingFirst,   \* bound: before the instance is enabled again
    MaxReadingExited,  \* bound: with narrow ones, when a process has exited
    MaxMessages        \* bound: messages on the way to the front end

MCDaemon == {d1, d2}
MCHost == p1 :> d1 @@ p2 :> d2 @@ p3 :> d1

VARIABLE stage   \* the one that a behaviour uses

MCInit ==
    /\ Init /\ CollectionInit /\ TimerInit
    /\ stage \in Stages
    /\ stage = "timer" \/ (kind = "wall" /\ ~buffered)
    /\ stage = "collection" \/ width = Narrow

MCNext ==
    /\ \/ stage = "visi" /\ Next /\ UNCHANGED <<collectionVars, timerVars>>
       \/ stage = "collection" /\ CollectionNext /\ UNCHANGED <<vars, timerVars>>
       \/ stage = "timer" /\ TimerNext /\ UNCHANGED <<vars, collectionVars>>
    /\ stage' = stage

MCSpec == MCInit /\ [][MCNext]_<<vars, collectionVars, timerVars, stage>>

Followed ==
    /\ opened = MaxOpen => \A m \in MI : intvl[m].start <= MaxTimeLast
    /\ opened = MaxOpen => Len(mail) <= MaxMailLast
    /\ enables = 0 => live = InitialProcs
    /\ Len(toFE[d1]) + Len(toFE[d2]) <= MaxMessages
    /\ width # Narrow => /\ enables <= 1 /\ p2 \in live /\ clockNow <= MaxReadingWide
                        /\ \A d \in Daemon : toDaemon[d] \in {<<>>, <<"enable">>}
    /\ width = Narrow => waiting = Proc \ InitialProcs
    /\ width = Narrow /\ enables <= 1 => clockNow <= MaxReadingFirst
    /\ width = Narrow /\ live # InitialProcs => clockNow <= MaxReadingExited
=============================================================================
