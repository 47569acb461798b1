------------------------------- MODULE RWLock -------------------------------
(***************************************************************************)
(* rwlock of pdthread: a readers-writer lock built on a monitor with two   *)
(* conditions.  The monitor makes each call one step, except where it      *)
(* waits on a condition; a waiter that is signalled takes the monitor      *)
(* again later, after whoever came in between.  The monitor may also wake  *)
(* a waiter for no reason, as pthread conditions may.                      *)
(***************************************************************************)
EXTENDS Naturals, FiniteSets

CONSTANT Thread

ASSUME ThreadAssumption == IsFiniteSet(Thread)

VARIABLES
    preference,        \* favor_readers or favor_writers, set when it is built
    active_readers,
    active_writers,
    waiting_readers,
    waiting_writers,
    pc                 \* where each thread is in its use of the lock

counts == <<active_readers, active_writers, waiting_readers, waiting_writers>>
lockVars == <<preference, counts, pc>>

At(S) == {t \in Thread : pc[t] \in S}
Goto(t, p) == pc' = [pc EXCEPT ![t] = p]

LockInit ==
    /\ preference \in {"favor_readers", "favor_writers"}
    /\ active_readers = 0 /\ active_writers = 0
    /\ waiting_readers = 0 /\ waiting_writers = 0
    /\ pc = [t \in Thread |-> "idle"]

\* faulty variant: readers do not stand back for waiting writers
ReaderIgnoresWaiting == active_writers > 0

(* doblock of start_reading. *)
ReaderBlocks ==
    \/ active_writers > 0
    \/ preference = "favor_writers" /\ waiting_writers > 0

StartReading(t) ==
    /\ pc[t] = "idle"
    /\ IF ReaderBlocks
       THEN /\ waiting_readers' = waiting_readers + 1
            /\ Goto(t, "read_wait")
            /\ UNCHANGED active_readers
       ELSE /\ active_readers' = active_readers + 1
            /\ Goto(t, "reading")
            /\ UNCHANGED waiting_readers
    /\ UNCHANGED <<preference, active_writers, waiting_writers>>

(* The wait of start_reading ends. *)
ResumeReading(t) ==
    /\ pc[t] = "read_woken"
    /\ IF ReaderBlocks
       THEN /\ Goto(t, "read_wait")
            /\ UNCHANGED <<waiting_readers, active_readers>>
       ELSE /\ waiting_readers' = waiting_readers - 1
            /\ active_readers' = active_readers + 1
            /\ Goto(t, "reading")
    /\ UNCHANGED <<preference, active_writers, waiting_writers>>

(* doblock of start_writing. *)
WriterBlocks == active_writers > 0 \/ active_readers > 0

StartWriting(t) ==
    /\ pc[t] = "idle"
    /\ IF WriterBlocks
       THEN /\ waiting_writers' = waiting_writers + 1
            /\ Goto(t, "write_wait")
            /\ UNCHANGED active_writers
       ELSE /\ active_writers' = 1
            /\ Goto(t, "writing")
            /\ UNCHANGED waiting_writers
    /\ UNCHANGED <<preference, active_readers, waiting_readers>>

\* faulty variant: the condition is not tested again after the wait
ResumeWritingUntested(t) ==
    /\ pc[t] = "write_woken"
    /\ waiting_writers' = waiting_writers - 1
    /\ active_writers' = 1
    /\ Goto(t, "writing")
    /\ UNCHANGED <<preference, active_readers, waiting_readers>>

(* The wait of start_writing ends. *)
ResumeWriting(t) ==
    /\ pc[t] = "write_woken"
    /\ IF WriterBlocks
       THEN /\ Goto(t, "write_wait")
            /\ UNCHANGED <<waiting_writers, active_writers>>
       ELSE /\ waiting_writers' = waiting_writers - 1
            /\ active_writers' = 1
            /\ Goto(t, "writing")
    /\ UNCHANGED <<preference, active_readers, waiting_readers>>

\* faulty variant: nobody is signalled
SignalNobody(t) == Goto(t, "idle")

(* SignalCondition(WRITE_CVID): one waiting writer, if any, wakes, and t   *)
(* leaves the lock.                                                        *)
SignalWriter(t) ==
    \/ \E u \in At({"write_wait"}) :
           pc' = [pc EXCEPT ![t] = "idle", ![u] = "write_woken"]
    \/ At({"write_wait"}) = {} /\ Goto(t, "idle")

\* faulty variant: SignalCondition in place of BroadcastCondition
WakeOneReader(t) ==
    \E u \in At({"read_wait", "read_woken"}) :
        pc' = [pc EXCEPT ![t] = "idle", ![u] = "read_woken"]

(* BroadcastCondition(READ_CVID): every waiting reader wakes. *)
WakeReaders(t) ==
    pc' = [u \in Thread |-> IF u = t THEN "idle"
                            ELSE IF pc[u] = "read_wait" THEN "read_woken"
                            ELSE pc[u]]

StopReading(t) ==
    /\ pc[t] = "reading"
    /\ active_readers' = active_readers - 1
    /\ IF active_readers = 1 /\ waiting_writers > 0
       THEN SignalWriter(t)
       ELSE Goto(t, "idle")
    /\ UNCHANGED <<preference, active_writers, waiting_readers, waiting_writers>>

StopWriting(t) ==
    /\ pc[t] = "writing"
    /\ active_writers' = 0
    /\ LET writersFirst == preference = "favor_writers"
       IN  \/ /\ waiting_writers > 0 /\ (writersFirst \/ waiting_readers = 0)
              /\ SignalWriter(t)
           \/ /\ waiting_readers > 0 /\ (~writersFirst \/ waiting_writers = 0)
              /\ WakeReaders(t)
           \/ /\ waiting_readers = 0 /\ waiting_writers = 0
              /\ Goto(t, "idle")
    /\ UNCHANGED <<preference, active_readers, waiting_readers, waiting_writers>>

(* A wait that ends without a signal. *)
SpuriousWakeup(t) ==
    /\ \/ pc[t] = "read_wait" /\ Goto(t, "read_woken")
       \/ pc[t] = "write_wait" /\ Goto(t, "write_woken")
    /\ UNCHANGED <<preference, counts>>

(* What a thread does once it has called acquire, until it has released.   *)
Proceed(t) ==
    \/ ResumeReading(t) \/ ResumeWriting(t) \/ StopReading(t) \/ StopWriting(t)

LockNext == \E t \in Thread :
    StartReading(t) \/ StartWriting(t) \/ Proceed(t) \/ SpuriousWakeup(t)

(* A woken thread gets the monitor, and what a lock protects is short. *)
LockFairness == \A t \in Thread : WF_lockVars(Proceed(t))

LockSpec == LockInit /\ [][LockNext]_lockVars /\ LockFairness

-----------------------------------------------------------------------------
(* The four counters, which start_ and stop_ change in many places, are     *)
(* what they are named for.                                                 *)
CountersAgree ==
    /\ active_readers = Cardinality(At({"reading"}))
    /\ active_writers = Cardinality(At({"writing"}))
    /\ waiting_readers = Cardinality(At({"read_wait", "read_woken"}))
    /\ waiting_writers = Cardinality(At({"write_wait", "write_woken"}))

(* stop_reading signals writers only and stop_writing one kind only: still  *)
(* no thread sleeps beside a free lock unless another was woken for it.     *)
NoneStranded ==
    /\ At({"reading", "writing"}) = {}
    /\ At({"read_wait", "write_wait"}) # {}
    => At({"read_woken", "write_woken"}) # {}

(* Readers that keep coming never hold back the writers of a lock that      *)
(* favours writers: while one waits, readers drain and a writer gets in.    *)
WritersGetIn ==
    (preference = "favor_writers" /\ waiting_writers > 0) ~> (active_writers > 0)

(* The lock is a readers-writer lock: a writer is alone with it, although a *)
(* thread that was woken may find it taken by one that came in between, and *)
(* when it is free some waiting thread gets it.  Waiting threads are those  *)
(* that want it, woken or not.                                              *)
Service == INSTANCE LockService WITH
    state <- [t \in Thread |->
                IF pc[t] \in {"read_wait", "read_woken"} THEN "wants_read"
                ELSE IF pc[t] \in {"write_wait", "write_woken"} THEN "wants_write"
                ELSE pc[t]]
ImplementsLock == Service!LSpec
=============================================================================
