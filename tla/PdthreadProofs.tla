--------------------------- MODULE PdthreadProofs ---------------------------
(***************************************************************************)
(* Proofs about the two ways in which the threads of pdthread wait for each*)
(* other, the rwlock and the mailbox.                                      *)
(***************************************************************************)
EXTENDS Mailbox, RWLock, FiniteSetTheorems, SequenceTheorems, WellFoundedInduction, TLAPS

-----------------------------------------------------------------------------
(***************************************************************************)
(* The rwlock, for any number of threads and either preference: its        *)
(* counters count what they are named for, a writer is alone, no thread is *)
(* left asleep beside a free lock, and who gets the lock is what           *)
(* LockService allows.                                                     *)
(***************************************************************************)

PC == {"idle", "reading", "writing",
       "read_wait", "read_woken", "write_wait", "write_woken"}

LockTypeOK ==
    /\ preference \in {"favor_readers", "favor_writers"}
    /\ pc \in [Thread -> PC]

(* A writer is alone. *)
Exclusion ==
    \A t, u \in Thread : pc[t] = "writing" /\ pc[u] \in {"reading", "writing"} => t = u

(* A reader sleeps only while start_reading would make it wait: stop_      *)
(* writing wakes all of them unless a writer goes before them.             *)
ReadersInv == At({"read_wait"}) # {} => ReaderBlocks

(* When nobody has the lock a writer sleeps only if a thread that goes     *)
(* before it, or another writer, was woken.                                *)
WritersInv ==
    At({"reading", "writing"}) = {} /\ At({"write_wait"}) # {} =>
        \/ At({"write_woken"}) # {}
        \/ preference = "favor_readers" /\ At({"read_woken"}) # {}

LockInv == LockTypeOK /\ CountersAgree /\ Exclusion /\ ReadersInv /\ WritersInv

-----------------------------------------------------------------------------
(* Counting threads *)

(* A set of threads is finite; it is empty when its number is 0. *)
LEMMA AtFinite ==
    ASSUME NEW S
    PROVE  /\ IsFiniteSet(At(S)) /\ Cardinality(At(S)) \in Nat
           /\ Cardinality(At(S)) = 0 <=> At(S) = {}
  BY ThreadAssumption, FS_Subset, FS_CardinalityType, FS_EmptySet DEF At

(* One thread more, one less, or as many. *)
LEMMA AtMove ==
    ASSUME LockTypeOK, NEW S, NEW t \in Thread,
           \A u \in Thread \ {t} : pc'[u] \in S <=> pc[u] \in S
    PROVE  /\ pc[t] \notin S /\ pc'[t] \in S
                => Cardinality(At(S)') = Cardinality(At(S)) + 1
           /\ pc[t] \in S /\ pc'[t] \notin S
                => Cardinality(At(S)') = Cardinality(At(S)) - 1
           /\ (pc[t] \in S <=> pc'[t] \in S)
                => Cardinality(At(S)') = Cardinality(At(S))
  <1>1. IsFiniteSet(At(S))
    BY AtFinite
  <1>2. ASSUME pc[t] \notin S, pc'[t] \in S
        PROVE  Cardinality(At(S)') = Cardinality(At(S)) + 1
    <2>1. At(S)' = At(S) \union {t} /\ t \notin At(S)
      BY <1>2 DEF At
    <2> QED
      BY <1>1, <2>1, FS_AddElement
  <1>3. ASSUME pc[t] \in S, pc'[t] \notin S
        PROVE  Cardinality(At(S)') = Cardinality(At(S)) - 1
    <2>1. At(S)' = At(S) \ {t} /\ t \in At(S)
      BY <1>3 DEF At
    <2> QED
      BY <1>1, <2>1, FS_RemoveElement
  <1>4. ASSUME pc[t] \in S <=> pc'[t] \in S
        PROVE  Cardinality(At(S)') = Cardinality(At(S))
    <2>1. At(S)' = At(S)
      BY <1>4 DEF At
    <2> QED
      BY <2>1
  <1> QED
    BY <1>2, <1>3, <1>4

(* What the counters say of the threads. *)
LEMMA CountersMean ==
    ASSUME CountersAgree
    PROVE  /\ active_readers \in Nat /\ active_writers \in Nat
           /\ waiting_readers \in Nat /\ waiting_writers \in Nat
           /\ active_readers = 0 <=> At({"reading"}) = {}
           /\ active_writers = 0 <=> At({"writing"}) = {}
           /\ waiting_readers = 0 <=> At({"read_wait", "read_woken"}) = {}
           /\ waiting_writers = 0 <=> At({"write_wait", "write_woken"}) = {}
  BY AtFinite DEF CountersAgree

-----------------------------------------------------------------------------
(* The invariant: each step *)

(* The lock starts free and nobody waits. *)
LEMMA LockInvInit == LockInit => LockInv
  <1> SUFFICES ASSUME LockInit PROVE LockInv
    OBVIOUS
  <1>1. LockTypeOK /\ Exclusion
    BY DEF LockInit, LockTypeOK, PC, Exclusion
  <1>2. \A S : "idle" \notin S => At(S) = {}
    BY DEF LockInit, At
  <1>3. CountersAgree
    BY <1>2, FS_EmptySet DEF LockInit, CountersAgree
  <1>4. ReadersInv /\ WritersInv
    BY <1>2 DEF ReadersInv, WritersInv
  <1> QED
    BY <1>1, <1>3, <1>4 DEF LockInv

(* start_reading, whether it waits or not, at first or after a wait. *)
LEMMA InvReader ==
    ASSUME LockInv, NEW t \in Thread, StartReading(t) \/ ResumeReading(t)
    PROVE  LockInv'
  <1> DEFINE p == IF ReaderBlocks THEN "read_wait" ELSE "reading"
  <1>1. /\ pc' = [pc EXCEPT ![t] = p] /\ pc[t] \in {"idle", "read_woken"}
        /\ UNCHANGED <<preference, active_writers, waiting_writers>>
    BY DEF StartReading, ResumeReading, Goto
  <1>2. LockTypeOK'
    BY <1>1 DEF LockInv, LockTypeOK, PC
  <1>3. pc'[t] = p /\ \A u \in Thread \ {t} : pc'[u] = pc[u]
    BY <1>1 DEF LockInv, LockTypeOK
  <1>4. CountersAgree'
    <2>1. /\ Cardinality(At({"writing"})') = Cardinality(At({"writing"}))
          /\ Cardinality(At({"write_wait", "write_woken"})')
                = Cardinality(At({"write_wait", "write_woken"}))
      BY <1>1, <1>3, AtMove DEF LockInv
    <2>2. Cardinality(At({"reading"})')
             = Cardinality(At({"reading"})) + (IF ReaderBlocks THEN 0 ELSE 1)
      BY <1>1, <1>3, AtMove, AtFinite DEF LockInv
    <2> DEFINE W == {"read_wait", "read_woken"}
    <2>3. CASE pc[t] = "idle"
      <3>0. pc[t] \notin W /\ (pc'[t] \in W <=> ReaderBlocks)
        BY <1>3, <2>3
      <3>1. Cardinality(At(W)') = Cardinality(At(W)) + (IF ReaderBlocks THEN 1 ELSE 0)
        <4> HIDE DEF W
        <4> QED
          BY <1>3, <3>0, AtMove, AtFinite DEF LockInv
      <3>2. /\ waiting_readers' = waiting_readers + (IF ReaderBlocks THEN 1 ELSE 0)
            /\ active_readers' = active_readers + (IF ReaderBlocks THEN 0 ELSE 1)
        BY <2>3, CountersMean DEF StartReading, ResumeReading, LockInv
      <3> QED
        BY <1>1, <2>1, <2>2, <3>1, <3>2 DEF LockInv, CountersAgree
    <2>4. CASE pc[t] = "read_woken"
      <3>0. pc[t] \in W /\ (pc'[t] \in W <=> ReaderBlocks)
        BY <1>3, <2>4
      <3>1. Cardinality(At(W)') = Cardinality(At(W)) - (IF ReaderBlocks THEN 0 ELSE 1)
        <4> HIDE DEF W
        <4> QED
          BY <1>3, <3>0, AtMove, AtFinite DEF LockInv
      <3>2. /\ waiting_readers' = waiting_readers - (IF ReaderBlocks THEN 0 ELSE 1)
            /\ active_readers' = active_readers + (IF ReaderBlocks THEN 0 ELSE 1)
        BY <2>4, CountersMean DEF StartReading, ResumeReading, LockInv
      <3> QED
        BY <1>1, <2>1, <2>2, <3>1, <3>2 DEF LockInv, CountersAgree
    <2> QED
      BY <1>1, <2>3, <2>4
  <1>5. ~ReaderBlocks => At({"writing"}) = {}
    BY CountersMean DEF LockInv, ReaderBlocks
  <1>6. Exclusion'
    BY <1>3, <1>5 DEF LockInv, Exclusion, At
  <1>7. ReadersInv'
    <2>1. ReaderBlocks' <=> ReaderBlocks
      BY <1>1 DEF ReaderBlocks
    <2>2. ~ReaderBlocks => At({"read_wait"})' \subseteq At({"read_wait"})
      BY <1>3 DEF At
    <2> QED
      BY <2>1, <2>2 DEF LockInv, ReadersInv
  <1>8. WritersInv'
    <2>1. ~ReaderBlocks => t \in At({"reading", "writing"})'
      BY <1>3 DEF At
    <2>2. /\ At({"write_wait"})' = At({"write_wait"})
          /\ At({"write_woken"})' = At({"write_woken"})
          /\ At({"reading", "writing"}) \subseteq At({"reading", "writing"})'
      BY <1>1, <1>3 DEF At
    <2>3. ASSUME ReaderBlocks, At({"reading", "writing"})' = {}
          PROVE  preference = "favor_writers"
      <3>1. At({"writing"}) = {}
        BY <2>2, <2>3 DEF At
      <3> QED
        BY <2>3, <3>1, CountersMean DEF LockInv, ReaderBlocks
    <2> QED
      BY <1>1, <2>1, <2>2, <2>3 DEF LockInv, WritersInv
  <1> QED
    BY <1>2, <1>4, <1>6, <1>7, <1>8 DEF LockInv

(* start_writing, whether it waits or not, at first or after a wait. *)
LEMMA InvWriter ==
    ASSUME LockInv, NEW t \in Thread, StartWriting(t) \/ ResumeWriting(t)
    PROVE  LockInv'
  <1> DEFINE p == IF WriterBlocks THEN "write_wait" ELSE "writing"
  <1>1. /\ pc' = [pc EXCEPT ![t] = p] /\ pc[t] \in {"idle", "write_woken"}
        /\ UNCHANGED <<preference, active_readers, waiting_readers>>
    BY DEF StartWriting, ResumeWriting, Goto
  <1>2. LockTypeOK'
    BY <1>1 DEF LockInv, LockTypeOK, PC
  <1>3. pc'[t] = p /\ \A u \in Thread \ {t} : pc'[u] = pc[u]
    BY <1>1 DEF LockInv, LockTypeOK
  <1>4. WriterBlocks <=> At({"reading", "writing"}) # {}
    BY CountersMean DEF LockInv, WriterBlocks, At
  <1>5. CountersAgree'
    <2> DEFINE W == {"write_wait", "write_woken"}
    <2>1. /\ Cardinality(At({"reading"})') = Cardinality(At({"reading"}))
          /\ Cardinality(At({"read_wait", "read_woken"})')
                = Cardinality(At({"read_wait", "read_woken"}))
      BY <1>1, <1>3, AtMove DEF LockInv
    <2>2. Cardinality(At({"writing"})')
             = Cardinality(At({"writing"})) + (IF WriterBlocks THEN 0 ELSE 1)
      BY <1>1, <1>3, AtMove, AtFinite DEF LockInv
    <2>3. active_writers' = active_writers + (IF WriterBlocks THEN 0 ELSE 1)
      BY CountersMean DEF StartWriting, ResumeWriting, LockInv, WriterBlocks
    <2>4. CASE pc[t] = "idle"
      <3>1. pc[t] \notin W /\ (pc'[t] \in W <=> WriterBlocks)
        BY <1>3, <2>4
      <3>2. Cardinality(At(W)') = Cardinality(At(W)) + (IF WriterBlocks THEN 1 ELSE 0)
        <4> HIDE DEF W
        <4> QED
          BY <1>3, <3>1, AtMove, AtFinite DEF LockInv
      <3>3. waiting_writers' = waiting_writers + (IF WriterBlocks THEN 1 ELSE 0)
        BY <2>4, CountersMean DEF StartWriting, ResumeWriting, LockInv
      <3> QED
        BY <1>1, <2>1, <2>2, <2>3, <3>2, <3>3 DEF LockInv, CountersAgree
    <2>5. CASE pc[t] = "write_woken"
      <3>1. pc[t] \in W /\ (pc'[t] \in W <=> WriterBlocks)
        BY <1>3, <2>5
      <3>2. Cardinality(At(W)') = Cardinality(At(W)) - (IF WriterBlocks THEN 0 ELSE 1)
        <4> HIDE DEF W
        <4> QED
          BY <1>3, <3>1, AtMove, AtFinite DEF LockInv
      <3>3. waiting_writers' = waiting_writers - (IF WriterBlocks THEN 0 ELSE 1)
        BY <2>5, CountersMean DEF StartWriting, ResumeWriting, LockInv
      <3> QED
        BY <1>1, <2>1, <2>2, <2>3, <3>2, <3>3 DEF LockInv, CountersAgree
    <2> QED
      BY <1>1, <2>4, <2>5
  <1>6. Exclusion'
    BY <1>3, <1>4 DEF LockInv, Exclusion, At
  <1>7. ReadersInv'
    <2>1. At({"read_wait"})' = At({"read_wait"})
      BY <1>1, <1>3 DEF At
    <2>2. ReaderBlocks => ReaderBlocks'
      <3>1. ~WriterBlocks => active_writers' > 0
        BY DEF StartWriting, ResumeWriting
      <3>2. WriterBlocks => active_writers' = active_writers
                            /\ waiting_writers' >= waiting_writers
                            /\ waiting_writers' \in Nat
        BY CountersMean DEF StartWriting, ResumeWriting, LockInv
      <3> QED
        BY <1>1, <3>1, <3>2, CountersMean DEF ReaderBlocks, LockInv
    <2> QED
      BY <2>1, <2>2 DEF LockInv, ReadersInv
  <1>8. WritersInv'
    <2>1. At({"reading", "writing"})' # {}
      <3>1. ~WriterBlocks => t \in At({"reading", "writing"})'
        BY <1>3 DEF At
      <3>2. At({"reading", "writing"}) \subseteq At({"reading", "writing"})'
        BY <1>1, <1>3 DEF At
      <3> QED
        BY <1>4, <3>1, <3>2
    <2> QED
      BY <2>1 DEF WritersInv
  <1> QED
    BY <1>2, <1>5, <1>6, <1>7, <1>8 DEF LockInv

(* A thread that is signalled, or wakes for no reason, is still waiting:   *)
(* when t leaves the lock, or nobody does, and some sleepers wake, the     *)
(* counters of the others stay right.                                      *)
LEMMA CountersLeave ==
    ASSUME LockTypeOK, pc' \in [Thread -> PC], NEW t \in Thread,
           pc[t] \in {"reading", "writing"}, pc'[t] = "idle",
           \A u \in Thread \ {t} :
              \/ pc'[u] = pc[u]
              \/ pc[u] = "read_wait" /\ pc'[u] = "read_woken"
              \/ pc[u] = "write_wait" /\ pc'[u] = "write_woken"
    PROVE  /\ pc[t] = "reading" =>
                 /\ Cardinality(At({"reading"})') = Cardinality(At({"reading"})) - 1
                 /\ Cardinality(At({"writing"})') = Cardinality(At({"writing"}))
           /\ pc[t] = "writing" =>
                 /\ Cardinality(At({"reading"})') = Cardinality(At({"reading"}))
                 /\ Cardinality(At({"writing"})') = Cardinality(At({"writing"})) - 1
           /\ Cardinality(At({"read_wait", "read_woken"})')
                 = Cardinality(At({"read_wait", "read_woken"}))
           /\ Cardinality(At({"write_wait", "write_woken"})')
                 = Cardinality(At({"write_wait", "write_woken"}))
  <1>1. \A S \in {{"reading"}, {"writing"}, {"read_wait", "read_woken"},
                  {"write_wait", "write_woken"}} :
           \A u \in Thread \ {t} : pc'[u] \in S <=> pc[u] \in S
    OBVIOUS
  <1>2. \A S \in {{"read_wait", "read_woken"}, {"write_wait", "write_woken"}} :
           pc[t] \notin S /\ pc'[t] \notin S
    OBVIOUS
  <1>3. \A S \in {{"read_wait", "read_woken"}, {"write_wait", "write_woken"}} :
           Cardinality(At(S)') = Cardinality(At(S))
    <2> TAKE S \in {{"read_wait", "read_woken"}, {"write_wait", "write_woken"}}
    <2>1. \A u \in Thread \ {t} : pc'[u] \in S <=> pc[u] \in S
      BY <1>1
    <2> QED
      BY <1>2, <2>1, AtMove
  <1>4. \A S \in {{"reading"}, {"writing"}} :
           \A u \in Thread \ {t} : pc'[u] \in S <=> pc[u] \in S
    BY <1>1
  <1> QED
    BY <1>3, <1>4, AtMove

(* What a step that lets t leave the lock does to the threads. *)
LEMMA InvLeave ==
    ASSUME LockInv, NEW t \in Thread, pc[t] \in {"reading", "writing"},
           pc' \in [Thread -> PC], pc'[t] = "idle",
           \A u \in Thread \ {t} :
              \/ pc'[u] = pc[u]
              \/ pc[u] = "read_wait" /\ pc'[u] = "read_woken"
              \/ pc[u] = "write_wait" /\ pc'[u] = "write_woken",
           UNCHANGED <<preference, waiting_readers, waiting_writers>>,
           pc[t] = "reading" => /\ active_readers' = active_readers - 1
                                /\ active_writers' = active_writers,
           pc[t] = "writing" => /\ active_readers' = active_readers
                                /\ active_writers' = 0
    PROVE  LockTypeOK' /\ CountersAgree' /\ Exclusion'
  <1>1. LockTypeOK'
    BY DEF LockInv, LockTypeOK
  <1>2. pc[t] = "writing" => Cardinality(At({"writing"})) = 1
    <2>1. pc[t] = "writing" => At({"writing"}) = {t}
      BY DEF LockInv, Exclusion, At
    <2> QED
      BY <2>1, FS_Singleton
  <1>3. CountersAgree'
    BY <1>2, CountersLeave DEF LockInv, CountersAgree
  <1>4. Exclusion'
    BY DEF LockInv, Exclusion
  <1> QED
    BY <1>1, <1>3, <1>4

(* stop_reading: the last reader signals a writer, if one waits. *)
LEMMA InvStopReading ==
    ASSUME LockInv, NEW t \in Thread, StopReading(t)
    PROVE  LockInv'
  <1>1. /\ pc[t] = "reading" /\ active_readers' = active_readers - 1
        /\ UNCHANGED <<preference, active_writers, waiting_readers, waiting_writers>>
        /\ pc \in [Thread -> PC]
    BY DEF StopReading, LockInv, LockTypeOK
  <1>2. /\ pc' \in [Thread -> PC] /\ pc'[t] = "idle"
        /\ \A u \in Thread \ {t} :
              \/ pc'[u] = pc[u]
              \/ pc[u] = "write_wait" /\ pc'[u] = "write_woken"
        /\ active_readers = 1 /\ waiting_writers > 0 /\ At({"write_wait"}) # {}
              => At({"write_woken"})' # {}
    <2>1. CASE Goto(t, "idle") /\ (active_readers = 1 /\ waiting_writers > 0 =>
                                      At({"write_wait"}) = {})
      BY <1>1, <2>1 DEF Goto, PC
    <2>2. CASE \E u \in At({"write_wait"}) :
                  pc' = [pc EXCEPT ![t] = "idle", ![u] = "write_woken"]
      BY <1>1, <2>2 DEF At, PC
    <2> QED
      BY <2>1, <2>2 DEF StopReading, SignalWriter
  <1>3. LockTypeOK' /\ CountersAgree' /\ Exclusion'
    BY <1>1, <1>2, InvLeave
  <1>4. ReadersInv'
    <2>1. At({"read_wait"})' = At({"read_wait"})
      BY <1>1, <1>2 DEF At
    <2> QED
      BY <1>1, <2>1 DEF LockInv, ReadersInv, ReaderBlocks
  <1>5. WritersInv'
    <2> SUFFICES ASSUME At({"reading", "writing"})' = {}, At({"write_wait"})' # {}
                 PROVE  At({"write_woken"})' # {}
      BY DEF WritersInv
    <2>1. At({"write_wait"}) # {} /\ waiting_writers > 0
      <3>1. At({"write_wait"})' \subseteq At({"write_wait"})
        BY <1>1, <1>2 DEF At
      <3>2. At({"write_wait"}) \subseteq At({"write_wait", "write_woken"})
        BY DEF At
      <3> QED
        BY <3>1, <3>2, CountersMean DEF LockInv
    <2>2. At({"reading"}) = {t}
      BY <1>1, <1>2 DEF At
    <2>3. active_readers = 1
      BY <2>2, FS_Singleton DEF LockInv, CountersAgree
    <2> QED
      BY <1>2, <2>1, <2>3
  <1> QED
    BY <1>3, <1>4, <1>5 DEF LockInv

(* stop_writing: one writer, or every waiting reader, is woken. *)
LEMMA InvStopWriting ==
    ASSUME LockInv, NEW t \in Thread, StopWriting(t)
    PROVE  LockInv'
  <1>1. /\ pc[t] = "writing" /\ active_writers' = 0
        /\ UNCHANGED <<preference, active_readers, waiting_readers, waiting_writers>>
        /\ pc \in [Thread -> PC]
    BY DEF StopWriting, LockInv, LockTypeOK
  <1> DEFINE Woken(u) == \/ pc'[u] = pc[u]
                         \/ pc[u] = "read_wait" /\ pc'[u] = "read_woken"
                         \/ pc[u] = "write_wait" /\ pc'[u] = "write_woken"
             Left == /\ pc' \in [Thread -> PC] /\ pc'[t] = "idle"
                     /\ \A u \in Thread \ {t} : Woken(u)
             Settled == ReadersInv' /\ WritersInv'
  <1>2. ASSUME waiting_writers > 0,
               preference = "favor_writers" \/ waiting_readers = 0,
               SignalWriter(t)
        PROVE  Left /\ Settled
    <2>1. /\ Left
          /\ At({"write_wait"}) # {} => At({"write_woken"})' # {}
          /\ At({"write_wait"})' \subseteq At({"write_wait"})
          /\ At({"read_wait"})' = At({"read_wait"})
      <3>1. CASE Goto(t, "idle") /\ At({"write_wait"}) = {}
        BY <1>1, <3>1 DEF Goto, PC, At
      <3>2. CASE \E u \in At({"write_wait"}) :
                    pc' = [pc EXCEPT ![t] = "idle", ![u] = "write_woken"]
        BY <1>1, <3>2 DEF At, PC
      <3> QED
        BY <1>2, <3>1, <3>2 DEF SignalWriter
    <2>2. ReadersInv'
      <3>1. waiting_readers = 0 => At({"read_wait"}) = {}
        <4>1. At({"read_wait"}) \subseteq At({"read_wait", "read_woken"})
          BY DEF At
        <4> QED
          BY <4>1, CountersMean DEF LockInv
      <3> QED
        BY <1>1, <1>2, <2>1, <3>1 DEF ReadersInv, ReaderBlocks
    <2>3. WritersInv'
      BY <2>1 DEF WritersInv
    <2> QED
      BY <2>1, <2>2, <2>3
  <1>3. ASSUME waiting_readers > 0,
               preference # "favor_writers" \/ waiting_writers = 0,
               WakeReaders(t)
        PROVE  Left /\ Settled
    <2>1. Left
      BY <1>1, <1>3 DEF WakeReaders, PC
    <2>2. At({"read_wait"})' = {}
      BY <1>3 DEF WakeReaders, At
    <2>3. At({"read_woken"})' # {}
      <3>1. At({"read_wait", "read_woken"}) # {}
        BY <1>3, CountersMean DEF LockInv
      <3>2. At({"read_wait", "read_woken"}) \subseteq At({"read_woken"})'
        BY <1>1, <1>3 DEF WakeReaders, At
      <3> QED
        BY <3>1, <3>2
    <2>4. waiting_writers = 0 => At({"write_wait"})' = {}
      <3>1. At({"write_wait"})' \subseteq At({"write_wait", "write_woken"})
        BY <1>1, <1>3 DEF WakeReaders, At
      <3> QED
        BY <3>1, CountersMean DEF LockInv
    <2> QED
      BY <1>1, <1>3, <2>1, <2>2, <2>3, <2>4
      DEF ReadersInv, WritersInv, LockInv, LockTypeOK
  <1>4. ASSUME waiting_readers = 0, waiting_writers = 0, Goto(t, "idle")
        PROVE  Left /\ Settled
    <2>1. Left
      BY <1>1, <1>4 DEF Goto, PC
    <2>2. At({"read_wait"})' = {} /\ At({"write_wait"})' = {}
      <3>1. /\ At({"read_wait"})' \subseteq At({"read_wait", "read_woken"})
            /\ At({"write_wait"})' \subseteq At({"write_wait", "write_woken"})
        BY <1>1, <1>4 DEF Goto, At
      <3> QED
        BY <1>4, <3>1, CountersMean DEF LockInv
    <2> QED
      BY <2>1, <2>2 DEF ReadersInv, WritersInv
  <1>5. Left /\ Settled
    BY <1>2, <1>3, <1>4 DEF StopWriting
  <1>6. LockTypeOK' /\ CountersAgree' /\ Exclusion'
    BY <1>1, <1>5, InvLeave
  <1> QED
    BY <1>5, <1>6 DEF LockInv

(* A wait that ends without a signal. *)
LEMMA InvSpurious ==
    ASSUME LockInv, NEW t \in Thread, SpuriousWakeup(t)
    PROVE  LockInv'
  <1>1. /\ UNCHANGED <<preference, active_readers, active_writers,
                       waiting_readers, waiting_writers>>
        /\ pc \in [Thread -> PC]
    BY DEF SpuriousWakeup, counts, LockInv, LockTypeOK
  <1>2. \/ pc[t] = "read_wait" /\ pc' = [pc EXCEPT ![t] = "read_woken"]
        \/ pc[t] = "write_wait" /\ pc' = [pc EXCEPT ![t] = "write_woken"]
    BY DEF SpuriousWakeup, Goto
  <1>3. LockTypeOK' /\ Exclusion'
    BY <1>1, <1>2 DEF LockInv, LockTypeOK, PC, Exclusion
  <1>4. CountersAgree'
    <2>1. /\ At({"reading"})' = At({"reading"}) /\ At({"writing"})' = At({"writing"})
          /\ At({"read_wait", "read_woken"})' = At({"read_wait", "read_woken"})
          /\ At({"write_wait", "write_woken"})' = At({"write_wait", "write_woken"})
      BY <1>1, <1>2 DEF At
    <2> QED
      BY <1>1, <2>1 DEF LockInv, CountersAgree
  <1>5. /\ At({"reading", "writing"})' = At({"reading", "writing"})
        /\ At({"read_wait"})' \subseteq At({"read_wait"})
        /\ At({"write_wait"})' \subseteq At({"write_wait"})
        /\ At({"read_woken"}) \subseteq At({"read_woken"})'
        /\ At({"write_woken"}) \subseteq At({"write_woken"})'
    BY <1>1, <1>2 DEF At
  <1>6. ReadersInv' /\ WritersInv'
    BY <1>1, <1>5 DEF LockInv, ReadersInv, WritersInv, ReaderBlocks
  <1> QED
    BY <1>3, <1>4, <1>6 DEF LockInv

(* Every step keeps the invariant. *)
LEMMA LockInvNext == LockInv /\ [LockNext]_lockVars => LockInv'
  <1> SUFFICES ASSUME LockInv, [LockNext]_lockVars PROVE LockInv'
    OBVIOUS
  <1>1. ASSUME NEW t \in Thread, StartReading(t) \/ ResumeReading(t) PROVE LockInv'
    BY <1>1, InvReader
  <1>2. ASSUME NEW t \in Thread, StartWriting(t) \/ ResumeWriting(t) PROVE LockInv'
    BY <1>2, InvWriter
  <1>3. ASSUME NEW t \in Thread, StopReading(t) PROVE LockInv'
    BY <1>3, InvStopReading
  <1>4. ASSUME NEW t \in Thread, StopWriting(t) PROVE LockInv'
    BY <1>4, InvStopWriting
  <1>5. ASSUME NEW t \in Thread, SpuriousWakeup(t) PROVE LockInv'
    BY <1>5, InvSpurious
  <1>6. CASE UNCHANGED lockVars
    BY <1>6 DEF lockVars, counts, LockInv, LockTypeOK, CountersAgree, Exclusion,
                ReadersInv, WritersInv, ReaderBlocks, At
  <1> QED
    BY <1>1, <1>2, <1>3, <1>4, <1>5, <1>6 DEF LockNext, Proceed

(* The invariant of the lock holds in every reachable state. *)
THEOREM LockCorrect == LockSpec => []LockInv
  <1> QED
    BY LockInvInit, LockInvNext, PTL DEF LockSpec

-----------------------------------------------------------------------------
(* What follows *)

(* The counters of rwlock count the threads that read, write and wait. *)
THEOREM CountersCorrect == LockSpec => []CountersAgree
  <1>1. LockInv => CountersAgree
    BY DEF LockInv
  <1> QED
    BY <1>1, LockCorrect, PTL

(* Nobody sleeps beside a free lock unless another thread was woken for it. *)
THEOREM NobodyStranded == LockSpec => []NoneStranded
  <1>1. LockInv => NoneStranded
    <2> SUFFICES ASSUME LockInv, At({"reading", "writing"}) = {},
                        At({"read_wait", "write_wait"}) # {}
                 PROVE  At({"read_woken", "write_woken"}) # {}
      BY DEF NoneStranded
    <2>1. CASE At({"write_wait"}) # {}
      <3>1. At({"write_woken"}) # {} \/ At({"read_woken"}) # {}
        BY <2>1 DEF LockInv, WritersInv
      <3> QED
        BY <3>1 DEF At
    <2>2. CASE At({"write_wait"}) = {}
      <3>1. At({"read_wait"}) # {}
        BY <2>2 DEF At
      <3>2. At({"writing"}) = {}
        BY DEF At
      <3>3. waiting_writers > 0
        BY <3>1, <3>2, CountersMean DEF LockInv, ReadersInv, ReaderBlocks
      <3>4. At({"write_wait", "write_woken"}) # {}
        BY <3>3, CountersMean DEF LockInv
      <3> QED
        BY <2>2, <3>4 DEF At
    <2> QED
      BY <2>1, <2>2
  <1> QED
    BY <1>1, LockCorrect, PTL

(* A writer has the lock for itself. *)
THEOREM WriterAlone == LockSpec => []Exclusion
  <1>1. LockInv => Exclusion
    BY DEF LockInv
  <1> QED
    BY <1>1, LockCorrect, PTL

-----------------------------------------------------------------------------
(* The refinement of LockService *)

wanted == [t \in Thread |->
              IF pc[t] \in {"read_wait", "read_woken"} THEN "wants_read"
              ELSE IF pc[t] \in {"write_wait", "write_woken"} THEN "wants_write"
              ELSE pc[t]]

(* Each step of the rwlock is one of the service, or none. *)
LEMMA StepRefined ==
    ASSUME LockInv, LockInv', [LockNext]_lockVars
    PROVE  [Service!LNext]_wanted
  <1>0. pc \in [Thread -> PC] /\ pc' \in [Thread -> PC]
    BY DEF LockInv, LockTypeOK
  <1>1. Service!MayRead <=> At({"writing"}) = {}
    BY <1>0 DEF Service!MayRead, At
  <1>2. Service!MayWrite <=> At({"reading", "writing"}) = {}
    BY <1>0 DEF Service!MayWrite, At
  <1>3. ~ReaderBlocks => Service!MayRead
    BY <1>1, CountersMean DEF LockInv, ReaderBlocks
  <1>4. ~WriterBlocks => Service!MayWrite
    <2>1. ~WriterBlocks => At({"reading"}) = {} /\ At({"writing"}) = {}
      BY CountersMean DEF LockInv, WriterBlocks
    <2> QED
      BY <1>2, <2>1 DEF At
  <1>5. ASSUME NEW t \in Thread, StartReading(t) \/ ResumeReading(t)
        PROVE  [Service!LNext]_wanted
    <2>1. /\ pc' = [pc EXCEPT ![t] = IF ReaderBlocks THEN "read_wait" ELSE "reading"]
          /\ pc[t] \in {"idle", "read_woken"}
      BY <1>5 DEF StartReading, ResumeReading, Goto
    <2>2. wanted' = [wanted EXCEPT ![t] =
                        IF ReaderBlocks THEN "wants_read" ELSE "reading"]
      BY <1>0, <2>1 DEF wanted
    <2>3. wanted[t] = IF pc[t] = "idle" THEN "idle" ELSE "wants_read"
      BY <2>1 DEF wanted
    <2>4. CASE ~ReaderBlocks
      <3>1. Service!Acquire(t)
        BY <1>3, <2>2, <2>3, <2>4 DEF Service!Acquire, wanted
      <3> QED
        BY <3>1 DEF Service!LNext
    <2>5. CASE ReaderBlocks /\ pc[t] = "idle"
      <3>1. Service!Ask(t)
        BY <2>2, <2>3, <2>5 DEF Service!Ask, wanted
      <3> QED
        BY <3>1 DEF Service!LNext
    <2>6. CASE ReaderBlocks /\ pc[t] = "read_woken"
      <3>1. wanted' = wanted
        BY <2>2, <2>3, <2>6 DEF wanted
      <3> QED
        BY <3>1
    <2> QED
      BY <2>1, <2>4, <2>5, <2>6
  <1>6. ASSUME NEW t \in Thread, StartWriting(t) \/ ResumeWriting(t)
        PROVE  [Service!LNext]_wanted
    <2>1. /\ pc' = [pc EXCEPT ![t] = IF WriterBlocks THEN "write_wait" ELSE "writing"]
          /\ pc[t] \in {"idle", "write_woken"}
      BY <1>6 DEF StartWriting, ResumeWriting, Goto
    <2>2. wanted' = [wanted EXCEPT ![t] =
                        IF WriterBlocks THEN "wants_write" ELSE "writing"]
      BY <1>0, <2>1 DEF wanted
    <2>3. wanted[t] = IF pc[t] = "idle" THEN "idle" ELSE "wants_write"
      BY <2>1 DEF wanted
    <2>4. CASE ~WriterBlocks
      <3>1. Service!Acquire(t)
        BY <1>4, <2>2, <2>3, <2>4 DEF Service!Acquire, wanted
      <3> QED
        BY <3>1 DEF Service!LNext
    <2>5. CASE WriterBlocks /\ pc[t] = "idle"
      <3>1. Service!Ask(t)
        BY <2>2, <2>3, <2>5 DEF Service!Ask, wanted
      <3> QED
        BY <3>1 DEF Service!LNext
    <2>6. CASE WriterBlocks /\ pc[t] = "write_woken"
      <3>1. wanted' = wanted
        BY <2>2, <2>3, <2>6 DEF wanted
      <3> QED
        BY <3>1
    <2> QED
      BY <2>1, <2>4, <2>5, <2>6
  <1>7. ASSUME NEW t \in Thread, StopReading(t) \/ StopWriting(t)
        PROVE  [Service!LNext]_wanted
    <2>1. pc[t] \in {"reading", "writing"}
      BY <1>7 DEF StopReading, StopWriting
    <2>2. \/ pc' = [pc EXCEPT ![t] = "idle"]
          \/ \E u \in At({"write_wait"}) :
                 pc' = [pc EXCEPT ![t] = "idle", ![u] = "write_woken"]
          \/ WakeReaders(t)
      BY <1>7 DEF StopReading, StopWriting, SignalWriter, Goto
    <2>3. wanted' = [wanted EXCEPT ![t] = "idle"]
      BY <1>0, <2>1, <2>2 DEF wanted, At, WakeReaders
    <2>4. Service!Release(t)
      BY <2>1, <2>3 DEF Service!Release, wanted
    <2> QED
      BY <2>4 DEF Service!LNext
  <1>8. ASSUME NEW t \in Thread, SpuriousWakeup(t)
        PROVE  [Service!LNext]_wanted
    <2>1. wanted' = wanted
      BY <1>0, <1>8 DEF SpuriousWakeup, Goto, wanted
    <2> QED
      BY <2>1
  <1>9. CASE UNCHANGED lockVars
    BY <1>9 DEF lockVars, wanted
  <1> QED
    BY <1>5, <1>6, <1>7, <1>8, <1>9 DEF LockNext, Proceed

(* The rwlock gives the lock only to whom LockService lets have it, and    *)
(* each wait, wake-up and release is a step of the service or none.        *)
THEOREM LockRefinesService == LockSpec => Service!LSafety
  <1>1. LockInit => Service!LInit
    BY DEF LockInit, Service!LInit
  <1>2. LockInv /\ LockInv' /\ [LockNext]_lockVars => [Service!LNext]_wanted
    BY StepRefined
  <1> QED
    BY <1>1, <1>2, LockCorrect, PTL DEF LockSpec, Service!LSafety, wanted

-----------------------------------------------------------------------------
(***************************************************************************)
(* The mailbox of a thread, for any number of senders and sockets, any     *)
(* bound of the list and any size of the pipe: the owner does not go to    *)
(* sleep on a message, no sender sleeps for want of a signal, and what is  *)
(* known of ready sockets is consistent and never makes a read block.      *)
(***************************************************************************)

(* The bound descriptors have tids, each one of its own, and none that an  *)
(* unbind without clear_ready has left in the list.                        *)
BindingInv ==
    /\ \A s \in Sock : tid[s] # NoTid <=> s \in bound_socks
    /\ \A s \in Sock : tid[s] < nextTid
    /\ \A s, u \in bound_socks : tid[s] = tid[u] => s = u
    /\ \A t \in orphans : t < nextTid /\ \A s \in bound_socks : tid[s] # t

(* A socket known to be ready can be read, unless its input was just       *)
(* consumed or its flag is of an earlier binding; and the socket that is   *)
(* served is one of those the step needs.                                  *)
EventInv ==
    /\ stale \subseteq ready_socks
    /\ \A s \in ready_socks \ stale :
          Returns(s) \/ (opc \in {"clear", "clear_last"} /\ cur = s)
    /\ opc = "read" => cur \in orphans \/ \E s \in ready_socks \ stale : tid[s] = cur
    /\ opc = "clear" => cur \in Sock
    /\ opc \in {"clear_last", "unbind"} => cur \in bound_socks
    /\ opc = "unbind" => cur \notin ready_socks

wokenSenders == {p \in Sender : spc[p] = "woken"}

(* While a sender sleeps, the room in the list is promised: there are at   *)
(* least as many woken senders as free places.                             *)
SignalInv ==
    (\E p \in Sender : spc[p] = "full") =>
        Len(messages) + Cardinality(wokenSenders) >= MaxList

MailInv ==
    /\ TypeOK /\ BindingInv /\ ReadinessAgrees /\ EventInv
    /\ SignalInv /\ NoLostWakeup
-----------------------------------------------------------------------------
(* A set of numbers that is not empty has a least element.                 *)
LEMMA NatMin ==
  ASSUME NEW T \in SUBSET Nat, T # {}
  PROVE  Min(T) \in T /\ \A y \in T : Min(T) <= y
<1>1. PICK x \in T : \A y \in T : ~(<<y, x>> \in OpToRel(<, Nat))
  BY NatLessThanWellFounded, WFMin
<1>2. \A y \in T : x <= y
  <2> TAKE y \in T
  <2>1. x \in Nat /\ y \in Nat
    OBVIOUS
  <2>2. ~(y < x)
    BY <1>1, <2>1 DEF OpToRel
  <2> QED BY <2>1, <2>2
<1> QED BY <1>1, <1>2 DEF Min

(* RemoveAt removes the element at a position and keeps the others.        *)
LEMMA RemoveAtFacts ==
  ASSUME NEW S, NEW q \in Seq(S), NEW i \in 1 .. Len(q)
  PROVE  /\ RemoveAt(q, i) \in Seq(S)
         /\ Len(RemoveAt(q, i)) = Len(q) - 1
         /\ \A j \in 1 .. Len(q) - 1 :
               RemoveAt(q, i)[j] = IF j < i THEN q[j] ELSE q[j + 1]
<1> DEFINE a == SubSeq(q, 1, i - 1)
           b == SubSeq(q, i + 1, Len(q))
<1>1. Len(q) \in Nat /\ \A k \in 1 .. Len(q) : q[k] \in S
  BY LenProperties, ElementOfSeq
<1>2. /\ a \in Seq(S) /\ Len(a) = i - 1
      /\ \A k \in 1 .. i - 1 : a[k] = q[k]
  <2>1. /\ a \in Seq(S)
        /\ Len(a) = IF 1 <= i - 1 THEN i - 1 - 1 + 1 ELSE 0
        /\ \A k \in 1 .. i - 1 - 1 + 1 : a[k] = q[1 + k - 1]
    BY <1>1, SubSeqProperties
  <2> QED BY <2>1, <1>1
<1>3. /\ b \in Seq(S) /\ Len(b) = Len(q) - i
      /\ \A k \in 1 .. Len(q) - i : b[k] = q[i + k]
  <2>1. /\ b \in Seq(S)
        /\ Len(b) = IF i + 1 <= Len(q) THEN Len(q) - (i + 1) + 1 ELSE 0
        /\ \A k \in 1 .. Len(q) - (i + 1) + 1 : b[k] = q[i + 1 + k - 1]
    BY <1>1, SubSeqProperties
  <2> QED BY <2>1, <1>1
<1>4. RemoveAt(q, i) = a \o b
  BY DEF RemoveAt
<1> HIDE DEF a, b
<1>5. /\ a \o b \in Seq(S) /\ Len(a \o b) = Len(a) + Len(b)
      /\ \A j \in 1 .. Len(a) + Len(b) :
            (a \o b)[j] = IF j <= Len(a) THEN a[j] ELSE b[j - Len(a)]
  BY <1>2, <1>3, ConcatProperties
<1> DEFINE c == a \o b
<1>6. \A j \in 1 .. Len(q) - 1 :
         c[j] = IF j <= i - 1 THEN a[j] ELSE b[j - (i - 1)]
  <2>1. Len(a) = i - 1 /\ Len(a) + Len(b) = Len(q) - 1
    BY <1>1, <1>2, <1>3
  <2>2. \A j \in 1 .. Len(a) + Len(b) :
           c[j] = IF j <= Len(a) THEN a[j] ELSE b[j - Len(a)]
    BY <1>5
  <2> HIDE DEF c
  <2> QED BY <2>1, <2>2
<1> HIDE DEF c
<1>7. ASSUME NEW j \in 1 .. Len(q) - 1
      PROVE  c[j] = IF j < i THEN q[j] ELSE q[j + 1]
  <2>1. c[j] = IF j <= i - 1 THEN a[j] ELSE b[j - (i - 1)]
    BY <1>6
  <2>2. j < i => c[j] = q[j]
    BY <2>1, <1>1, <1>2
  <2>3. ~(j < i) => c[j] = q[j + 1]
    <3> DEFINE k == j - (i - 1)
    <3> SUFFICES ASSUME ~(j < i) PROVE c[j] = q[j + 1]
      OBVIOUS
    <3>1. k \in 1 .. Len(q) - i /\ i + k = j + 1 /\ ~(j <= i - 1)
      BY <1>1
    <3>2. c[j] = b[k]
      BY <2>1, <3>1
    <3> HIDE DEF k
    <3>3. b[k] = q[i + k]
      BY <3>1, <1>3
    <3> QED BY <3>1, <3>2, <3>3
  <2> QED BY <2>2, <2>3
<1> QED BY <1>1, <1>2, <1>3, <1>4, <1>5, <1>6, <1>7 DEF c

(* The elements of a sequence, by its indices.                             *)
LEMMA ToSetFacts ==
  ASSUME NEW S, NEW q \in Seq(S)
  PROVE  /\ \A x : x \in ToSet(q) <=> \E i \in 1 .. Len(q) : q[i] = x
         /\ ToSet(q) \subseteq S
         /\ IsInjective(q) <=>
              \A i, j \in 1 .. Len(q) : q[i] = q[j] => i = j
<1>1. DOMAIN q = 1 .. Len(q) /\ \A k \in 1 .. Len(q) : q[k] \in S
  BY LenProperties, ElementOfSeq
<1> QED BY <1>1 DEF ToSet, IsInjective

(* RemoveFirst removes an element that a sequence holds once: the element  *)
(* is gone, the others remain, and none is there twice.                    *)
LEMMA RemoveFirstOnce ==
  ASSUME NEW S, NEW q \in Seq(S), NEW e, IsInjective(q)
  PROVE  /\ RemoveFirst(q, e) \in Seq(S)
         /\ ToSet(RemoveFirst(q, e)) = ToSet(q) \ {e}
         /\ IsInjective(RemoveFirst(q, e))
<1>1. Len(q) \in Nat
  BY LenProperties
<1>2. CASE ~ \E i \in 1 .. Len(q) : q[i] = e
  BY <1>2, ToSetFacts DEF RemoveFirst
<1>3. CASE \E i \in 1 .. Len(q) : q[i] = e
  <2> DEFINE I == {i \in 1 .. Len(q) : q[i] = e}
             k == Min(I)
             r == RemoveAt(q, k)
  <2>1. I \in SUBSET Nat /\ I # {}
    BY <1>3, <1>1
  <2>2. k \in I
    <3> HIDE DEF I
    <3> QED BY <2>1, NatMin
  <2>3. k \in 1 .. Len(q) /\ q[k] = e
    BY <2>2
  <2>4. RemoveFirst(q, e) = r
    BY <1>3, <2>1 DEF RemoveFirst, SelectInSeq
  <2> HIDE DEF k
  <2>5. /\ r \in Seq(S) /\ Len(r) = Len(q) - 1
        /\ \A j \in 1 .. Len(q) - 1 : r[j] = IF j < k THEN q[j] ELSE q[j + 1]
    BY <2>3, RemoveAtFacts
  <2> HIDE DEF r, I
  <2>6. \A i, j \in 1 .. Len(q) : q[i] = q[j] => i = j
    BY ToSetFacts
  <2>7. \A j \in 1 .. Len(r) :
           /\ \E i \in 1 .. Len(q) : r[j] = q[i] /\ i # k
           /\ r[j] # e
    <3> TAKE j \in 1 .. Len(r)
    <3> DEFINE i == IF j < k THEN j ELSE j + 1
    <3>1. i \in 1 .. Len(q) /\ i # k /\ r[j] = q[i]
      BY <2>3, <2>5, <1>1
    <3>2. q[i] # e
      BY <3>1, <2>3, <2>6
    <3> QED BY <3>1, <3>2
  <2>8. \A i \in 1 .. Len(q) : i # k => \E j \in 1 .. Len(r) : r[j] = q[i]
    <3> SUFFICES ASSUME NEW i \in 1 .. Len(q), i # k
                 PROVE  \E j \in 1 .. Len(r) : r[j] = q[i]
      OBVIOUS
    <3> DEFINE j == IF i < k THEN i ELSE i - 1
    <3>1. j \in 1 .. Len(r) /\ r[j] = q[i]
      BY <2>3, <2>5, <1>1
    <3> QED BY <3>1
  <2>9. \A i, j \in 1 .. Len(r) : r[i] = r[j] => i = j
    <3> SUFFICES ASSUME NEW i \in 1 .. Len(r), NEW j \in 1 .. Len(r), r[i] = r[j]
                 PROVE  i = j
      OBVIOUS
    <3> DEFINE at(x) == IF x < k THEN x ELSE x + 1
    <3>1. at(i) \in 1 .. Len(q) /\ at(j) \in 1 .. Len(q)
          /\ q[at(i)] = r[i] /\ q[at(j)] = r[j]
      BY <2>3, <2>5, <1>1
    <3>2. at(i) = at(j)
      BY <3>1, <2>6
    <3> QED BY <3>2, <2>3, <2>5, <1>1
  <2>10. ToSet(r) = ToSet(q) \ {e}
    <3>1. \A x : x \in ToSet(r) <=> \E i \in 1 .. Len(r) : r[i] = x
      BY <2>5, ToSetFacts
    <3>2. \A x : x \in ToSet(q) <=> \E i \in 1 .. Len(q) : q[i] = x
      BY ToSetFacts
    <3>3. ASSUME NEW x PROVE x \in ToSet(r) <=> x \in ToSet(q) /\ x # e
      BY <3>1, <3>2, <2>3, <2>7, <2>8
    <3> QED BY <3>3
  <2>11. IsInjective(r)
    BY <2>5, <2>9, ToSetFacts
  <2> QED BY <2>4, <2>5, <2>10, <2>11
<1> QED BY <1>2, <1>3

(* A sequence of SetToSeqs has exactly the elements of the set, each once. *)
LEMMA SetToSeqsFacts ==
  ASSUME NEW T, IsFiniteSet(T), NEW f \in SetToSeqs(T)
  PROVE  f \in Seq(T) /\ ToSet(f) = T /\ IsInjective(f)
<1> DEFINE n == Cardinality(T)
<1>1. n \in Nat
  BY FS_CardinalityType
<1>2. f \in [1 .. n -> T] /\ \A i, j \in 1 .. n : i # j => f[i] # f[j]
  BY DEF SetToSeqs
<1> HIDE DEF n
<1>3. f \in Injection(1 .. n, T)
  BY <1>2 DEF Injection, IsInjective
<1>4. Cardinality(1 .. n) = n
  BY <1>1, FS_Interval
<1>5. f \in Surjection(1 .. n, T)
  BY <1>3, <1>4, FS_Injection DEF n
<1>6. \A x \in T : \E i \in 1 .. n : f[i] = x
  BY <1>5 DEF Surjection
<1> QED BY <1>1, <1>2, <1>6 DEF ToSet, IsInjective

(* Two sequences without repetitions and without a common element.         *)
LEMMA ConcatOnce ==
  ASSUME NEW S, NEW q \in Seq(S), NEW r \in Seq(S),
         IsInjective(q), IsInjective(r), ToSet(q) \cap ToSet(r) = {}
  PROVE  /\ q \o r \in Seq(S)
         /\ ToSet(q \o r) = ToSet(q) \union ToSet(r)
         /\ IsInjective(q \o r)
<1>1. /\ q \o r \in Seq(S) /\ Len(q \o r) = Len(q) + Len(r)
      /\ \A i \in 1 .. Len(q) + Len(r) :
            (q \o r)[i] = IF i <= Len(q) THEN q[i] ELSE r[i - Len(q)]
  BY ConcatProperties
<1>2. Len(q) \in Nat /\ Len(r) \in Nat
  BY LenProperties
<1> DEFINE t == q \o r
<1> HIDE DEF t
<1>3. /\ \A i \in 1 .. Len(q) : t[i] = q[i]
      /\ \A i \in 1 .. Len(r) : Len(q) + i \in 1 .. Len(t) /\ t[Len(q) + i] = r[i]
  BY <1>1, <1>2 DEF t
<1>4. \A i \in 1 .. Len(t) :
         \/ i \in 1 .. Len(q) /\ t[i] = q[i]
         \/ i - Len(q) \in 1 .. Len(r) /\ t[i] = r[i - Len(q)]
  BY <1>1, <1>2 DEF t
<1>5. /\ \A x : x \in ToSet(q) <=> \E i \in 1 .. Len(q) : q[i] = x
      /\ \A i, j \in 1 .. Len(q) : q[i] = q[j] => i = j
  BY ToSetFacts
<1>6. /\ \A x : x \in ToSet(r) <=> \E i \in 1 .. Len(r) : r[i] = x
      /\ \A i, j \in 1 .. Len(r) : r[i] = r[j] => i = j
  BY ToSetFacts
<1>7. /\ \A x : x \in ToSet(t) <=> \E i \in 1 .. Len(t) : t[i] = x
      /\ IsInjective(t) <=> \A i, j \in 1 .. Len(t) : t[i] = t[j] => i = j
  BY <1>1, ToSetFacts DEF t
<1>8. ASSUME NEW x PROVE x \in ToSet(t) <=> x \in ToSet(q) \/ x \in ToSet(r)
  <2>1. x \in ToSet(t) => x \in ToSet(q) \/ x \in ToSet(r)
    BY <1>4, <1>5, <1>6, <1>7
  <2>2. x \in ToSet(q) => x \in ToSet(t)
    BY <1>1, <1>2, <1>3, <1>5, <1>7 DEF t
  <2>3. x \in ToSet(r) => x \in ToSet(t)
    BY <1>3, <1>6, <1>7
  <2> QED BY <2>1, <2>2, <2>3
<1>9. ASSUME NEW i \in 1 .. Len(t), NEW j \in 1 .. Len(t), t[i] = t[j]
      PROVE  i = j
  <2>1. \A a \in 1 .. Len(q), b \in 1 .. Len(r) : q[a] # r[b]
    BY <1>5, <1>6
  <2>2. i \in Nat /\ j \in Nat /\ Len(q) \in Nat
    BY <1>2
  <2>3. CASE i \in 1 .. Len(q) /\ t[i] = q[i]
    BY <2>1, <2>3, <1>4, <1>5, <1>9
  <2>4. CASE i - Len(q) \in 1 .. Len(r) /\ t[i] = r[i - Len(q)]
    <3>1. j - Len(q) \in 1 .. Len(r) /\ t[j] = r[j - Len(q)]
      BY <2>1, <2>4, <1>4, <1>9
    <3>2. i - Len(q) = j - Len(q)
      BY <2>4, <3>1, <1>6, <1>9
    <3> QED BY <2>2, <3>2
  <2> QED BY <2>3, <2>4, <1>4
<1>10. ToSet(t) = ToSet(q) \union ToSet(r)
  BY <1>8
<1>11. IsInjective(t)
  BY <1>7, <1>9
<1> QED BY <1>1, <1>10, <1>11 DEF t
-----------------------------------------------------------------------------
(* The invariant holds of a mailbox that was just made.                    *)
LEMMA MailInvInit == Init => MailInv
<1> SUFFICES ASSUME Init PROVE MailInv
  OBVIOUS
<1> USE DEF Init, NoTid
<1>1. TypeOK
  <2>1. messages \in Seq(Message) /\ Len(messages) = 0
    BY EmptySeq
  <2>2. sock_messages \in Seq(1 .. MaxTid)
    BY EmptySeq
  <2>3. /\ tid \in [Sock -> 0 .. MaxTid] /\ nextTid \in 1 .. MaxTid + 1
        /\ pipe \in 0 .. PipeSize /\ data \in [Sock -> 0 .. MaxData]
        /\ cur \in Sock \union 0 .. MaxTid
    BY MailboxAssumption
  <2>4. Len(messages) <= MaxList
    BY <2>1, MailboxAssumption
  <2>5. /\ bound_socks \subseteq Sock /\ ready_socks \subseteq Sock
        /\ eof \subseteq Sock /\ closed \subseteq Sock
        /\ stale \subseteq Sock /\ orphans \subseteq 1 .. MaxTid
        /\ spc \in [Sender -> {"idle", "full", "woken", "raise"}]
        /\ out \in [Sender -> {"call", "reply"}]
        /\ asked \subseteq Sender
    OBVIOUS
  <2>6. /\ opc \in {"drain", "look", "select", "serve", "read", "clear",
                    "clear_last", "unbind", "buffered", "aborted"}
        /\ want \in {"any", "call", "reply"} /\ fd_first \in BOOLEAN
    OBVIOUS
  <2> QED BY <2>1, <2>2, <2>3, <2>4, <2>5, <2>6 DEF TypeOK
<1>2. BindingInv
  BY DEF BindingInv
<1>3. ReadinessAgrees
  <2>1. ToSet(sock_messages) = {} /\ IsInjective(sock_messages)
    BY DEF ToSet, IsInjective
  <2> QED BY <2>1 DEF ReadinessAgrees
<1>4. EventInv /\ SignalInv /\ NoLostWakeup
  BY DEF EventInv, SignalInv, NoLostWakeup
<1> QED BY <1>1, <1>2, <1>3, <1>4 DEF MailInv

(* A sender raises the pipe after its put, and the owner drains the pipe   *)
(* before it looks: no step leaves the owner asleep on a message.          *)
LEMMA WakeupNext ==
  ASSUME TypeOK, NoLostWakeup, [Next]_vars
  PROVE  NoLostWakeup'
<1> USE DEF vars, mail, socks, peers, ctl, senders, history
<1>1. CASE opc' # "select"
  BY <1>1 DEF NoLostWakeup
<1>2. CASE LookInVain
  <2>1. ~ThreadMessage' /\ ~IoMessage'
    BY <1>2 DEF LookInVain, ThreadMessage, IoMessage, Matches
  <2> QED BY <2>1 DEF NoLostWakeup
<1>3. ASSUME opc' = opc, want' = want, messages' = messages,
             sock_messages' = sock_messages, pipe' = pipe,
             \A p \in Sender : spc[p] = "raise" => spc'[p] = "raise"
      PROVE  NoLostWakeup'
  BY <1>3 DEF NoLostWakeup, ThreadMessage, IoMessage, Matches
<1>4. ASSUME NEW p \in Sender, NEW m, PutOrWait(p, m), spc[p] # "raise",
             UNCHANGED <<sock_messages, pipe, opc, want>>
      PROVE  NoLostWakeup'
  <2>1. CASE ~Full
    <3>1. spc'[p] = "raise"
      BY <1>4, <2>1 DEF PutOrWait, TypeOK
    <3> QED BY <3>1 DEF NoLostWakeup
  <2>2. CASE Full
    <3>1. /\ messages' = messages
          /\ \A r \in Sender : spc[r] = "raise" => spc'[r] = "raise"
      BY <1>4, <2>2 DEF PutOrWait, TypeOK
    <3> QED BY <1>3, <1>4, <3>1
  <2> QED BY <2>1, <2>2
<1>5. ASSUME NEW p \in Sender, Send(p) PROVE NoLostWakeup'
  BY <1>4, <1>5 DEF Send
<1>6. ASSUME NEW p \in Sender, PutAgain(p) PROVE NoLostWakeup'
  BY <1>4, <1>6 DEF PutAgain
<1>7. ASSUME NEW p \in Sender, Raise(p) PROVE NoLostWakeup'
  <2>1. pipe' > 0
    BY <1>7, MailboxAssumption DEF Raise, Lesser, TypeOK
  <2> QED BY <2>1 DEF NoLostWakeup
<1>8. ASSUME NEW s \in Sock, Arrive(s) \/ PeerClose(s) \/ CloseBound(s)
      PROVE  NoLostWakeup'
  BY <1>3, <1>8 DEF Arrive, PeerClose, CloseBound
<1>9. CASE Owner
  <2>1. Owner => opc' # "select" \/ LookInVain
    BY DEF Owner, Drain, PollSocket, PollThread, Recv, LookInVain, WaitForInput,
           Done, Read, ReadAborts, ReadUnpolled, ReadFrom, EndOfInput, ClearReady,
           Unbind, RemoveDaemon, Bind, Call
  <2> QED BY <2>1, <1>1, <1>2, <1>9
<1>11. CASE WaitFails
  BY <1>3, <1>11 DEF WaitFails, UnbindUncleared, UnbindAll
<1>10. CASE UNCHANGED vars
  BY <1>3, <1>10
<1> QED BY <1>5, <1>6, <1>7, <1>8, <1>9, <1>10, <1>11 DEF Next

(* Removing a message makes room for one sender and wakes one: a sender    *)
(* that still sleeps does so behind enough others that are awake.          *)
LEMMA SignalNext ==
  ASSUME TypeOK, SignalInv, [Next]_vars
  PROVE  SignalInv'
<1> USE DEF vars, mail, socks, peers, ctl, senders, history
<1> DEFINE W == wokenSenders
           C == Cardinality(W)
<1>a. /\ IsFiniteSet(W) /\ C \in Nat
      /\ \A p : C - 1 <= Cardinality(W \ {p})
      /\ \A p : p \notin W => Cardinality(W \union {p}) = C + 1
  <2>1. IsFiniteSet(W)
    BY MailboxAssumption, FS_Subset DEF wokenSenders
  <2> HIDE DEF W
  <2>2. C \in Nat
    BY <2>1, FS_CardinalityType
  <2> QED BY <2>1, <2>2, FS_AddElement, FS_RemoveElement
<1>b. Len(messages) \in Nat
  BY LenProperties DEF TypeOK
<1>1. ASSUME messages' = messages,
             \A p \in Sender : spc'[p] \in {"full", "woken"} => spc'[p] = spc[p],
             \A p \in Sender : spc[p] = "woken" => spc'[p] = "woken"
      PROVE  SignalInv'
  <2>1. wokenSenders' = wokenSenders
    BY <1>1 DEF wokenSenders
  <2> QED BY <2>1, <1>1 DEF SignalInv
<1>2. ASSUME NEW p \in Sender, NEW m \in Message, PutOrWait(p, m),
             spc[p] \in {"idle", "woken"}
      PROVE  SignalInv'
  <2>1. CASE ~Full
    <3>1. Len(messages') = Len(messages) + 1
      BY <1>2, <2>1, AppendProperties DEF PutOrWait, TypeOK
    <3>2. wokenSenders' = W \ {p} /\ \A r \in Sender : spc'[r] = "full" => spc[r] = "full"
      BY <1>2, <2>1 DEF PutOrWait, TypeOK, wokenSenders
    <3>3. Cardinality(wokenSenders') \in Nat /\ Cardinality(wokenSenders') >= C - 1
      BY <3>2, <1>a, FS_RemoveElement, FS_CardinalityType
    <3> HIDE DEF W
    <3> QED BY <3>1, <3>2, <3>3, <1>a, <1>b, MailboxAssumption DEF SignalInv, W
  <2>2. CASE Full
    <3>1. Len(messages') = MaxList
      BY <1>2, <2>2 DEF PutOrWait, Full
    <3>2. wokenSenders' = W \ {p}
      BY <1>2, <2>2 DEF PutOrWait, TypeOK, wokenSenders
    <3>3. Cardinality(wokenSenders') \in Nat
      BY <3>2, <1>a, FS_RemoveElement, FS_CardinalityType
    <3> QED BY <3>1, <3>3, MailboxAssumption DEF SignalInv
  <2> QED BY <2>1, <2>2
<1>3. ASSUME NEW p \in Sender, Send(p) PROVE SignalInv'
  <2>1. [from |-> p, tag |-> IF p \in asked THEN "reply" ELSE "call"] \in Message
    BY DEF Message
  <2> QED BY <2>1, <1>2, <1>3 DEF Send
<1>4. ASSUME NEW p \in Sender, PutAgain(p) PROVE SignalInv'
  <2>1. [from |-> p, tag |-> out[p]] \in Message
    BY DEF Message, TypeOK
  <2> QED BY <2>1, <1>2, <1>4 DEF PutAgain
<1>5. ASSUME NEW p \in Sender, Raise(p) PROVE SignalInv'
  BY <1>1, <1>5 DEF Raise, TypeOK
<1>6. CASE Recv
  <2>1. Len(messages') = Len(messages) - 1 /\ Len(messages) >= 1
    <3> DEFINE I == {i \in 1 .. Len(messages) : Matches(messages[i])}
    <3>1. I \in SUBSET Nat /\ I # {}
      <4>1. DOMAIN messages = 1 .. Len(messages)
        BY LenProperties DEF TypeOK
      <4>2. PICK i \in DOMAIN messages : Matches(messages[i])
        BY <1>6 DEF Recv, ThreadMessage
      <4> QED BY <4>1, <4>2, <1>b
    <3>2. SelectInSeq(messages, Matches) = Min(I)
      BY <3>1 DEF SelectInSeq
    <3> HIDE DEF I
    <3>3. Min(I) \in I
      BY <3>1, NatMin
    <3>4. Min(I) \in 1 .. Len(messages)
      BY <3>3 DEF I
    <3> QED BY <3>2, <3>4, <1>6, <1>b, RemoveAtFacts DEF Recv, TypeOK
  <2>2. CASE ~(\E p \in Sender : spc[p] = "full")
    BY <2>2, <1>6 DEF Recv, SignalSender, SignalInv
  <2>3. ASSUME NEW p \in Sender, spc[p] = "full",
               spc' = [spc EXCEPT ![p] = "woken"]
        PROVE  SignalInv'
    <3>1. wokenSenders' = W \union {p} /\ p \notin W
      BY <2>3 DEF wokenSenders, TypeOK
    <3>2. Cardinality(wokenSenders') = C + 1
      BY <3>1, <1>a
    <3>3. Len(messages) + C >= MaxList
      BY <2>3 DEF SignalInv
    <3> QED BY <3>2, <3>3, <2>1, <1>a, <1>b, MailboxAssumption DEF SignalInv
  <2> QED BY <2>2, <2>3, <1>6 DEF Recv, SignalSender
<1>7. CASE Owner
  <2>1. Owner => Recv \/ UNCHANGED <<messages, spc>>
    BY DEF Owner, Drain, PollSocket, PollThread, Recv, LookInVain, WaitForInput,
           Done, Read, ReadAborts, ReadUnpolled, ReadFrom, EndOfInput, ClearReady,
           Unbind, UnbindAll, RemoveDaemon, UnbindUncleared, Bind, Call
  <2> QED BY <2>1, <1>1, <1>6, <1>7
<1>8. ASSUME NEW s \in Sock, Arrive(s) \/ PeerClose(s) \/ CloseBound(s)
      PROVE  SignalInv'
  BY <1>1, <1>8 DEF Arrive, PeerClose, CloseBound
<1>9. CASE UNCHANGED vars \/ WaitFails
  BY <1>1, <1>9 DEF WaitFails, UnbindUncleared, UnbindAll
<1> QED BY <1>3, <1>4, <1>5, <1>7, <1>8, <1>9 DEF Next

(* What the steps leave alone.                                             *)
LEMMA Frame ==
  ASSUME [Next]_vars
  PROVE  /\ \/ UNCHANGED <<bound_socks, tid, nextTid, orphans>>
            \/ \E s \in Sock : Bind(s) \/ RemoveDaemon(s)
            \/ WaitFails \/ Unbind
         /\ \/ UNCHANGED <<ready_socks, sock_messages, stale>>
            \/ \E s \in Sock : RemoveDaemon(s)
            \/ WaitFails \/ WaitForInput \/ ClearReady
<1> USE DEF vars, mail, socks, peers, ctl, senders, history
<1>1. CASE Owner
  BY <1>1 DEF Owner, Drain, PollSocket, PollThread, Recv, LookInVain, WaitForInput,
           Done, Read, ReadAborts, ReadUnpolled, ReadFrom, ClearReady, Forget, Unbind,
           UnbindAll, Bind, Call
<1>2. ASSUME NEW p \in Sender, Send(p) \/ PutAgain(p) \/ Raise(p)
      PROVE  UNCHANGED <<bound_socks, tid, nextTid, ready_socks, sock_messages,
                         stale, orphans>>
  BY <1>2 DEF Send, PutAgain, Raise
<1>3. ASSUME NEW s \in Sock, Arrive(s) \/ PeerClose(s) \/ CloseBound(s)
      PROVE  UNCHANGED <<bound_socks, tid, nextTid, ready_socks, sock_messages,
                         stale, orphans>>
  BY <1>3 DEF Arrive, PeerClose, CloseBound
<1>4. CASE UNCHANGED vars \/ WaitFails
  BY <1>4
<1> QED BY <1>1, <1>2, <1>3, <1>4 DEF Next

(* Sockets are unbound without clear_ready in two places.                  *)
LEMMA Uncleared ==
  ASSUME TypeOK, WaitFails \/ \E s \in Sock : RemoveDaemon(s)
  PROVE  \E S \in SUBSET Sock : UnbindUncleared(S) /\ UNCHANGED <<opc, cur>>
BY DEF WaitFails, RemoveDaemon, TypeOK

(* A descriptor is bound to a new entity, and unbound from it.             *)
LEMMA BindingNext ==
  ASSUME TypeOK, BindingInv, EventInv, [Next]_vars
  PROVE  BindingInv'
<1>1. CASE UNCHANGED <<bound_socks, tid, nextTid, orphans>>
  BY <1>1 DEF BindingInv
<1>2. ASSUME NEW s \in Sock, Bind(s) PROVE BindingInv'
  <2>1. /\ tid' = [tid EXCEPT ![s] = nextTid] /\ nextTid' = nextTid + 1
        /\ bound_socks' = bound_socks \union {s} /\ orphans' = orphans
    BY <1>2 DEF Bind, history
  <2>2. \A t \in orphans : t \in Nat
    BY MailboxAssumption DEF TypeOK
  <2> QED BY <2>1, <2>2 DEF BindingInv, TypeOK, NoTid
<1>3. CASE Unbind
  <2>1. cur \in bound_socks /\ nextTid > NoTid
    BY <1>3 DEF Unbind, EventInv, TypeOK, NoTid
  <2>2. /\ tid' = [s \in Sock |-> IF s = cur THEN NoTid ELSE tid[s]]
        /\ bound_socks' = bound_socks \ {cur}
        /\ nextTid' = nextTid /\ orphans' = orphans
    BY <1>3 DEF Unbind, UnbindAll, history
  <2> QED BY <2>1, <2>2 DEF BindingInv, TypeOK
<1>4. ASSUME NEW S \in SUBSET Sock, UnbindUncleared(S) PROVE BindingInv'
  <2>1. /\ tid' = [s \in Sock |-> IF s \in S THEN NoTid ELSE tid[s]]
        /\ bound_socks' = bound_socks \ S /\ nextTid' = nextTid
        /\ orphans' = orphans
                         \union ({tid[s] : s \in S} \intersect ToSet(sock_messages))
    BY <1>4 DEF UnbindUncleared, UnbindAll
  <2>2. nextTid > NoTid
    BY DEF TypeOK, NoTid
  <2>3. ASSUME NEW t \in orphans' \ orphans
        PROVE  t < nextTid /\ \A u \in bound_socks' : tid[u] # t
    <3>1. PICK s \in S : tid[s] = t
      BY <2>1, <2>3
    <3>2. t \in 1 .. MaxTid
      BY <2>1, <2>3, ToSetFacts DEF TypeOK
    <3>3. s \in bound_socks
      BY <3>1, <3>2 DEF BindingInv, NoTid
    <3> QED BY <2>1, <3>1, <3>3 DEF BindingInv, TypeOK
  <2> QED BY <2>1, <2>2, <2>3 DEF BindingInv, TypeOK
<1> QED BY <1>1, <1>2, <1>3, <1>4, Frame, Uncleared

(* A socket and its message become ready, and are forgotten, together; and *)
(* what an unbind leaves of them is known.                                 *)
LEMMA ReadyNext ==
  ASSUME TypeOK, BindingInv, EventInv, ReadinessAgrees, [Next]_vars
  PROVE  ReadinessAgrees'
<1> DEFINE live == ready_socks \ stale
<1>0. /\ {tid[s] : s \in live} = ToSet(sock_messages) \ orphans
      /\ IsInjective(sock_messages) /\ live \subseteq bound_socks
      /\ sock_messages \in Seq(1 .. MaxTid) /\ ToSet(sock_messages) \subseteq 1 .. MaxTid
      /\ bound_socks \subseteq Sock /\ stale \subseteq ready_socks
      /\ \A s \in Sock : tid[s] # NoTid <=> s \in bound_socks
      /\ \A s, u \in bound_socks : tid[s] = tid[u] => s = u
      /\ \A s \in bound_socks : tid[s] \notin orphans
  BY ToSetFacts DEF ReadinessAgrees, BindingInv, EventInv, TypeOK
<1>1. CASE UNCHANGED <<ready_socks, sock_messages, stale, orphans>>
  <2>1. ASSUME live \subseteq bound_socks',
               \A s \in live : tid'[s] = tid[s]
        PROVE  ReadinessAgrees'
    <3>1. live' = live /\ {tid'[s] : s \in live'} = {tid[s] : s \in live}
      BY <1>1, <2>1
    <3> QED BY <3>1, <2>1, <1>0, <1>1 DEF ReadinessAgrees
  <2>2. CASE UNCHANGED <<bound_socks, tid, nextTid>>
    BY <2>1, <2>2, <1>0
  <2>3. ASSUME NEW s \in Sock, Bind(s) PROVE ReadinessAgrees'
    BY <2>1, <2>3, <1>0 DEF Bind, TypeOK
  <2>4. CASE Unbind
    BY <2>1, <2>4, <1>0 DEF Unbind, UnbindAll, EventInv, TypeOK
  <2> HIDE DEF live
  <2>5. \/ UNCHANGED <<bound_socks, tid, nextTid>>
        \/ \E s \in Sock : Bind(s)
        \/ Unbind
        \/ \E S \in SUBSET Sock : UnbindUncleared(S)
    BY Frame, Uncleared
  <2>6. ASSUME NEW S \in SUBSET Sock, UnbindUncleared(S) PROVE ReadinessAgrees'
    <3>1. S \intersect live = {}
      BY <2>6, <1>1 DEF UnbindUncleared, live
    <3> QED BY <2>1, <2>6, <3>1, <1>0 DEF UnbindUncleared, UnbindAll
  <2> QED BY <2>2, <2>3, <2>4, <2>5, <2>6
<1>2. CASE WaitForInput
  <2> DEFINE new == {s \in bound_socks \ ready_socks : Readable(s)}
             news == {tid[s] : s \in new}
  <2>1. /\ ready_socks' = ready_socks \union new
        /\ UNCHANGED <<bound_socks, tid, stale, orphans>>
        /\ \E f \in SetToSeqs(news) : sock_messages' = sock_messages \o f
    BY <1>2 DEF WaitForInput, history
  <2>2. PICK f \in SetToSeqs(news) : sock_messages' = sock_messages \o f
    BY <2>1
  <2>3. news \subseteq 1 .. MaxTid /\ IsFiniteSet(news)
    <3>1. news \subseteq 1 .. MaxTid
      BY <1>0 DEF BindingInv, TypeOK, NoTid
    <3>2. IsFiniteSet(1 .. MaxTid)
      BY MailboxAssumption, FS_Interval
    <3> HIDE DEF news
    <3> QED BY <3>1, <3>2, FS_Subset
  <2>4. ToSet(sock_messages) \cap news = {} /\ news \cap orphans = {}
    BY <1>0
  <2>5. {tid[s] : s \in live \union new} = (ToSet(sock_messages) \ orphans) \union news
    BY <1>0
  <2>9. live' = live \union new
    BY <2>1, <1>0
  <2> HIDE DEF news
  <2>6. f \in Seq(news) /\ ToSet(f) = news /\ IsInjective(f)
    BY <2>3, SetToSeqsFacts
  <2>7. f \in Seq(1 .. MaxTid)
    BY <2>3, <2>6, SeqMonotonic
  <2>8. /\ ToSet(sock_messages \o f) = ToSet(sock_messages) \union news
        /\ IsInjective(sock_messages \o f)
    BY <2>4, <2>6, <2>7, <1>0, ConcatOnce
  <2>10. {tid'[s] : s \in live'} = ToSet(sock_messages') \ orphans'
    BY <2>1, <2>2, <2>4, <2>5, <2>8, <2>9
  <2> QED BY <2>1, <2>2, <2>8, <2>9, <2>10, <1>0 DEF ReadinessAgrees
<1>3. CASE ClearReady
  <2>1. /\ cur \in Sock /\ UNCHANGED <<bound_socks, tid, orphans>>
        /\ ready_socks' = ready_socks \ {cur} /\ stale' = stale \ {cur}
        /\ sock_messages' = RemoveFirst(sock_messages, tid[cur])
    BY <1>3, <1>0 DEF ClearReady, Forget, EventInv
  <2>2. /\ ToSet(sock_messages') = ToSet(sock_messages) \ {tid[cur]}
        /\ IsInjective(sock_messages')
    BY <2>1, <1>0, RemoveFirstOnce
  <2>3. live' = live \ {cur}
    BY <2>1
  <2>4. {tid[s] : s \in live \ {cur}} = {tid[s] : s \in live} \ {tid[cur]}
    <3>1. \A s \in live : tid[s] = tid[cur] => s = cur
      BY <2>1, <1>0
    <3> QED BY <3>1
  <2>5. {tid'[s] : s \in live'} = ToSet(sock_messages') \ orphans'
    BY <2>1, <2>2, <2>3, <2>4, <1>0
  <2> QED BY <2>1, <2>2, <2>3, <2>5, <1>0 DEF ReadinessAgrees
<1>4. ASSUME NEW S \in SUBSET Sock, UnbindUncleared(S) PROVE ReadinessAgrees'
  <2> DEFINE gone == {tid[s] : s \in S} \intersect ToSet(sock_messages)
  <2>1. /\ ready_socks' = ready_socks /\ sock_messages' = sock_messages
        /\ stale' = stale \union (S \intersect ready_socks)
        /\ orphans' = orphans \union gone
        /\ bound_socks' = bound_socks \ S
        /\ tid' = [s \in Sock |-> IF s \in S THEN NoTid ELSE tid[s]]
    BY <1>4 DEF UnbindUncleared, UnbindAll, mail
  <2>2. live' = live \ S /\ {tid'[s] : s \in live'} = {tid[s] : s \in live \ S}
    BY <2>1, <1>0
  <2>3. \A s \in live, u \in S : tid[s] = tid[u] => s = u
    BY <1>0
  <2>4. {tid[s] : s \in live \ S} = {tid[s] : s \in live} \ gone
    <3>1. \A s \in live : tid[s] \in ToSet(sock_messages)
      BY <1>0
    <3> HIDE DEF live
    <3> QED BY <2>3, <3>1
  <2>5. {tid'[s] : s \in live'} = ToSet(sock_messages') \ orphans'
    BY <2>1, <2>2, <2>4, <1>0
  <2> QED BY <2>1, <2>2, <2>5, <1>0 DEF ReadinessAgrees
<1>5. \/ UNCHANGED <<ready_socks, sock_messages, stale, orphans>>
      \/ WaitForInput \/ ClearReady
      \/ \E S \in SUBSET Sock : UnbindUncleared(S)
  BY Frame, Uncleared DEF Bind, Unbind, history
<1> QED BY <1>1, <1>2, <1>3, <1>4, <1>5

(* Input stays until it is read, and a socket whose input was read is      *)
(* forgotten before anything else is done.                                 *)
LEMMA EventNext ==
  ASSUME TypeOK, BindingInv, EventInv, ReadinessAgrees, [Next]_vars
  PROVE  EventInv'
<1> USE DEF vars, mail, socks, peers, ctl, senders, history
<1> DEFINE serving == {"read", "clear", "clear_last", "unbind"}
<1>0. /\ ready_socks \ stale \subseteq bound_socks /\ bound_socks \subseteq Sock
      /\ ready_socks \subseteq Sock /\ closed \subseteq Sock
      /\ data \in [Sock -> 0 .. MaxData] /\ eof \subseteq Sock
      /\ tid \in [Sock -> 0 .. MaxTid]
  BY DEF TypeOK, ReadinessAgrees
<1>1. ASSUME opc \notin serving, opc' \notin serving,
             UNCHANGED <<ready_socks, stale, data, eof, closed>>
      PROVE  EventInv'
  BY <1>1 DEF EventInv, Returns, Readable
<1>2. ASSUME UNCHANGED <<socks, opc, cur, stale, orphans>>,
             \A s \in Sock : Returns(s) => Returns(s)'
      PROVE  EventInv'
  <2>1. \A s \in ready_socks : Returns(s) => Returns(s)'
    BY <1>2, <1>0
  <2> QED BY <1>2, <2>1, <1>0 DEF EventInv
<1>3. CASE PollSocket
  <2>1. /\ opc = "look" /\ opc' = "read" /\ cur' = Head(sock_messages)
        /\ sock_messages # <<>> /\ UNCHANGED <<socks, peers, history>>
    BY <1>3 DEF PollSocket, IoMessage
  <2>2. Head(sock_messages) \in ToSet(sock_messages)
    <3>1. Len(sock_messages) \in Nat \ {0} /\ Head(sock_messages) = sock_messages[1]
      BY <2>1, EmptySeq DEF TypeOK
    <3> QED BY <3>1, ToSetFacts DEF TypeOK
  <2>3. cur' \in orphans \/ \E s \in ready_socks \ stale : tid[s] = cur'
    BY <2>1, <2>2 DEF ReadinessAgrees
  <2> QED BY <2>1, <2>3 DEF EventInv, Returns, Readable
<1>4. CASE WaitForInput
  BY <1>4 DEF WaitForInput, EventInv, Returns, Readable
<1>5. ASSUME NEW s \in bound_socks, ReadFrom(s), opc \in {"read", "serve"}
      PROVE  EventInv'
  <2>1. /\ cur' = s /\ opc' \in {"clear", "clear_last"}
        /\ UNCHANGED <<socks, eof, closed, history>>
        /\ \A u \in Sock : u # s => data'[u] = data[u]
    BY <1>5, <1>0 DEF ReadFrom, EndOfInput
  <2>2. \A u \in ready_socks \ stale : u = s \/ Returns(u)'
    BY <1>5, <2>1, <1>0 DEF EventInv, Returns, Readable
  <2> QED BY <2>1, <2>2, <1>0 DEF EventInv
<1>6. CASE Read
  <2>1. PICK s \in Sock : tid[s] = cur /\ ReadFrom(s)
    BY <1>6 DEF Read
  <2>2. opc = "read"
    BY <1>6 DEF Read
  <2>3. cur # NoTid
    BY <2>2, <1>0 DEF EventInv, BindingInv, TypeOK, NoTid
  <2>4. s \in bound_socks
    BY <2>1, <2>3 DEF BindingInv
  <2> QED BY <2>1, <2>2, <2>4, <1>5
<1>7. ASSUME NEW s \in Sock, ReadUnpolled(s) PROVE EventInv'
  BY <1>5, <1>7 DEF ReadUnpolled
<1>8. CASE ClearReady
  BY <1>8, <1>0 DEF ClearReady, Forget, EventInv, Returns, Readable
<1>9. CASE Unbind
  BY <1>9, <1>0 DEF Unbind, UnbindAll, EventInv, Returns, Readable
<1>10. ASSUME NEW S \in SUBSET Sock, UnbindUncleared(S), UNCHANGED <<opc, cur>>,
              opc \in {"serve", "clear", "buffered", "select"}
       PROVE  EventInv'
  <2>1. /\ ready_socks' = ready_socks
        /\ stale' = stale \union (S \intersect ready_socks)
    BY <1>10 DEF UnbindUncleared, UnbindAll
  <2>2. \A s \in Sock \ S : Returns(s)' <=> Returns(s)
    BY <1>10 DEF UnbindUncleared, UnbindAll, Returns, Readable
  <2> QED BY <1>10, <2>1, <2>2, <1>0 DEF EventInv
<1>11. CASE Owner
  <2>1. \/ PollSocket \/ WaitForInput \/ Read \/ ClearReady \/ Unbind
        \/ \E s \in Sock : ReadUnpolled(s)
        \/ \E s \in Sock : RemoveDaemon(s)
        \/ /\ opc' \notin serving
           /\ UNCHANGED <<ready_socks, stale, data, eof, closed>>
           /\ opc \notin serving \/ ReadAborts
    BY <1>11 DEF Owner, Drain, PollThread, Recv, LookInVain, Done, ReadAborts, Bind, Call
  <2>2. CASE ReadAborts
    BY <2>2 DEF ReadAborts, EventInv, Returns, Readable
  <2>3. ASSUME NEW s \in Sock, RemoveDaemon(s) PROVE EventInv'
    <3>1. /\ UnbindUncleared({s}) /\ UNCHANGED <<opc, cur>>
          /\ opc \in {"serve", "clear", "buffered", "select"}
      BY <2>3 DEF RemoveDaemon
    <3> QED BY <3>1, <1>10
  <2> QED BY <2>1, <2>2, <2>3, <1>1, <1>3, <1>4, <1>6, <1>7, <1>8, <1>9
<1>12. CASE WaitFails
  <2>1. /\ closed \in SUBSET Sock /\ UnbindUncleared(closed)
        /\ UNCHANGED <<opc, cur>> /\ opc = "select"
    BY <1>12, <1>0 DEF WaitFails
  <2> QED BY <2>1, <1>10
<1>13. ASSUME NEW p \in Sender, Send(p) \/ PutAgain(p) \/ Raise(p) PROVE EventInv'
  <2>1. UNCHANGED <<socks, peers, ctl, history>>
    BY <1>13 DEF Send, PutAgain, Raise
  <2> QED BY <2>1, <1>2 DEF Returns, Readable
<1>14. ASSUME NEW s \in Sock, Arrive(s) \/ PeerClose(s) \/ CloseBound(s)
       PROVE  EventInv'
  <2>1. UNCHANGED <<socks, ctl, history>>
    BY <1>14 DEF Arrive, PeerClose, CloseBound
  <2>2. \A u \in Sock : Returns(u) => Returns(u)'
    BY <1>14, <1>0 DEF Arrive, PeerClose, CloseBound, Returns, Readable
  <2> QED BY <2>1, <2>2, <1>2
<1>15. CASE UNCHANGED vars
  BY <1>15, <1>2 DEF Returns, Readable
<1> QED BY <1>11, <1>12, <1>13, <1>14, <1>15 DEF Next

(* A message that is put has a place in the list.                          *)
LEMMA TypePut ==
  ASSUME TypeOK, NEW p \in Sender, NEW m \in Message, PutOrWait(p, m)
  PROVE  /\ messages' \in Seq(Message) /\ Len(messages') <= MaxList
         /\ spc' \in [Sender -> {"idle", "full", "woken", "raise"}]
         /\ out' \in [Sender -> {"call", "reply"}]
<1>1. m.tag \in {"call", "reply"}
  BY DEF Message
<1>2. CASE Full
  BY <1>1, <1>2 DEF PutOrWait, TypeOK
<1>3. CASE ~Full
  <2>1. Len(messages) \in Nat
    BY LenProperties DEF TypeOK
  <2>2. messages' \in Seq(Message) /\ Len(messages') = Len(messages) + 1
    <3>1. messages' = Append(messages, m) /\ messages \in Seq(Message)
      BY <1>3 DEF PutOrWait, TypeOK
    <3> QED BY <3>1, AppendProperties
  <2>3. Len(messages') <= MaxList
    BY <2>1, <2>2, <1>3, MailboxAssumption DEF Full, TypeOK
  <2> QED BY <2>2, <2>3, <1>3 DEF PutOrWait, TypeOK
<1> QED BY <1>2, <1>3

(* Every step keeps the types.  What a step reads from another part of the *)
(* state (the tid of a ready socket, the socket that is served) is known   *)
(* from the other conjuncts of the invariant.                              *)
LEMMA TypeNext ==
  ASSUME TypeOK, BindingInv, EventInv, ReadinessAgrees, [Next]_vars
  PROVE  TypeOK'
<1> USE DEF vars, mail, socks, peers, ctl, senders, history
<1>1. CASE Drain
  <2>1. 0 \in 0 .. PipeSize
    BY MailboxAssumption
  <2> QED BY <1>1, <2>1 DEF Drain, TypeOK
<1>2. CASE PollSocket
  <2>1. Head(sock_messages) \in 1 .. MaxTid
    BY <1>2, HeadTailProperties DEF PollSocket, IoMessage, TypeOK
  <2>2. 1 .. MaxTid \subseteq 0 .. MaxTid
    BY MailboxAssumption
  <2> QED BY <1>2, <2>1, <2>2 DEF PollSocket, Toggle, TypeOK
<1>3. CASE PollThread
  <2>1. Head(messages) \in Message
    <3>1. messages # <<>>
      <4>1. PICK i \in DOMAIN messages : TRUE
        BY <1>3 DEF PollThread, ThreadMessage
      <4>2. DOMAIN messages = 1 .. Len(messages)
        BY LenProperties DEF TypeOK
      <4> QED BY <4>1, <4>2, EmptySeq
    <3> QED BY <3>1, HeadTailProperties DEF TypeOK
  <2>2. Head(messages).tag \in {"call", "reply"}
    BY <2>1 DEF Message
  <2> QED BY <1>3, <2>2 DEF PollThread, Toggle, TypeOK
<1>4. CASE Recv
  <2>1. messages' \in Seq(Message) /\ Len(messages') <= MaxList
    <3> DEFINE I == {i \in 1 .. Len(messages) : Matches(messages[i])}
    <3>1. Len(messages) \in Nat /\ DOMAIN messages = 1 .. Len(messages)
      BY LenProperties DEF TypeOK
    <3>2. I \in SUBSET Nat /\ I # {}
      <4>1. PICK i \in DOMAIN messages : Matches(messages[i])
        BY <1>4 DEF Recv, ThreadMessage
      <4> QED BY <4>1, <3>1
    <3>3. SelectInSeq(messages, Matches) = Min(I)
      BY <3>2 DEF SelectInSeq
    <3> HIDE DEF I
    <3>4. Min(I) \in 1 .. Len(messages)
      BY <3>2, NatMin DEF I
    <3>5. messages' = RemoveAt(messages, Min(I)) /\ messages \in Seq(Message)
      BY <1>4, <3>3 DEF Recv, TypeOK
    <3>6. messages' \in Seq(Message) /\ Len(messages') = Len(messages) - 1
      BY <3>4, <3>5, RemoveAtFacts
    <3>7. Len(messages) <= MaxList
      BY DEF TypeOK
    <3> QED BY <3>1, <3>6, <3>7, MailboxAssumption
  <2>2. spc' \in [Sender -> {"idle", "full", "woken", "raise"}]
    BY <1>4 DEF Recv, SignalSender, TypeOK
  <2> QED BY <1>4, <2>1, <2>2 DEF Recv, TypeOK
<1>5. CASE LookInVain \/ Done \/ ReadAborts
  BY <1>5 DEF LookInVain, Done, ReadAborts, TypeOK
<1>6. CASE WaitForInput
  <2> DEFINE new == {s \in bound_socks \ ready_socks : Readable(s)}
             news == {tid[s] : s \in new}
  <2>1. /\ ready_socks' = ready_socks \union new
        /\ pipe' = Lesser(pipe + Cardinality(new), PipeSize)
        /\ \E f \in SetToSeqs(news) : sock_messages' = sock_messages \o f
    BY <1>6 DEF WaitForInput
  <2>2. PICK f \in SetToSeqs(news) : sock_messages' = sock_messages \o f
    BY <2>1
  <2>3. news \subseteq 1 .. MaxTid
    BY DEF BindingInv, TypeOK, NoTid
  <2>4. IsFiniteSet(news)
    <3>1. IsFiniteSet(1 .. MaxTid)
      BY MailboxAssumption, FS_Interval
    <3> HIDE DEF news
    <3> QED BY <2>3, <3>1, FS_Subset
  <2>5. f \in Seq(1 .. MaxTid)
    <3> HIDE DEF news
    <3> QED BY <2>3, <2>4, SetToSeqsFacts, SeqMonotonic
  <2>6. sock_messages' \in Seq(1 .. MaxTid)
    BY <2>2, <2>5, ConcatProperties DEF TypeOK
  <2>7. Cardinality(new) \in Nat
    <3>1. new \subseteq Sock
      BY DEF TypeOK
    <3> HIDE DEF new
    <3> QED BY <3>1, MailboxAssumption, FS_Subset, FS_CardinalityType
  <2>8. pipe' \in 0 .. PipeSize
    <3> HIDE DEF new
    <3> QED BY <2>1, <2>7, MailboxAssumption DEF Lesser, TypeOK
  <2>9. ready_socks' \subseteq Sock
    BY <2>1 DEF TypeOK
  <2> QED BY <1>6, <2>6, <2>8, <2>9 DEF WaitForInput, TypeOK
<1>7. ASSUME NEW s \in Sock, ReadFrom(s) PROVE TypeOK'
  <2>1. data' \in [Sock -> 0 .. MaxData]
    <3>1. CASE data[s] > 0
      <4>1. PICK n \in 1 .. data[s] : data' = [data EXCEPT ![s] = @ - n]
        BY <1>7, <3>1 DEF ReadFrom
      <4>2. data[s] - n \in 0 .. MaxData
        BY MailboxAssumption DEF TypeOK
      <4> QED BY <4>1, <4>2 DEF TypeOK
    <3>2. CASE ~(data[s] > 0)
      BY <1>7, <3>2 DEF ReadFrom, TypeOK
    <3> QED BY <3>1, <3>2
  <2> QED BY <1>7, <2>1 DEF ReadFrom, EndOfInput, TypeOK
<1>8. CASE Read
  BY <1>7, <1>8 DEF Read
<1>9. CASE ClearReady
  <2>1. sock_messages' \in Seq(1 .. MaxTid)
    BY <1>9, RemoveFirstOnce DEF ClearReady, Forget, ReadinessAgrees, TypeOK
  <2>2. NoTid \in 0 .. MaxTid
    BY MailboxAssumption DEF NoTid
  <2> QED BY <1>9, <2>1, <2>2 DEF ClearReady, Forget, TypeOK
<1>10. ASSUME NEW S \in SUBSET Sock, UnbindAll(S)
       PROVE  /\ tid' \in [Sock -> 0 .. MaxTid] /\ data' \in [Sock -> 0 .. MaxData]
              /\ bound_socks' \subseteq Sock
              /\ eof' \subseteq Sock /\ closed' \subseteq Sock
              /\ NoTid \in 0 .. MaxTid
  <2>1. NoTid \in 0 .. MaxTid /\ 0 \in 0 .. MaxData
    BY MailboxAssumption DEF NoTid
  <2> QED BY <1>10, <2>1 DEF UnbindAll, TypeOK
<1>21. CASE Unbind
  <2>1. {cur} \in SUBSET Sock
    BY <1>21 DEF Unbind, EventInv, TypeOK
  <2>2. UnbindAll({cur})
    BY <1>21 DEF Unbind
  <2> QED BY <1>21, <2>1, <2>2, <1>10 DEF Unbind, UnbindAll, TypeOK
<1>22. ASSUME NEW S \in SUBSET Sock, UnbindUncleared(S), UNCHANGED <<opc, cur>>
       PROVE  TypeOK'
  <2>1. UnbindAll(S)
    BY <1>22 DEF UnbindUncleared
  <2>2. stale' \subseteq Sock /\ orphans' \subseteq 1 .. MaxTid
    BY <1>22, ToSetFacts DEF UnbindUncleared, TypeOK
  <2> QED BY <1>22, <2>1, <2>2, <1>10 DEF UnbindAll, TypeOK
<1>11. ASSUME NEW s \in Sock, Bind(s) PROVE TypeOK'
  <2>1. nextTid \in 0 .. MaxTid /\ nextTid + 1 \in 1 .. MaxTid + 1
    BY <1>11, MailboxAssumption DEF Bind, TypeOK
  <2> QED BY <1>11, <2>1 DEF Bind, TypeOK
<1>12. ASSUME NEW s \in Sock, ReadUnpolled(s) PROVE TypeOK'
  BY <1>7, <1>12 DEF ReadUnpolled
<1>13. ASSUME NEW p \in Sender, Call(p) PROVE TypeOK'
  BY <1>13 DEF Call, TypeOK
<1>14. ASSUME NEW p \in Sender, Send(p) PROVE TypeOK'
  <2>1. [from |-> p, tag |-> IF p \in asked THEN "reply" ELSE "call"] \in Message
    BY DEF Message
  <2> QED BY <1>14, <2>1, TypePut DEF Send, TypeOK
<1>15. ASSUME NEW p \in Sender, PutAgain(p) PROVE TypeOK'
  <2>1. [from |-> p, tag |-> out[p]] \in Message
    BY DEF Message, TypeOK
  <2> QED BY <1>15, <2>1, TypePut DEF PutAgain, TypeOK
<1>16. ASSUME NEW p \in Sender, Raise(p) PROVE TypeOK'
  <2>1. pipe' \in 0 .. PipeSize
    BY <1>16, MailboxAssumption DEF Raise, Lesser, TypeOK
  <2> QED BY <1>16, <2>1 DEF Raise, TypeOK
<1>17. ASSUME NEW s \in Sock, Arrive(s) PROVE TypeOK'
  <2>1. data[s] + 1 \in 0 .. MaxData
    BY <1>17, MailboxAssumption DEF Arrive, TypeOK
  <2> QED BY <1>17, <2>1 DEF Arrive, TypeOK
<1>18. ASSUME NEW s \in Sock, PeerClose(s) \/ CloseBound(s) PROVE TypeOK'
  <2>1. CASE PeerClose(s)
    BY <2>1 DEF PeerClose, TypeOK
  <2>2. CASE CloseBound(s)
    <3>1. data' \in [Sock -> 0 .. MaxData]
      BY <2>2, MailboxAssumption DEF CloseBound, TypeOK
    <3> QED BY <2>2, <3>1 DEF CloseBound, TypeOK
  <2> QED BY <1>18, <2>1, <2>2
<1>19. CASE UNCHANGED vars
  BY <1>19 DEF TypeOK
<1>20. CASE Owner
  BY <1>1, <1>2, <1>3, <1>4, <1>5, <1>6, <1>8, <1>9, <1>21, <1>11, <1>12, <1>13,
     <1>20, <1>22, Uncleared DEF Owner
<1> QED BY <1>14, <1>15, <1>16, <1>17, <1>18, <1>19, <1>20, <1>22, Uncleared DEF Next

-----------------------------------------------------------------------------
(* The invariant that carries the results below holds of every state.      *)
THEOREM MailboxCorrect == Spec => []MailInv
<1>1. MailInv /\ [Next]_vars => MailInv'
  BY TypeNext, BindingNext, ReadyNext, EventNext, SignalNext, WakeupNext DEF MailInv
<1> QED BY <1>1, MailInvInit, PTL DEF Spec

(* The types of the mailbox, for any numbers of senders and sockets and    *)
(* any bounds: the list never exceeds MAXIMUM_LIBTHREAD_DLLIST_SIZE, the   *)
(* wake-up pipe never overflows.                                           *)
THEOREM MailTypes == Spec => []TypeOK
BY MailboxCorrect, PTL DEF MailInv

(* check_for never goes to poll(2) past a message it waits for, unless the *)
(* pipe wakes it or the sender is about to raise the pipe.                 *)
THEOREM NothingSleptOn == Spec => []NoLostWakeup
BY MailboxCorrect, PTL DEF MailInv

(* ready_socks and the io messages of the mailbox name the same sockets,   *)
(* each once, and only sockets that are bound, but for what removeDaemon   *)
(* and wait_for_input left there when they unbound without clear_ready:    *)
(* the message of no other socket is lost or outlives its socket.          *)
THEOREM ReadinessCorrect == Spec => []ReadinessAgrees
BY MailboxCorrect, PTL DEF MailInv

(* The owner, told of a socket by poll, does not block in read: the input  *)
(* is there, or the end of it, whatever remote calls were made since, or   *)
(* the socket was unbound without clear_ready and is not read at all.      *)
THEOREM ReadsReturn == Spec => []ReadNeverBlocks
<1>1. MailInv => ReadNeverBlocks
  BY DEF MailInv, EventInv, ReadinessAgrees, ReadNeverBlocks
<1> QED BY <1>1, MailboxCorrect, PTL

(* One signal of DLLIST_FULL per message taken is enough: a sender that    *)
(* sleeps finds the list full, or another is awake to fill it.             *)
THEOREM SignalsSuffice == Spec => []NoLostSignal
<1>1. MailInv => NoLostSignal
  <2> SUFFICES ASSUME MailInv, \E p \in Sender : spc[p] = "full",
                      ~ \E p \in Sender : spc[p] = "woken"
               PROVE  Full
    BY DEF NoLostSignal
  <2>1. Cardinality(wokenSenders) = 0
    BY FS_EmptySet DEF wokenSenders
  <2>2. Len(messages) \in Nat /\ Len(messages) <= MaxList
    BY LenProperties DEF MailInv, TypeOK
  <2> QED BY <2>1, <2>2, MailboxAssumption DEF MailInv, SignalInv, Full
<1> QED BY <1>1, MailboxCorrect, PTL
=============================================================================
