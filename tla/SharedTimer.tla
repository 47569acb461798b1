---------------------------- MODULE SharedTimer -----------------------------
(***************************************************************************)
(* A timer in shared memory.  A thread of the application starts and stops *)
(* it (rtinst) while the daemon samples it (paradynd), without a lock: the *)
(* writer increments protector1, changes the timer, increments protector2; *)
(* the reader reads protector2, the timer and the clock, and protector1,   *)
(* and drops the sample when the two differ.                               *)
(*                                                                         *)
(* Every access to the memory and to the clock is a step.  MEMORY_BARRIER  *)
(* is empty on x86, where a store waits in the store buffer of its         *)
(* processor while later loads, and readings of the clock, go ahead; then  *)
(* buffered holds.  Elsewhere the barrier completes the stores before it.  *)
(***************************************************************************)
EXTENDS Integers, Sequences

CONSTANTS
    MaxUpdate,   \* bound: starts and stops of the timer
    MaxClock     \* bound: readings of the clock differ up to here

ASSUME SharedTimerAssumption == MaxUpdate \in Nat /\ MaxClock \in Nat

VARIABLES
    kind,        \* "wall" or "process" timer
    buffered,    \* stores are buffered
    mem,         \* the tTimer in shared memory
    stores,      \* the store buffer of the thread: pairs of a field and a value
    clock,
    todo,        \* what the thread has still to do of a start or a stop
    at,          \* where the daemon is in perform
    read,        \* what it read
    lastTimeValueUsed,
    published,   \* history: the timer after each update
    rolledBack   \* history: a sample was less than the one before

writer == <<mem, stores, todo, published>>
reader == <<at, read, lastTimeValueUsed, rolledBack>>
timerVars == <<kind, buffered, clock, writer, reader>>

Fields == [total : Nat, start : Nat, counter : Nat]
Fresh == [total |-> 0, start |-> 0, counter |-> 0]
Protected(protector1, protector2, f) ==
    [protector1 |-> protector1, protector2 |-> protector2,
     total |-> f.total, start |-> f.start, counter |-> f.counter]

\* the timer as the thread sees it: its own stores, done or not, come first
Drained(m, s) ==
    LET Latest(f) == {i \in DOMAIN s : s[i].field = f}
    IN  [f \in DOMAIN m |->
            IF Latest(f) = {} THEN m[f]
            ELSE s[CHOOSE i \in Latest(f) : \A j \in Latest(f) : j <= i].value]
view == Drained(mem, stores)

Put(f, v) ==
    IF buffered
    THEN stores' = Append(stores, [field |-> f, value |-> v]) /\ mem' = mem
    ELSE mem' = [mem EXCEPT ![f] = v] /\ stores' = stores

Drain ==
    /\ stores # <<>>
    /\ mem' = [mem EXCEPT ![Head(stores).field] = Head(stores).value]
    /\ stores' = Tail(stores)
    /\ UNCHANGED <<kind, buffered, clock, todo, published, reader>>

Tick ==
    /\ clock < MaxClock
    /\ clock' = clock + 1
    /\ UNCHANGED <<kind, buffered, writer, reader>>

-----------------------------------------------------------------------------
(* The thread.                                                             *)

\* what remains after protector1 is incremented; a wall timer is counted down
\* before the clock is read, a process timer after
startSteps ==
    (IF view.counter = 0 THEN <<"start">> ELSE <<>>) \o <<"up", "protector2">>
stopSteps ==
    CASE view.counter = 0 -> <<"protector2">>
      [] view.counter = 1 /\ kind = "wall" -> <<"down", "total", "protector2">>
      [] view.counter = 1 /\ kind = "process" -> <<"total", "down", "protector2">>
      [] OTHER -> <<"down", "protector2">>

BeginUpdate(steps) ==
    /\ todo = <<>> /\ view.protector2 < MaxUpdate
    /\ Put("protector1", view.protector1 + 1)
    /\ todo' = steps
    /\ UNCHANGED <<kind, buffered, clock, published, reader>>

StartTimer == BeginUpdate(startSteps)
StopTimer == BeginUpdate(stopSteps)

Update ==
    /\ todo # <<>>
    /\ CASE Head(todo) = "start" -> Put("start", clock)
         [] Head(todo) = "total" -> Put("total", view.total + (clock - view.start))
         [] Head(todo) = "up" -> Put("counter", view.counter + 1)
         [] Head(todo) = "down" -> Put("counter", view.counter - 1)
         [] Head(todo) = "protector2" -> Put("protector2", view.protector2 + 1)
    /\ todo' = Tail(todo)
    /\ published' = IF Tail(todo) = <<>>
                    THEN Append(published, [f \in DOMAIN Fresh |-> view[f]])
                    ELSE published
    /\ UNCHANGED <<kind, buffered, clock, reader>>

-----------------------------------------------------------------------------
(* The daemon.                                                             *)

\* faulty variant: the protectors are read in the order they are written
wallStepsForward == <<"protector1", "start", "total", "counter", "clock", "protector2">>

\* the order in which wallTimerHK and processTimerHK read
wallSteps == <<"protector2", "start", "total", "counter", "clock", "protector1">>
processSteps == <<"protector2", "counter", "total", "start", "clock", "protector1">>
readSteps == IF kind = "wall" THEN wallSteps ELSE processSteps

NothingRead == [f \in {"protector1", "protector2", "total", "start", "counter", "clock"} |-> 0]

ReadStep ==
    /\ at <= Len(readSteps)
    /\ LET f == readSteps[at]
       IN  read' = [read EXCEPT ![f] = IF f = "clock" THEN clock ELSE mem[f]]
    /\ at' = at + 1
    /\ UNCHANGED <<kind, buffered, clock, writer, lastTimeValueUsed, rolledBack>>

calcTimeValueToUse(r) ==
    IF r.counter <= 0 \/ r.clock < r.start THEN r.total
    ELSE r.total + (r.clock - r.start)

accepted == at > Len(readSteps) /\ read.protector1 = read.protector2

Perform ==
    /\ at > Len(readSteps)
    /\ at' = 1
    /\ \/ ~accepted /\ UNCHANGED <<lastTimeValueUsed, rolledBack>>
       \/ /\ accepted
          /\ LET value == calcTimeValueToUse(read)
             IN  IF value < lastTimeValueUsed
                 THEN rolledBack' = TRUE /\ lastTimeValueUsed' = lastTimeValueUsed
                 ELSE rolledBack' = rolledBack /\ lastTimeValueUsed' = value
    /\ read' = NothingRead
    /\ UNCHANGED <<kind, buffered, clock, writer>>

-----------------------------------------------------------------------------
TimerInit ==
    /\ kind \in {"wall", "process"}
    /\ buffered \in BOOLEAN
    /\ mem = Protected(0, 0, Fresh)
    /\ stores = <<>> /\ clock = 0 /\ todo = <<>>
    /\ at = 1
    /\ read = NothingRead
    /\ lastTimeValueUsed = 0
    /\ published = <<Fresh>>
    /\ rolledBack = FALSE

TimerNext ==
    \/ Drain \/ Tick
    \/ StartTimer \/ StopTimer \/ Update
    \/ ReadStep \/ Perform

TimerSpec == TimerInit /\ [][TimerNext]_timerVars

-----------------------------------------------------------------------------
(* A sample that is kept is a good snapshot: the fields are those of one    *)
(* update, the one that protector2 counts, never of two (the comment of     *)
(* tTimer in rtinst.h).  And the clock was read while the timer was so,     *)
(* when the barriers order the stores: no later sample is less, and the     *)
(* correction of rollbacks in perform has nothing to correct.  On x86 it    *)
(* has, for a stop may have read its clock with protector1 still buffered.  *)
SampleIsSnapshot ==
    /\ accepted =>
        LET seen == published[read.protector2 + 1]
        IN  /\ read.counter = seen.counter /\ read.total = seen.total
            /\ read.counter > 0 => read.start = seen.start
    /\ rolledBack => buffered
=============================================================================
