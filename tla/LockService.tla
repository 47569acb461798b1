---------------------------- MODULE LockService -----------------------------
(***************************************************************************)
(* What a readers-writer lock promises: readers share, a writer is alone,  *)
(* and while the lock could be given to some waiting thread, some thread   *)
(* eventually gets it.  RWLock implements this.                            *)
(***************************************************************************)
EXTENDS Naturals

CONSTANT Thread

VARIABLE state   \* what each thread does with the lock

LInit == state = [t \in Thread |-> "idle"]

MayRead == \A u \in Thread : state[u] # "writing"
MayWrite == \A u \in Thread : state[u] \notin {"reading", "writing"}

Ask(t) ==
    /\ state[t] = "idle"
    /\ \E w \in {"wants_read", "wants_write"} : state' = [state EXCEPT ![t] = w]

Acquire(t) ==
    \/ /\ state[t] \in {"idle", "wants_read"} /\ MayRead
       /\ state' = [state EXCEPT ![t] = "reading"]
    \/ /\ state[t] \in {"idle", "wants_write"} /\ MayWrite
       /\ state' = [state EXCEPT ![t] = "writing"]

Release(t) ==
    /\ state[t] \in {"reading", "writing"}
    /\ state' = [state EXCEPT ![t] = "idle"]

Grant == \E t \in Thread : state[t] \in {"wants_read", "wants_write"} /\ Acquire(t)

(* Some thread waits and nobody has the lock. *)
Grantable ==
    /\ \E t \in Thread : state[t] \in {"wants_read", "wants_write"}
    /\ MayWrite

LNext == \E t \in Thread : Ask(t) \/ Acquire(t) \/ Release(t)

(* Who gets the lock, and that it does not stay with nobody. *)
LSafety == LInit /\ [][LNext]_state
LSpec == LSafety /\ (Grantable ~> ~Grantable)
=============================================================================
