---------------------------- MODULE MCPdthread ------------------------------
(* Instance of Mailbox and of RWLock for TLC.  The two share nothing: a     *)
(* behaviour uses one of them and leaves the other as it was built.         *)
EXTENDS Mailbox, RWLock

MCInit == Init /\ LockInit

UseMailbox(A) ==
    /\ LockInit /\ preference = "favor_writers"
    /\ A
    /\ UNCHANGED lockVars

UseLock(A) == Init /\ A /\ UNCHANGED vars

MCNext == UseMailbox(Next) \/ UseLock(LockNext)

MCFairness ==
    /\ WF_<<vars, lockVars>>(UseMailbox(Owner))
    /\ \A p \in Sender : WF_<<vars, lockVars>>(UseMailbox(Sending(p)))
    /\ \A t \in Thread : WF_<<vars, lockVars>>(UseLock(Proceed(t)))

MCSpec == MCInit /\ [][MCNext]_<<vars, lockVars>> /\ MCFairness
=============================================================================
