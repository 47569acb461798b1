------------------------------ MODULE Mailbox -------------------------------
(***************************************************************************)
(* The mailbox of a thread in pdthread, on Unix.  Other threads put        *)
(* messages in its bounded list and wake the owner through a pipe that is  *)
(* never allowed to block them.  The owner waits in poll(2) on that pipe   *)
(* and on the sockets bound to the mailbox; a socket with input becomes a  *)
(* message of its own, and is left out of poll(2) until the owner says,    *)
(* with clear_ready, that it has consumed the input.                       *)
(*                                                                         *)
(* The owner runs the main loop of DMmain and VISIthreadmain: peek at the  *)
(* next event, preferring sockets every second time, and serve it.  To     *)
(* serve the message of a thread it receives it, and it may then bind a    *)
(* socket, read from a bound socket, or call another thread and receive    *)
(* the reply.  A list operation is one step, as its monitor makes it.      *)
(*                                                                         *)
(* A socket is unbound in three places: by the handler that reads the end  *)
(* of its input, after clear_ready; by removeDaemon, and by wait_for_input *)
(* when poll(2) fails, both without clear_ready.  What these two leave     *)
(* behind is kept in two history variables, stale and orphans.             *)
(***************************************************************************)
EXTENDS Naturals, FiniteSets, Sequences, SequencesExt

CONSTANTS
    Sender,     \* the other threads of the process
    Sock,       \* descriptors
    MaxList,    \* MAXIMUM_LIBTHREAD_DLLIST_SIZE
    PipeSize,   \* what the wake-up pipe holds, a byte per message
    MaxTid,     \* bound: bindings made
    MaxData     \* bound: unread input of a socket

ASSUME MailboxAssumption ==
    /\ IsFiniteSet(Sender) /\ IsFiniteSet(Sock)
    /\ MaxList \in Nat \ {0} /\ PipeSize \in Nat \ {0}
    /\ MaxTid \in Nat /\ MaxData \in Nat \ {0}

NoTid == 0
Message == [from : Sender, tag : {"call", "reply"}]

VARIABLES
    messages,       \* messages of threads, oldest first
    sock_messages,  \* tids of the sockets that are ready, oldest first
    bound_socks,    \* bound sockets
    ready_socks,    \* those known to have input
    tid,            \* socket_registry and thrtab: the entity of a descriptor
    nextTid,        \* thrtab::entries only grows
    pipe,           \* bytes in the wake-up pipe
    data,           \* unread input of each socket
    eof,            \* sockets whose peer has closed
    closed,         \* descriptors closed in this process while bound
    opc,            \* what the owner does next
    want,           \* what it looks for: "any" (poll), "call" or "reply" (recv)
    fd_first,       \* whether the next poll prefers sockets
    cur,            \* the tid or descriptor being served, NoTid between events
    spc,            \* what each sender does next
    out,            \* the tag of the message it waits to put
    asked,          \* those called by the owner that have not begun to reply
    stale,          \* history: descriptors unbound as ready, without clear_ready
    orphans         \* history: tids unbound so while their message waited

mail == <<messages, sock_messages, pipe>>
socks == <<bound_socks, ready_socks, tid, nextTid>>
peers == <<data, eof, closed>>
ctl == <<opc, want, fd_first, cur>>
senders == <<spc, out, asked>>
history == <<stale, orphans>>
vars == <<mail, socks, peers, ctl, senders, history>>

Lesser(a, b) == IF a < b THEN a ELSE b

(* A socket poll(2) reports: input, or the end of it. *)
Readable(s) == data[s] > 0 \/ s \in eof

(* A socket whose read returns at once, with input or without.             *)
Returns(s) == Readable(s) \/ s \in closed

(* The assertion of DMmain on a socket that is polled has not failed.      *)
Running == opc # "aborted"

Init ==
    /\ messages = <<>> /\ sock_messages = <<>> /\ pipe = 0
    /\ bound_socks = {} /\ ready_socks = {}
    /\ tid = [s \in Sock |-> NoTid] /\ nextTid = 1
    /\ data = [s \in Sock |-> 0] /\ eof = {} /\ closed = {}
    /\ opc = "drain" /\ want = "any" /\ fd_first = FALSE
    /\ cur = NoTid
    /\ spc = [p \in Sender |-> "idle"]
    /\ out = [p \in Sender |-> "call"]
    /\ asked = {}
    /\ stale = {} /\ orphans = {}

-----------------------------------------------------------------------------
(* The other threads: msg_send, unprompted or to reply to a call. *)

\* faulty variant: one message too many
FullLate == Len(messages) > MaxList

Full == Len(messages) = MaxList

(* put: waits on DLLIST_FULL while the list is full. *)
PutOrWait(p, m) ==
    IF ~Full
    THEN /\ messages' = Append(messages, m)
         /\ spc' = [spc EXCEPT ![p] = "raise"]
         /\ out' = [out EXCEPT ![p] = "call"]
    ELSE /\ spc' = [spc EXCEPT ![p] = "full"]
         /\ out' = [out EXCEPT ![p] = m.tag]
         /\ UNCHANGED messages

Send(p) ==
    /\ Running /\ spc[p] = "idle"
    /\ PutOrWait(p, [from |-> p, tag |-> IF p \in asked THEN "reply" ELSE "call"])
    /\ asked' = asked \ {p}
    /\ UNCHANGED <<sock_messages, pipe, socks, peers, ctl, history>>

PutAgain(p) ==
    /\ Running /\ spc[p] = "woken"
    /\ PutOrWait(p, [from |-> p, tag |-> out[p]])
    /\ UNCHANGED <<sock_messages, pipe, socks, peers, ctl, asked, history>>

\* faulty variant: the owner is woken for the first message only
RaiseForFirst(p) ==
    /\ Running /\ spc[p] = "raise"
    /\ pipe' = IF Len(messages) = 1 THEN Lesser(pipe + 1, PipeSize) ELSE pipe
    /\ spc' = [spc EXCEPT ![p] = "idle"]
    /\ UNCHANGED <<messages, sock_messages, socks, peers, ctl, out, asked, history>>

(* raise_msg_avail: a full pipe drops the byte. *)
Raise(p) ==
    /\ Running /\ spc[p] = "raise"
    /\ pipe' = Lesser(pipe + 1, PipeSize)
    /\ spc' = [spc EXCEPT ![p] = "idle"]
    /\ UNCHANGED <<messages, sock_messages, socks, peers, ctl, out, asked, history>>

(* The peers of the sockets. *)
Arrive(s) ==
    /\ Running /\ s \in bound_socks \ (eof \union closed) /\ data[s] < MaxData
    /\ data' = [data EXCEPT ![s] = @ + 1]
    /\ UNCHANGED <<mail, socks, eof, closed, ctl, senders, history>>

PeerClose(s) ==
    /\ Running /\ s \in bound_socks \ (eof \union closed)
    /\ eof' = eof \union {s}
    /\ UNCHANGED <<mail, socks, data, closed, ctl, senders, history>>

(* A connection that is broken "without unbinding the bad descriptor       *)
(* first": its unread input is lost.                                       *)
CloseBound(s) ==
    /\ Running /\ s \in bound_socks \ closed
    /\ closed' = closed \union {s}
    /\ data' = [data EXCEPT ![s] = 0] /\ eof' = eof \ {s}
    /\ UNCHANGED <<mail, socks, ctl, senders, history>>

-----------------------------------------------------------------------------
(* check_for: one round of its loop is Drain, Look and, if nothing was     *)
(* found, WaitForInput.                                                    *)

(* match_message_pred: the tag of a recv, or anything for a poll. *)
Matches(m) == want \in {"any", m.tag}

Drain ==
    /\ opc = "drain"
    /\ pipe' = 0
    /\ opc' = "look"
    /\ UNCHANGED <<messages, sock_messages, socks, peers, want, fd_first, cur,
                   senders, history>>

ThreadMessage == \E i \in DOMAIN messages : Matches(messages[i])
IoMessage == want = "any" /\ sock_messages # <<>>

\* faulty variant: messages of threads always first
MessagesFirst == fd_first' = FALSE

Toggle == fd_first' = ~fd_first

(* poll peeks at a socket's message, which stays until clear_ready. *)
PollSocket ==
    /\ opc = "look" /\ IoMessage
    /\ fd_first \/ ~ThreadMessage
    /\ cur' = Head(sock_messages)
    /\ Toggle
    /\ opc' = "read"
    /\ UNCHANGED <<mail, socks, peers, want, senders, history>>

(* poll finds the message of a thread: waitLoop then receives its tag. *)
PollThread ==
    /\ opc = "look" /\ want = "any" /\ ThreadMessage
    /\ ~fd_first \/ ~IoMessage
    /\ Toggle
    /\ want' = Head(messages).tag
    /\ opc' = "drain"
    /\ UNCHANGED <<mail, socks, peers, cur, senders, history>>

\* faulty variant: room is made and no sender is told
SignalNoSender == UNCHANGED spc

(* SignalCondition(DLLIST_FULL) *)
SignalSender ==
    \/ \E p \in Sender : spc[p] = "full" /\ spc' = [spc EXCEPT ![p] = "woken"]
    \/ ~(\E p \in Sender : spc[p] = "full") /\ UNCHANGED spc

(* recv yanks the first message that matches; one waiting sender wakes. *)
Recv ==
    /\ opc = "look" /\ want # "any" /\ ThreadMessage
    /\ messages' = RemoveAt(messages, SelectInSeq(messages, Matches))
    /\ SignalSender
    /\ opc' = IF want = "call" THEN "serve" ELSE "drain"
    /\ want' = "any"
    /\ UNCHANGED <<sock_messages, pipe, socks, peers, fd_first,
                   cur, out, asked, history>>

LookInVain ==
    /\ opc = "look" /\ ~ThreadMessage /\ ~IoMessage
    /\ opc' = "select"
    /\ UNCHANGED <<mail, socks, peers, want, fd_first, cur, senders, history>>

(* wait_for_input: poll(2), without a timeout, on the bound sockets that   *)
(* are not known to be ready and on the pipe; then a message per socket    *)
(* with input, in the order they were bound, each raising the pipe.  Of a  *)
(* closed descriptor poll(2) returns at once and reports no input.         *)
WaitForInput ==
    /\ opc = "select"
    /\ LET wset == bound_socks \ ready_socks
           new == {s \in wset : Readable(s)}
       IN /\ pipe > 0 \/ new # {} \/ wset \intersect closed # {}
          /\ \E found \in SetToSeqs({tid[s] : s \in new}) :
                /\ \A i, j \in DOMAIN found : i < j => found[i] < found[j]
                /\ sock_messages' = sock_messages \o found
          /\ ready_socks' = ready_socks \union new
          /\ pipe' = Lesser(pipe + Cardinality(new), PipeSize)
    /\ opc' = "drain"
    /\ UNCHANGED <<messages, bound_socks, tid, nextTid, peers, want, fd_first,
                   cur, senders, history>>

(* unbind leaves ready_socks and sock_messages as they are. *)
UnbindAll(S) ==
    /\ bound_socks' = bound_socks \ S
    /\ tid' = [s \in Sock |-> IF s \in S THEN NoTid ELSE tid[s]]
    /\ data' = [s \in Sock |-> IF s \in S THEN 0 ELSE data[s]]
    /\ eof' = eof \ S /\ closed' = closed \ S
    /\ UNCHANGED <<mail, ready_socks, nextTid, want, fd_first, senders>>

UnbindUncleared(S) ==
    /\ UnbindAll(S)
    /\ stale' = stale \union (S \intersect ready_socks)
    /\ orphans' = orphans \union ({tid[s] : s \in S} \intersect ToSet(sock_messages))

(* poll(2) fails: wait_for_input unbinds every bad descriptor, also those  *)
(* that are known to be ready, and waits again.                            *)
WaitFails ==
    /\ opc = "select" /\ closed # {}
    /\ UnbindUncleared(closed)
    /\ UNCHANGED <<opc, cur>>

-----------------------------------------------------------------------------
(* The owner serves an event. *)

(* The handler of a message is done, or those of what a remote call had   *)
(* buffered, which run after the input of a socket was handled.           *)
Done ==
    /\ opc \in {"serve", "buffered"}
    /\ opc' = "drain"
    /\ UNCHANGED <<mail, socks, peers, want, fd_first, cur, senders, history>>

(* bind: a descriptor that is free, and a new entity for it. *)
Bind(s) ==
    /\ opc = "serve" /\ s \notin bound_socks /\ nextTid <= MaxTid
    /\ tid' = [tid EXCEPT ![s] = nextTid]
    /\ nextTid' = nextTid + 1
    /\ bound_socks' = bound_socks \union {s}
    /\ opc' = "drain"
    /\ UNCHANGED <<mail, ready_socks, peers, want, fd_first, cur, senders, history>>

(* A call to another thread: send the request, receive the reply. *)
Call(p) ==
    /\ opc = "serve"
    /\ asked' = asked \union {p}
    /\ want' = "reply"
    /\ opc' = "drain"
    /\ UNCHANGED <<mail, socks, peers, fd_first, cur, spc, out, history>>

\* faulty variant: the connection is closed without clear_ready
EndUncleared == "unbind"

EndOfInput == "clear_last"

(* RPCdefaultXDRRead, and read in TermWin::DispatchEvent: consume some of  *)
(* the input, then say so.  A read of nothing is the end of the connection *)
(* and so is a failed one; DMmain leaves the closing to removeDaemon.      *)
ReadFrom(s) ==
    /\ Returns(s)
    /\ cur' = s
    /\ IF data[s] > 0
       THEN /\ \E n \in 1 .. data[s] : data' = [data EXCEPT ![s] = @ - n]
            /\ opc' = "clear"
       ELSE /\ opc' \in {"clear", EndOfInput}
            /\ UNCHANGED data
    /\ UNCHANGED <<mail, socks, eof, closed, want, fd_first, senders, history>>

(* The socket that was polled: thr_socket(cur). *)
Read ==
    /\ opc = "read"
    /\ \E s \in Sock : tid[s] = cur /\ ReadFrom(s)

(* The message of an entity that was unbound: thr_socket finds no socket,  *)
(* and the assertion on it fails.                                          *)
ReadAborts ==
    /\ opc = "read" /\ \A s \in Sock : tid[s] # cur
    /\ opc' = "aborted"
    /\ UNCHANGED <<mail, socks, peers, want, fd_first, cur, senders, history>>

(* A remote call made by a handler reads its socket without a poll. *)
ReadUnpolled(s) == opc = "serve" /\ s \in bound_socks /\ ReadFrom(s)

\* faulty variant: the message of the descriptor stays
ForgetFlag(s) ==
    /\ ready_socks' = ready_socks \ {s} /\ stale' = stale \ {s}
    /\ UNCHANGED sock_messages

(* clear_ready: the descriptor, and the message it stands for, unless the  *)
(* descriptor was unbound in the meantime and has no entity.               *)
Forget(s) ==
    /\ ready_socks' = ready_socks \ {s} /\ stale' = stale \ {s}
    /\ sock_messages' = RemoveFirst(sock_messages, tid[s])

ClearReady ==
    /\ opc \in {"clear", "clear_last"}
    /\ Forget(cur)
    /\ IF opc = "clear"
       THEN opc' = "buffered" /\ cur' = NoTid
       ELSE opc' = "unbind" /\ UNCHANGED cur
    /\ UNCHANGED <<messages, pipe, bound_socks, tid, nextTid, peers, want,
                   fd_first, senders, orphans>>

(* msg_unbind, and the descriptor is closed. *)
Unbind ==
    /\ opc = "unbind"
    /\ UnbindAll({cur})
    /\ cur' = NoTid
    /\ opc' = "drain"
    /\ UNCHANGED history

(* removeDaemon, called by a handler, while the input of a socket is being *)
(* handled or after it: the member it takes the tid from was never set, so *)
(* any of the bound sockets may go, or none.                               *)
RemoveDaemon(s) ==
    /\ opc \in {"serve", "clear", "buffered"} /\ s \in bound_socks
    /\ UnbindUncleared({s})
    /\ UNCHANGED <<opc, cur>>

Owner ==
    \/ Drain \/ PollSocket \/ PollThread \/ Recv \/ LookInVain
    \/ WaitForInput
    \/ Done \/ Read \/ ReadAborts \/ ClearReady \/ Unbind
    \/ \E s \in Sock : Bind(s) \/ ReadUnpolled(s) \/ RemoveDaemon(s)
    \/ \E p \in Sender : Call(p)

Sending(p) == PutAgain(p) \/ Raise(p) \/ (p \in asked /\ Send(p))

Next ==
    \/ Owner \/ WaitFails
    \/ \E p \in Sender : Send(p) \/ PutAgain(p) \/ Raise(p)
    \/ \E s \in Sock : Arrive(s) \/ PeerClose(s) \/ CloseBound(s)

(* Every thread is scheduled.  A thread that was called replies: its own   *)
(* loop reaches the request.  Nothing makes a thread send of its own       *)
(* accord, nor a peer send or close, nor poll(2) fail.                     *)
Fairness == WF_vars(Owner) /\ \A p \in Sender : WF_vars(Sending(p))

Spec == Init /\ [][Next]_vars /\ Fairness
-----------------------------------------------------------------------------
(* Types of the variables. *)
TypeOK ==
    /\ messages \in Seq(Message) /\ Len(messages) <= MaxList
    /\ sock_messages \in Seq(1 .. MaxTid)
    /\ bound_socks \subseteq Sock /\ ready_socks \subseteq Sock
    /\ tid \in [Sock -> 0 .. MaxTid] /\ nextTid \in 1 .. MaxTid + 1
    /\ pipe \in 0 .. PipeSize
    /\ data \in [Sock -> 0 .. MaxData]
    /\ eof \subseteq Sock /\ closed \subseteq Sock
    /\ opc \in {"drain", "look", "select", "serve", "read", "clear",
                "clear_last", "unbind", "buffered", "aborted"}
    /\ want \in {"any", "call", "reply"}
    /\ fd_first \in BOOLEAN
    /\ cur \in Sock \union 0 .. MaxTid
    /\ spc \in [Sender -> {"idle", "full", "woken", "raise"}]
    /\ out \in [Sender -> {"call", "reply"}]
    /\ asked \subseteq Sender
    /\ stale \subseteq Sock /\ orphans \subseteq 1 .. MaxTid

(* The pipe is drained before the lists are looked at, and a sender raises  *)
(* it after its put: the owner never goes to sleep on a message it is       *)
(* waiting for, even when the byte of that message found the pipe full.     *)
NoLostWakeup ==
    opc = "select" /\ (ThreadMessage \/ IoMessage) =>
        pipe > 0 \/ \E p \in Sender : spc[p] = "raise"

(* ready_socks and sock_messages record the same thing twice, and unbind   *)
(* touches neither.  But for what an unbind without clear_ready has left   *)
(* there they agree and name only bound sockets, through every other way   *)
(* a socket is bound, read, cleared and closed, and also when its          *)
(* descriptor is bound again; no socket has two messages.                  *)
ReadinessAgrees ==
    /\ {tid[s] : s \in ready_socks \ stale} = ToSet(sock_messages) \ orphans
    /\ IsInjective(sock_messages)
    /\ ready_socks \ stale \subseteq bound_socks

(* A socket that poll reports can be read without blocking the thread,     *)
(* although its input may have been consumed since by a remote call; the   *)
(* message of one that was unbound so is not read at all.                  *)
ReadNeverBlocks ==
    opc = "read" =>
        \/ \E s \in bound_socks : tid[s] = cur /\ Returns(s)
        \/ cur \in orphans

(* Each message taken wakes one sender: a sender sleeps on DLLIST_FULL only *)
(* while the list is full or some other sender is about to find room.       *)
NoLostSignal ==
    (\E p \in Sender : spc[p] = "full") =>
        Full \/ \E p \in Sender : spc[p] = "woken"

(* The one way to be stuck: the owner waits for a reply, and its list is    *)
(* full of messages it will not take before it has the reply.               *)
Jam == want = "reply" /\ Full /\ ~ThreadMessage

(* A message of a thread is served, although wake-ups are lost in a full   *)
(* pipe and sockets may be ready all the time: new input is looked for only *)
(* when no message is left.  Only a Jam or a failed assertion prevents it.  *)
MessagesServed ==
    (\E i \in DOMAIN messages : messages[i].tag = "call") ~>
        (opc = "serve" \/ Jam \/ ~Running)

(* A socket that was reported ready is read although threads keep sending:  *)
(* every second poll prefers sockets.  Input that was not reported yet is   *)
(* read if the owner runs out of messages again and again, unless the       *)
(* descriptor is closed or was bound with its old flag still in place.      *)
Served(s) ==
    \/ opc \in {"clear", "clear_last"} /\ cur = s
    \/ s \notin bound_socks \/ s \in stale
    \/ Jam \/ ~Running
SocketsServed ==
    \A s \in Sock :
        /\ (s \in ready_socks) ~> Served(s)
        /\ []<>(opc = "select") =>
             ((s \in bound_socks /\ Readable(s)) ~> (Served(s) \/ s \in closed))

(* A call to another thread returns, whatever else arrives meanwhile,       *)
(* unless the list fills up before the reply comes.                         *)
CallReturns == (want = "reply") ~> (want # "reply" \/ Jam)
-----------------------------------------------------------------------------
(* What the repository says of the program, and the code does not do.      *)

=============================================================================
