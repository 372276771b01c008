------------------------------ MODULE ClientIo ------------------------------
(***************************************************************************)
(* The path of client messages: the event loop of src/common/thread_io.h,  *)
(* the loop of thread_logic::handle_io and the senders of msg_ex.cpp, two  *)
(* threads that share two pools and three queues.  A queue is a bounded    *)
(* FIFO (MsgQueue implements one) and a pool a counter of free blocks      *)
(* (MsgPool implements that).  A callback of the event loop runs to its    *)
(* end before the next one; it is split at each access to a pool or queue. *)
(***************************************************************************)
EXTENDS FdTable, FiniteSets, Integers

CONSTANTS recvCap,    \* blocks of msg_recv_pool
          sendCap,    \* blocks of msg_send_pool
          Dests,      \* what the logic sends: [all |-> BOOLEAN, fds |-> fds]
          MaxConns,   \* bound: connections accepted
          MaxFrames,  \* bound: frames the clients send
          MaxSends    \* bound: messages the logic sends

ASSUME IoAssumption ==
    /\ recvCap \in Nat \ {0}
    /\ sendCap \in Nat \ {0}
    /\ Dests \subseteq [all : BOOLEAN, fds : Seq(Int)]
    /\ MaxConns \in Nat /\ MaxSends \in Nat

(***************************************************************************)
(* What a client sends, by what cb_read does with it: the handshake, a     *)
(* message, a frame that is skipped (ping, or refused by pk_limit), one    *)
(* that closes the connection, one whose inner length does not match.      *)
(***************************************************************************)
Frames == {"hello", "data", "skip", "bad", "mismatch"}

\* The number of slots of the rings: thread_logic.cpp:107 and thread_io.h:279.
QRecvSlotsTight == recvCap  \* seeded bug
QRecvSlots == recvCap + 1
QSendSlotsTight == sendCap - 1  \* seeded bug
QSendSlots == sendCap

VARIABLES
    \* the io thread
    fd2be,         \* fd2be[fd]: the connection of fd, NoBe if none
    fds,
    fd2websocket,  \* fd2websocket[fd]: the handshake has been answered
    net,           \* net[fd]: frames on their way
    input,         \* input[fd]: frames in the input buffer of the connection
    ioPc,          \* where the event loop is
    ioFd,          \* the descriptor cb_read works on
    ioMsg,         \* the block the io thread is about to push or free
    s_step,        \* the static counter of msg_recv::set_step
    \* shared by both threads
    recv_free,     \* free blocks of msg_recv_pool
    q_recv_io,
    q_disconnect,
    send_free,     \* free blocks of msg_send_pool
    q_send,
    \* the logic thread
    lgPc,          \* where handle_io is
    cg, gg,        \* the locals of handle_io
    lgMsg,         \* the message the Lua handler works on
    lgOut,         \* the block a sender has allocated
    \* bookkeeping for the bounds and the properties
    nframes, nsends,
    fdOf,          \* fdOf[c]: the descriptor of the c-th connection
    open,          \* connections whose bufferevent exists
    orphans,       \* descriptors of connections that fd_add refused
    greeted,       \* connections that have answered a handshake
    lost,          \* connections closed without a message to the logic
    told,          \* connections whose end the logic has handled
    wrote          \* how often the last message was written to each connection

ioVars == <<fd2be, fds, fd2websocket, input, ioPc, ioFd, ioMsg, s_step>>
tableVars == <<fd2be, fds, fd2websocket, fdOf, open, orphans>>
recvVars == <<recv_free, q_recv_io, q_disconnect>>
sendVars == <<send_free, q_send>>
lgVars == <<lgPc, cg, gg, lgMsg, lgOut>>
ghosts == <<greeted, lost, told, wrote>>
vars == <<ioVars, net, recvVars, sendVars, lgVars, nframes, nsends, fdOf,
          open, orphans, ghosts>>

None == [kind |-> "none"]
Conns == 1 .. Len(fdOf)

Init ==
    /\ fd2be = [fd \in Fds |-> NoBe]
    /\ fds = <<>>
    /\ fd2websocket = [fd \in Fds |-> FALSE]
    /\ net = [fd \in Fds |-> <<>>]
    /\ input = [fd \in Fds |-> <<>>]
    /\ ioPc = "loop" /\ ioFd = 0 /\ ioMsg = None /\ s_step = 0
    /\ recv_free = recvCap /\ q_recv_io = <<>> /\ q_disconnect = <<>>
    /\ send_free = sendCap /\ q_send = <<>>
    /\ lgPc = "peek" /\ cg = None /\ gg = None /\ lgMsg = None /\ lgOut = None
    /\ nframes = 0 /\ nsends = 0
    /\ fdOf = <<>> /\ open = {} /\ orphans = {}
    /\ greeted = {} /\ lost = {} /\ told = {} /\ wrote = <<>>

\* What msg_queue::push leaves in a ring of n slots.
Pushed(q, n, m) == IF Len(q) < n - 1 THEN Append(q, m) ELSE q

Front(q) == IF q = <<>> THEN None ELSE Head(q)

-----------------------------------------------------------------------------
(* Clients *)

ClientSend(fd, f) ==
    /\ fd2be[fd] # NoBe
    /\ nframes < MaxFrames
    /\ nframes' = nframes + 1
    /\ net' = [net EXCEPT ![fd] = Append(@, f)]
    /\ UNCHANGED <<ioVars, recvVars, sendVars, lgVars, nsends, fdOf, open,
                   orphans, ghosts>>

-----------------------------------------------------------------------------
(* thread_io: connections *)

\* Seeded bug: the flag of the last connection on the descriptor is kept.
AcceptKeepsWebsocket(fd) ==
    /\ ioPc = "loop"
    /\ Len(fdOf) < MaxConns
    /\ fd \notin orphans
    /\ \A c \in open : fdOf[c] # fd
    /\ fdOf' = Append(fdOf, fd)
    /\ IF CanAdd(fd2be, fds, fd)
       THEN /\ fd2be' = [fd2be EXCEPT ![fd] = Len(fdOf')]
            /\ fds' = Append(fds, fd)
            /\ open' = open \union {Len(fdOf')}
            /\ UNCHANGED <<orphans, fd2websocket>>
       ELSE /\ orphans' = orphans \union {fd}
            /\ UNCHANGED <<fd2be, fds, fd2websocket, open>>
    /\ UNCHANGED <<input, ioPc, ioFd, ioMsg, s_step, net, recvVars, sendVars,
                   lgVars, nframes, nsends, ghosts>>

(***************************************************************************)
(* cb_listener.  The kernel hands out a descriptor that is not in use.  A  *)
(* connection that fd_add refuses keeps its descriptor and is never read.  *)
(***************************************************************************)
Accept(fd) ==
    /\ ioPc = "loop"
    /\ Len(fdOf) < MaxConns
    /\ fd \notin orphans
    /\ \A c \in open : fdOf[c] # fd
    /\ fdOf' = Append(fdOf, fd)
    /\ IF CanAdd(fd2be, fds, fd)
       THEN /\ fd2be' = [fd2be EXCEPT ![fd] = Len(fdOf')]
            /\ fds' = Append(fds, fd)
            /\ open' = open \union {Len(fdOf')}
            /\ fd2websocket' = [fd2websocket EXCEPT ![fd] = FALSE]
            /\ UNCHANGED orphans
       ELSE /\ orphans' = orphans \union {fd}
            /\ UNCHANGED <<fd2be, fds, fd2websocket, open>>
    /\ UNCHANGED <<input, ioPc, ioFd, ioMsg, s_step, net, recvVars, sendVars,
                   lgVars, nframes, nsends, ghosts>>

\* fd_del(fd) and bufferevent_free(be).
Unregister(fd) ==
    /\ open' = open \ {fd2be[fd]}
    /\ net' = [net EXCEPT ![fd] = <<>>]
    /\ input' = [input EXCEPT ![fd] = <<>>]
    /\ IF CanDel(fd2be, fds, fd)
       THEN /\ fd2be' = [fd2be EXCEPT ![fd] = NoBe]
            /\ fds' = SwapRemove(fds, fd)
       ELSE UNCHANGED <<fd2be, fds>>
    /\ UNCHANGED <<fd2websocket, fdOf, orphans>>

\* close_connect up to its alloc: no block, no message.
CloseConnect(fd) ==
    /\ Unregister(fd)
    /\ IF recv_free = 0
       THEN /\ lost' = lost \union {fd2be[fd]}
            /\ ioPc' = "loop"
            /\ UNCHANGED <<recv_free, ioMsg, s_step>>
       ELSE /\ recv_free' = recv_free - 1
            /\ s_step' = s_step + 1
            /\ ioMsg' = [kind |-> "disconnect", conn |-> fd2be[fd], step |-> s_step']
            /\ ioPc' = "pushDisconnect"
            /\ UNCHANGED lost
    /\ UNCHANGED <<q_recv_io, q_disconnect, greeted, told, wrote>>

\* cb_event: the peer has closed, or nothing came for 300 seconds.
Event(fd) ==
    /\ ioPc = "loop"
    /\ fd2be[fd] # NoBe
    /\ CloseConnect(fd)
    /\ UNCHANGED <<ioFd, sendVars, lgVars, nframes, nsends>>

PushDisconnect ==
    /\ ioPc = "pushDisconnect"
    /\ q_disconnect' = Pushed(q_disconnect, QRecvSlots, ioMsg)
    /\ ioMsg' = None
    /\ ioPc' = "loop"
    /\ UNCHANGED <<tableVars, input, ioFd, s_step, net, recv_free, q_recv_io,
                   sendVars, lgVars, nframes, nsends, ghosts>>

-----------------------------------------------------------------------------
(* thread_io: input *)

(***************************************************************************)
(* The event loop moves some of the frames that have come to the input     *)
(* buffer and calls cb_read, which first of all waits for a handshake: a   *)
(* buffer that ends like one is thrown away and answered.                  *)
(***************************************************************************)
Readable(fd, n) ==
    LET in == input[fd] \o SubSeq(net[fd], 1, n)
        handshake == in[Len(in)] = "hello"
    IN
    /\ ioPc = "loop"
    /\ fd2be[fd] # NoBe
    /\ net' = [net EXCEPT ![fd] = SubSeq(@, n + 1, Len(@))]
    /\ IF fd2websocket[fd]
       THEN /\ input' = [input EXCEPT ![fd] = in]
            /\ ioFd' = fd
            /\ ioPc' = "read"
            /\ UNCHANGED <<fd2websocket, greeted>>
       ELSE /\ input' = [input EXCEPT ![fd] = IF handshake THEN <<>> ELSE in]
            /\ fd2websocket' = [fd2websocket EXCEPT ![fd] = handshake]
            /\ greeted' = IF handshake THEN greeted \union {fd2be[fd]} ELSE greeted
            /\ UNCHANGED <<ioFd, ioPc>>
    /\ UNCHANGED <<fd2be, fds, ioMsg, s_step, recvVars, sendVars, lgVars,
                   nframes, nsends, fdOf, open, orphans, lost, told, wrote>>

ReadDone ==
    /\ ioPc = "read"
    /\ input[ioFd] = <<>>
    /\ ioPc' = "loop"
    /\ UNCHANGED <<tableVars, input, ioFd, ioMsg, s_step, net, recvVars,
                   sendVars, lgVars, nframes, nsends, ghosts>>

\* handle_packet takes the frame f off the buffer.
Take(f) ==
    /\ ioPc = "read"
    /\ input[ioFd] # <<>>
    /\ f = Head(input[ioFd])
    /\ UNCHANGED <<ioFd, sendVars, lgVars, nframes, nsends>>

ReadBad ==
    /\ \E f \in {"hello", "bad"} : Take(f)
    /\ CloseConnect(ioFd)

\* The message is dropped when the pool is empty, and cb_read returns.
ReadData ==
    /\ Take("data")
    /\ input' = [input EXCEPT ![ioFd] = Tail(@)]
    /\ IF recv_free = 0
       THEN /\ ioPc' = "loop"
            /\ UNCHANGED <<recv_free, s_step, ioMsg>>
       ELSE /\ recv_free' = recv_free - 1
            /\ s_step' = s_step + 1
            /\ ioMsg' = [kind |-> "data", conn |-> fd2be[ioFd], step |-> s_step']
            /\ ioPc' = "pushData"
    /\ UNCHANGED <<tableVars, net, q_recv_io, q_disconnect, ghosts>>

ReadOther ==
    /\ \/ Take("skip") /\ UNCHANGED ioPc
       \/ Take("mismatch") /\ ioPc' = "loop"
    /\ input' = [input EXCEPT ![ioFd] = Tail(@)]
    /\ UNCHANGED <<tableVars, net, recvVars, s_step, ioMsg, ghosts>>

PushData ==
    /\ ioPc = "pushData"
    /\ q_recv_io' = Pushed(q_recv_io, QRecvSlots, ioMsg)
    /\ ioMsg' = None
    /\ ioPc' = "read"
    /\ UNCHANGED <<tableVars, input, ioFd, s_step, net, recv_free,
                   q_disconnect, sendVars, lgVars, nframes, nsends, ghosts>>

-----------------------------------------------------------------------------
(* thread_io: output, the loop of cb_time *)

\* How often each connection is written to when the fds in to are gone through:
\* send_msg writes to the connection the descriptor has now, if any.
WrittenTo(to) ==
    [c \in Conns |->
        Cardinality({i \in 1 .. Len(to) : to[i] \in Fds /\ fd2be[to[i]] = c})]

\* Seeded bug: the loop over fds ends one entry early.
WrittenButLast(m) ==
    WrittenTo(IF m.all THEN SubSeq(fds, 1, Len(fds) - 1) ELSE m.fds)

Written(m) == WrittenTo(IF m.all THEN fds ELSE m.fds)

SendPop ==
    /\ ioPc \in {"loop", "send"}
    /\ IF q_send = <<>>
       THEN /\ ioPc' = "loop"
            /\ UNCHANGED <<q_send, ioMsg, wrote>>
       ELSE /\ ioPc' = "freeSend"
            /\ ioMsg' = Head(q_send)
            /\ q_send' = Tail(q_send)
            /\ wrote' = Written(Head(q_send))
    /\ UNCHANGED <<tableVars, input, ioFd, s_step, net, recvVars, send_free,
                   lgVars, nframes, nsends, greeted, lost, told>>

\* An empty list of descriptors ends the loop, the rest waits for the timer.
SendFree ==
    /\ ioPc = "freeSend"
    /\ send_free' = send_free + 1
    /\ ioMsg' = None
    /\ ioPc' = IF ~ioMsg.all /\ ioMsg.fds = <<>> THEN "loop" ELSE "send"
    /\ UNCHANGED <<tableVars, input, ioFd, s_step, net, recvVars, q_send,
                   lgVars, nframes, nsends, ghosts>>

-----------------------------------------------------------------------------
(* thread_logic: handle_io *)

PeekRecv ==
    /\ lgPc = "peek"
    /\ lgOut = None
    /\ cg' = Front(q_recv_io)
    /\ lgPc' = "peekDisconnect"
    /\ UNCHANGED <<ioVars, net, recvVars, sendVars, gg, lgMsg, lgOut, nframes,
                   nsends, fdOf, open, orphans, ghosts>>

\* Seeded bug: an empty q_recv_io ends the loop.
PeekDisconnectNever ==
    /\ lgPc = "peekDisconnect"
    /\ gg' = Front(q_disconnect)
    /\ lgPc' = IF cg = None THEN "peek" ELSE "pop"
    /\ UNCHANGED <<ioVars, net, recvVars, sendVars, cg, lgMsg, lgOut, nframes,
                   nsends, fdOf, open, orphans, ghosts>>

PeekDisconnect ==
    /\ lgPc = "peekDisconnect"
    /\ gg' = Front(q_disconnect)
    /\ lgPc' = IF cg = None /\ gg' = None THEN "peek" ELSE "pop"
    /\ UNCHANGED <<ioVars, net, recvVars, sendVars, cg, lgMsg, lgOut, nframes,
                   nsends, fdOf, open, orphans, ghosts>>

\* Seeded bug: messages are taken first, whatever their step.
DataFirstAlways == cg # None

\* The message handle_io takes next is that of q_recv_io.
DataFirst == cg # None /\ (gg = None \/ cg.step < gg.step)

PopNext ==
    /\ lgPc = "pop"
    /\ IF DataFirst
       THEN /\ lgMsg' = Head(q_recv_io)
            /\ q_recv_io' = Tail(q_recv_io)
            /\ UNCHANGED <<q_disconnect, told>>
       ELSE /\ lgMsg' = Head(q_disconnect)
            /\ q_disconnect' = Tail(q_disconnect)
            /\ told' = told \union {lgMsg'.conn}
            /\ UNCHANGED q_recv_io
    /\ lgPc' = "handle"
    /\ cg' = None
    /\ gg' = None
    /\ UNCHANGED <<ioVars, net, recv_free, sendVars, lgOut, nframes, nsends,
                   fdOf, open, orphans, greeted, lost, wrote>>

\* Seeded bug: the block is freed on the error path and after it.
HandledFreesTwice ==
    /\ lgPc = "handle"
    /\ lgOut = None
    /\ recv_free' = recv_free + 2
    /\ lgMsg' = None
    /\ lgPc' = "peek"
    /\ UNCHANGED <<ioVars, net, q_recv_io, q_disconnect, sendVars, cg, gg,
                   lgOut, nframes, nsends, fdOf, open, orphans, ghosts>>

\* handlerMsg has returned or failed: the block is freed in either case.
Handled ==
    /\ lgPc = "handle"
    /\ lgOut = None
    /\ recv_free' = recv_free + 1
    /\ lgMsg' = None
    /\ lgPc' = "peek"
    /\ UNCHANGED <<ioVars, net, q_recv_io, q_disconnect, sendVars, cg, gg,
                   lgOut, nframes, nsends, fdOf, open, orphans, ghosts>>

-----------------------------------------------------------------------------
(* msg_ex: broadcast, multicast and unicast, called from the handlers and, *)
(* between two turns of handle_io, from the timers.                        *)

\* Without a free block the message is given up and a log line written.
SendAlloc(d) ==
    /\ lgPc \in {"peek", "handle"}
    /\ lgOut = None
    /\ nsends < MaxSends
    /\ send_free > 0
    /\ nsends' = nsends + 1
    /\ send_free' = send_free - 1
    /\ lgOut' = [kind |-> "send", all |-> d.all, fds |-> d.fds]
    /\ UNCHANGED <<ioVars, net, recvVars, q_send, lgPc, cg, gg, lgMsg, nframes,
                   fdOf, open, orphans, ghosts>>

\* write_msg_dfs refuses the Lua table.
SendFails ==
    /\ lgOut # None
    /\ send_free' = send_free + 1
    /\ lgOut' = None
    /\ UNCHANGED <<ioVars, net, recvVars, q_send, lgPc, cg, gg, lgMsg,
                   nframes, nsends, fdOf, open, orphans, ghosts>>

\* The result of push is ignored.
SendPush ==
    /\ lgOut # None
    /\ q_send' = Pushed(q_send, QSendSlots, lgOut)
    /\ lgOut' = None
    /\ UNCHANGED <<ioVars, net, recvVars, send_free, lgPc, cg, gg, lgMsg,
                   nframes, nsends, fdOf, open, orphans, ghosts>>

-----------------------------------------------------------------------------
IoCallback ==
    \/ PushDisconnect
    \/ ReadDone
    \/ ReadBad
    \/ ReadData
    \/ ReadOther
    \/ PushData
    \/ SendFree

HandleIo == PeekRecv \/ PeekDisconnect \/ PopNext \/ Handled

Next ==
    \/ \E fd \in Fds : \/ \E f \in Frames : ClientSend(fd, f)
                       \/ Event(fd)
                       \/ \E n \in 1 .. Len(net[fd]) : Readable(fd, n)
    \/ \E fd \in 0 .. fd_max : Accept(fd)
    \/ IoCallback
    \/ SendPop
    \/ HandleIo
    \/ \E d \in Dests : SendAlloc(d)
    \/ SendFails
    \/ SendPush

Spec == Init /\ [][Next]_vars

(***************************************************************************)
(* Both threads keep running: the event loop finishes its callbacks and    *)
(* its timer fires again and again, the logic loops over handle_io.        *)
(***************************************************************************)
Fairness ==
    /\ WF_vars(IoCallback \/ (SendPop /\ ioPc = "send"))
    /\ SF_vars(SendPop /\ q_send # <<>>)
    /\ WF_vars(SendFails \/ SendPush)
    /\ WF_vars(HandleIo)

FairSpec == Spec /\ Fairness

-----------------------------------------------------------------------------
(* Properties *)

RecvMsgs == [kind : {"data", "disconnect"}, conn : 1 .. MaxConns, step : Nat]
SendMsgs == [kind : {"send"}, all : BOOLEAN, fds : Seq(Int)]
SeqOf(S, q) == \A i \in 1 .. Len(q) : q[i] \in S

TypeOK ==
    /\ fd2be \in [Fds -> 0 .. MaxConns]
    /\ SeqOf(Fds, fds)
    /\ fd2websocket \in [Fds -> BOOLEAN]
    /\ \A fd \in Fds : SeqOf(Frames, net[fd]) /\ SeqOf(Frames, input[fd])
    /\ ioPc \in {"loop", "read", "pushData", "pushDisconnect", "send", "freeSend"}
    /\ lgPc \in {"peek", "peekDisconnect", "pop", "handle"}
    /\ recv_free \in 0 .. recvCap
    /\ send_free \in 0 .. sendCap
    /\ SeqOf(RecvMsgs, q_recv_io) /\ SeqOf(RecvMsgs, q_disconnect)
    /\ {cg, gg, lgMsg} \subseteq RecvMsgs \union {None}
    /\ ioMsg \in RecvMsgs \union SendMsgs \union {None}
    /\ open \union lost \union told \union greeted \subseteq Conns

(***************************************************************************)
(* The table names exactly the connections whose bufferevent exists, so a  *)
(* broadcast never writes to a freed one (thread_io.h:208-267).            *)
(***************************************************************************)
TableOK ==
    /\ TableConsistent(fd2be, fds)
    /\ open = {fd2be[fd] : fd \in Fds} \ {NoBe}

(***************************************************************************)
(* fd_add refuses a connection only when its descriptor lies beyond the    *)
(* table: whatever the clients and the timers did before, the entry of a   *)
(* reused descriptor is free (thread_io.h:33, :226).                       *)
(***************************************************************************)
OnlyLargeFdsRefused == orphans \intersect Fds = {}

(***************************************************************************)
(* The logic gets nothing from a connection that has not gone through the  *)
(* handshake, on a reused descriptor neither (thread_io.h:38, :94).        *)
(***************************************************************************)
NoDataBeforeHandshake ==
    \A i \in 1 .. Len(q_recv_io) : q_recv_io[i].conn \in greeted

(***************************************************************************)
(* Every block of msg_recv_pool is free, queued or in the hands of one     *)
(* thread: the two pushes whose result is ignored never fail, because each *)
(* of the two rings has a slot more than the pool has blocks               *)
(* (thread_io.h:165, :224, thread_logic.cpp:50).                           *)
(***************************************************************************)
RecvPoolConserved ==
    recv_free + Len(q_recv_io) + Len(q_disconnect)
        + (IF ioMsg.kind \in {"data", "disconnect"} THEN 1 ELSE 0)
        + (IF lgMsg # None THEN 1 ELSE 0) = recvCap

(***************************************************************************)
(* What the receiving side keeps is well typed and no block of its pool is *)
(* lost, whatever is accepted, read and closed meanwhile.                  *)
(***************************************************************************)
ReceiveSound == TypeOK /\ RecvPoolConserved

(***************************************************************************)
(* The descriptor table agrees with the connections and has room for each. *)
(***************************************************************************)
TableSound == TableOK /\ OnlyLargeFdsRefused

(***************************************************************************)
(* The ring q_send has a slot less than it needs (thread_io.h:279), so a   *)
(* push can fail and its block is then lost to the pool; but the loss      *)
(* itself makes the ring large enough: it happens at most once.            *)
(***************************************************************************)
AtMostOneSendBlockLost ==
    sendCap - (send_free + Len(q_send)
                 + (IF ioMsg.kind = "send" THEN 1 ELSE 0)
                 + (IF lgOut # None THEN 1 ELSE 0)) \in {0, 1}

(***************************************************************************)
(* When the logic handles a message of a connection it has been told of    *)
(* the end of every earlier connection with the same descriptor, unless    *)
(* that news was lost: it never takes a player for the one who had the     *)
(* descriptor before (the steps handle_io compares, thread_logic.cpp:175). *)
(***************************************************************************)
ReusedFdAnnounced ==
    lgMsg.kind = "data" =>
        \A c \in 1 .. (lgMsg.conn - 1) :
            fdOf[c] = fdOf[lgMsg.conn] => c \in told \union lost

(***************************************************************************)
(* A broadcast is written once to every connection there is, and to no     *)
(* closed one (thread_io.h:190-195).                                       *)
(***************************************************************************)
BroadcastReachesAll ==
    [][ioMsg = None /\ ioMsg'.kind = "send" /\ ioMsg'.all
         => wrote' = [c \in Conns |-> IF c \in open THEN 1 ELSE 0]]_vars

(***************************************************************************)
(* The logic is eventually told of the end of each connection, unless      *)
(* there was no block for the news (thread_io.h:208-225).                  *)
(***************************************************************************)
DisconnectReported ==
    \A c \in 1 .. MaxConns :
        (c \in Conns \ open /\ fdOf[c] \notin orphans) ~> (c \in told \union lost)
=============================================================================
