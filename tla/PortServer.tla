----------------------------- MODULE PortServer -----------------------------
(***************************************************************************)
(* The two listening threads that speak length-prefixed frames, and the    *)
(* loop of the logic that answers them: the admin port                     *)
(* (src/common/thread_admin.h, thread_logic::handle_admin) and the world's *)
(* end of the link (src/common/thread_inner.h with isMiddle set,           *)
(* thread_logic::handle_inner).  They are the same code up to the pools    *)
(* and what a close tells the logic; `port' says which one a behaviour is  *)
(* about.  A callback of the event loop is split at each access to a pool  *)
(* or a queue.                                                             *)
(***************************************************************************)
EXTENDS FdTable, FiniteSets, Integers

CONSTANTS Cap,        \* blocks of a pool (Q_CAP_MSG_ADMIN, Q_CAP_MSG_INNER)
          MaxConns,   \* bound: connections made
          MaxFrames   \* bound: frames the peers send

ASSUME PortAssumption == Cap \in Nat \ {0} /\ MaxConns \in Nat /\ MaxFrames \in Nat

VARIABLES
    port,            \* "admin" or "world"
    fd2be, fds,      \* the table of the thread
    fdOf,            \* fdOf[c]: the descriptor of the c-th connection
    open,            \* connections whose bufferevent exists
    orphans,         \* descriptors of connections that fd_add refused
    input,           \* input[c]: frames in the input buffer: the number of a
                     \* request, Bad for a length out of range
    fresh,           \* connections with input since their last cb_read
    ioPc, cur, ioMsg,   \* the event loop: where, for whom, the block in hand
    free,            \* free blocks of the pools "recv" and "send"
    q_recv, q_send,  \* q_recv_admin, q_inner_recv; q_send_admin, q_inner_send
    lgPc, lgMsg, lgOut,  \* the logic: where, the message handled, the answer
    nframes,
    handled,         \* handled[c]: the last request of c the logic has taken
    ended,           \* connections whose end the logic has been told
    unreported,      \* connections closed without a block or a slot for it
    starved,         \* connections whose cb_read found no block
    lost,            \* blocks lost by a push into a full ring
    wrote            \* wrote[c]: the answers written to connection c

tableVars == <<fd2be, fds, fdOf, open, orphans>>
ioVars == <<ioPc, cur, ioMsg>>
lgVars == <<lgPc, lgMsg, lgOut>>
history == <<handled, ended, unreported, starved, lost, wrote>>
vars == <<port, tableVars, input, fresh, ioVars, free, q_recv, q_send, lgVars,
          nframes, history>>

AllConns == 1 .. MaxConns
Conns == 1 .. Len(fdOf)
Bad == 0
None == [fd |-> -1, conn |-> 0, n |-> 0]
End(c) == [fd |-> fdOf[c], conn |-> c, n |-> 0]  \* PACKET_ID_DISCONNECT_LW

\* The world has one pool for both directions and rings of one slot less.
SendPool == IF port = "admin" THEN "send" ELSE "recv"
Room == IF port = "admin" THEN Cap ELSE Cap - 1

Init ==
    /\ port \in {"admin", "world"}
    /\ fd2be = [fd \in Fds |-> NoBe] /\ fds = <<>>
    /\ fdOf = <<>> /\ open = {} /\ orphans = {}
    /\ input = [c \in AllConns |-> <<>>] /\ fresh = {}
    /\ ioPc = "loop" /\ cur = 0 /\ ioMsg = None
    /\ free = [p \in {"recv", "send"} |-> Cap]
    /\ q_recv = <<>> /\ q_send = <<>>
    /\ lgPc = "loop" /\ lgMsg = None /\ lgOut = None
    /\ nframes = 0 /\ handled = [c \in AllConns |-> 0]
    /\ ended = {} /\ unreported = {} /\ starved = {} /\ lost = 0
    /\ wrote = [c \in AllConns |-> <<>>]

Take(p) == free[p] > 0 /\ free' = [free EXCEPT ![p] = @ - 1]
Give(p) == free' = [free EXCEPT ![p] = @ + 1]

-----------------------------------------------------------------------------
(* The event loop *)

\* A peer sends its next request, or a frame whose length is out of range.
PeerSend(c, bad) ==
    /\ nframes < MaxFrames
    /\ nframes' = nframes + 1
    /\ input' = [input EXCEPT ![c] = Append(@, IF bad THEN Bad ELSE nframes')]
    /\ fresh' = fresh \union {c}
    /\ UNCHANGED <<port, tableVars, ioVars, free, q_recv, q_send, lgVars, history>>

\* cb_listener: a connection that fd_add refuses stays open and is never read.
Accept(fd) ==
    /\ ioPc = "loop"
    /\ Len(fdOf) < MaxConns
    /\ fd \notin orphans /\ \A c \in open : fdOf[c] # fd
    /\ fdOf' = Append(fdOf, fd)
    /\ IF CanAdd(fd2be, fds, fd)
       THEN /\ fd2be' = [fd2be EXCEPT ![fd] = Len(fdOf')]
            /\ fds' = Append(fds, fd)
            /\ open' = open \union {Len(fdOf')}
            /\ UNCHANGED orphans
       ELSE /\ orphans' = orphans \union {fd}
            /\ UNCHANGED <<fd2be, fds, open>>
    /\ UNCHANGED <<port, input, fresh, ioVars, free, q_recv, q_send, lgVars,
                   nframes, history>>

\* cb_read is called when input has arrived.
Readable(c) ==
    /\ ioPc = "loop" /\ c \in open /\ c \in fresh
    /\ fresh' = fresh \ {c}
    /\ cur' = c /\ ioPc' = "read"
    /\ UNCHANGED <<port, tableVars, input, ioMsg, free, q_recv, q_send, lgVars,
                   nframes, history>>

\* The end of the loop of cb_read: no complete header, or no block.
ReadStops ==
    /\ ioPc = "read"
    /\ IF input[cur] = <<>> THEN UNCHANGED starved
       ELSE /\ free["recv"] = 0
            /\ port = "admin" \/ Head(input[cur]) # Bad
            /\ starved' = starved \union {cur}
    /\ ioPc' = "loop" /\ cur' = 0
    /\ UNCHANGED <<port, tableVars, input, fresh, ioMsg, free, q_recv, q_send,
                   lgVars, nframes, handled, ended, unreported, lost, wrote>>

\* Seeded bug: the descriptor is left in the table.
CloseKeepsEntry(c) ==
    /\ open' = open \ {c}
    /\ input' = [input EXCEPT ![c] = <<>>] /\ fresh' = fresh \ {c}
    /\ UNCHANGED <<fd2be, fds, fdOf, orphans>>

\* fd_del and bufferevent_free of close_connect.
Close(c) ==
    /\ LET fd == fdOf[c] IN
       IF CanDel(fd2be, fds, fd)
       THEN /\ fd2be' = [fd2be EXCEPT ![fd] = NoBe]
            /\ fds' = SwapRemove(fds, fd)
       ELSE UNCHANGED <<fd2be, fds>>
    /\ open' = open \ {c}
    /\ input' = [input EXCEPT ![c] = <<>>] /\ fresh' = fresh \ {c}
    /\ UNCHANGED <<fdOf, orphans>>

\* Seeded bug: the admin port keeps the block of a bad frame.
ReadBadLeaks ==
    /\ ioPc = "read" /\ input[cur] # <<>> /\ Head(input[cur]) = Bad
    /\ Close(cur)
    /\ IF port = "admin"
       THEN /\ Take("recv") /\ ioPc' = "loop" /\ ioMsg' = None /\ cur' = 0
       ELSE /\ ioPc' = "closeAlloc" /\ UNCHANGED <<free, ioMsg, cur>>
    /\ UNCHANGED <<port, q_recv, q_send, lgVars, nframes, history>>

\* A length out of range: the admin port has a block in hand by then.
ReadBad ==
    /\ ioPc = "read" /\ input[cur] # <<>> /\ Head(input[cur]) = Bad
    /\ Close(cur)
    /\ IF port = "admin"
       THEN Take("recv") /\ ioPc' = "giveBack" /\ ioMsg' = End(cur)
       ELSE ioPc' = "closeAlloc" /\ UNCHANGED <<free, ioMsg>>
    /\ UNCHANGED <<port, cur, q_recv, q_send, lgVars, nframes, history>>

GiveBack ==
    /\ ioPc = "giveBack"
    /\ Give("recv")
    /\ ioPc' = "loop" /\ cur' = 0 /\ ioMsg' = None
    /\ UNCHANGED <<port, tableVars, input, fresh, q_recv, q_send, lgVars,
                   nframes, history>>

\* A complete frame is moved into a block.
ReadFrame ==
    /\ ioPc = "read" /\ input[cur] # <<>> /\ Head(input[cur]) # Bad
    /\ Take("recv")
    /\ ioMsg' = [fd |-> fdOf[cur], conn |-> cur, n |-> Head(input[cur])]
    /\ input' = [input EXCEPT ![cur] = Tail(@)]
    /\ ioPc' = "push"
    /\ UNCHANGED <<port, tableVars, fresh, cur, q_recv, q_send, lgVars,
                   nframes, history>>

\* Seeded bug: only one frame is read at each callback.
PushEndsRead ==
    /\ ioPc \in {"push", "closePush"}
    /\ IF Len(q_recv) < Room
       THEN q_recv' = Append(q_recv, ioMsg) /\ UNCHANGED <<lost, unreported>>
       ELSE /\ lost' = lost + 1
            /\ unreported' = unreported \union ({ioMsg.conn} \ open)
            /\ UNCHANGED q_recv
    /\ ioMsg' = None /\ ioPc' = "loop" /\ cur' = 0
    /\ UNCHANGED <<port, tableVars, input, fresh, free, q_send, lgVars,
                   nframes, handled, ended, starved, wrote>>

\* The push of a frame, or of the end of a connection: a full ring loses it.
Push ==
    /\ ioPc \in {"push", "closePush"}
    /\ IF Len(q_recv) < Room
       THEN q_recv' = Append(q_recv, ioMsg) /\ UNCHANGED <<lost, unreported>>
       ELSE /\ lost' = lost + 1
            /\ unreported' = unreported \union ({ioMsg.conn} \ open)
            /\ UNCHANGED q_recv
    /\ ioMsg' = None
    /\ IF ioPc = "push" THEN ioPc' = "read" /\ UNCHANGED cur
                        ELSE ioPc' = "loop" /\ cur' = 0
    /\ UNCHANGED <<port, tableVars, input, fresh, free, q_send, lgVars,
                   nframes, handled, ended, starved, wrote>>

\* Seeded bug: cb_event closes without telling the logic.
EventSilent(c) ==
    /\ ioPc = "loop" /\ c \in open
    /\ Close(c)
    /\ UNCHANGED <<port, ioVars, free, q_recv, q_send, lgVars, nframes, history>>

\* cb_event: the peer has gone, or was silent for 300 seconds.
Event(c) ==
    /\ ioPc = "loop" /\ c \in open
    /\ Close(c)
    /\ IF port = "admin" THEN UNCHANGED <<ioPc, cur>>
                         ELSE ioPc' = "closeAlloc" /\ cur' = c
    /\ UNCHANGED <<port, ioMsg, free, q_recv, q_send, lgVars, nframes, history>>

\* close_connect of the world tells the logic, if it finds a block.
CloseAlloc ==
    /\ ioPc = "closeAlloc"
    /\ IF free["recv"] = 0
       THEN /\ ioPc' = "loop" /\ cur' = 0
            /\ unreported' = unreported \union {cur}
            /\ UNCHANGED <<free, ioMsg>>
       ELSE /\ Take("recv") /\ ioMsg' = End(cur) /\ ioPc' = "closePush"
            /\ UNCHANGED <<cur, unreported>>
    /\ UNCHANGED <<port, tableVars, input, fresh, q_recv, q_send, lgVars,
                   nframes, handled, ended, starved, lost, wrote>>

\* Seeded bug: a message whose connection has gone is left in the queue.
TickKeepsStale ==
    /\ ioPc \in {"loop", "send"} /\ q_send # <<>>
    /\ LET m == Head(q_send) IN
       IF m.fd \in Fds /\ fd2be[m.fd] # NoBe
       THEN /\ wrote' = [wrote EXCEPT ![fd2be[m.fd]] = Append(@, m)]
            /\ q_send' = Tail(q_send) /\ ioMsg' = m /\ ioPc' = "sendFree"
       ELSE ioPc' = "loop" /\ UNCHANGED <<wrote, q_send, ioMsg>>
    /\ UNCHANGED <<port, tableVars, input, fresh, cur, free, q_recv, lgVars,
                   nframes, handled, ended, unreported, starved, lost>>

\* Seeded bug: the newest message is sent first.
TickNewest ==
    /\ ioPc \in {"loop", "send"} /\ q_send # <<>>
    /\ LET m == q_send[Len(q_send)] IN
       /\ ioMsg' = m
       /\ IF m.fd \in Fds /\ fd2be[m.fd] # NoBe
          THEN /\ wrote' = [wrote EXCEPT ![fd2be[m.fd]] = Append(@, m)]
               /\ ioPc' = "sendFree"
          ELSE ioPc' = "sendFreeStale" /\ UNCHANGED wrote
    /\ q_send' = SubSeq(q_send, 1, Len(q_send) - 1)
    /\ UNCHANGED <<port, tableVars, input, fresh, cur, free, q_recv, lgVars,
                   nframes, handled, ended, unreported, starved, lost>>

\* cb_time, cb_time_world: one answer goes to whoever has its descriptor now.
Tick ==
    /\ ioPc \in {"loop", "send"} /\ q_send # <<>>
    /\ LET m == Head(q_send) IN
       /\ ioMsg' = m
       /\ IF m.fd \in Fds /\ fd2be[m.fd] # NoBe
          THEN /\ wrote' = [wrote EXCEPT ![fd2be[m.fd]] = Append(@, m)]
               /\ ioPc' = "sendFree"
          ELSE ioPc' = "sendFreeStale" /\ UNCHANGED wrote
    /\ q_send' = Tail(q_send)
    /\ UNCHANGED <<port, tableVars, input, fresh, cur, free, q_recv, lgVars,
                   nframes, handled, ended, unreported, starved, lost>>

\* After a message without a connection the admin port waits for its next tick.
SendFree ==
    /\ ioPc \in {"sendFree", "sendFreeStale"}
    /\ Give(SendPool)
    /\ ioPc' = IF ioPc = "sendFree" \/ port = "world" THEN "send" ELSE "loop"
    /\ ioMsg' = None
    /\ UNCHANGED <<port, tableVars, input, fresh, cur, q_recv, q_send, lgVars,
                   nframes, history>>

TickDone ==
    /\ ioPc = "send" /\ q_send = <<>>
    /\ ioPc' = "loop"
    /\ UNCHANGED <<port, tableVars, input, fresh, cur, ioMsg, free, q_recv,
                   q_send, lgVars, nframes, history>>

-----------------------------------------------------------------------------
(* handle_admin, handle_inner *)

HandlePop ==
    /\ lgPc = "loop" /\ q_recv # <<>>
    /\ LET m == Head(q_recv) IN
       /\ lgMsg' = m
       /\ IF m.n = 0
          THEN ended' = ended \union {m.conn} /\ UNCHANGED handled
          ELSE handled' = [handled EXCEPT ![m.conn] = m.n] /\ UNCHANGED ended
    /\ q_recv' = Tail(q_recv)
    /\ lgPc' = "handler"
    /\ UNCHANGED <<port, tableVars, input, fresh, ioVars, free, q_send, lgOut,
                   nframes, unreported, starved, lost, wrote>>

(***************************************************************************)
(* The admin port frees the request before it asks for the answer's block, *)
(* the world's script sends while the request is still held.               *)
(***************************************************************************)
HandleFree ==
    /\ lgPc \in {"handler", "free"}
    /\ Give("recv")
    /\ lgPc' = IF port = "admin" THEN "reply" ELSE "loop"
    /\ lgMsg' = IF port = "admin" THEN lgMsg ELSE None
    /\ UNCHANGED <<port, tableVars, input, fresh, ioVars, q_recv, q_send, lgOut,
                   nframes, history>>

\* Seeded bug: the answer is written into the block of the request.
ReplyInPlace ==
    /\ \/ port = "admin" /\ lgPc = "reply"
       \/ port = "world" /\ lgPc = "handler" /\ lgMsg.n # 0
    /\ lgOut' = lgMsg /\ lgPc' = "replyPush"
    /\ UNCHANGED <<port, tableVars, input, fresh, ioVars, free, q_recv, q_send,
                   lgMsg, nframes, history>>

ReplyAlloc ==
    /\ \/ port = "admin" /\ lgPc = "reply"
       \/ port = "world" /\ lgPc = "handler" /\ lgMsg.n # 0
    /\ Take(SendPool)
    /\ lgOut' = lgMsg /\ lgPc' = "replyPush"
    /\ UNCHANGED <<port, tableVars, input, fresh, ioVars, q_recv, q_send, lgMsg,
                   nframes, history>>

\* The script answers nothing, or there was no block for the answer.
NoReply ==
    /\ port = "admin" /\ lgPc = "reply"
    /\ lgPc' = "loop" /\ lgMsg' = None
    /\ UNCHANGED <<port, tableVars, input, fresh, ioVars, free, q_recv, q_send,
                   lgOut, nframes, history>>

ReplyPush ==
    /\ lgPc = "replyPush"
    /\ IF Len(q_send) < Room
       THEN q_send' = Append(q_send, lgOut) /\ UNCHANGED lost
       ELSE lost' = lost + 1 /\ UNCHANGED q_send
    /\ lgOut' = None
    /\ IF port = "admin" THEN lgPc' = "loop" /\ lgMsg' = None
                         ELSE lgPc' = "free" /\ UNCHANGED lgMsg
    /\ UNCHANGED <<port, tableVars, input, fresh, ioVars, free, q_recv, nframes,
                   handled, ended, unreported, starved, wrote>>

-----------------------------------------------------------------------------
Reading == ReadStops \/ ReadBad \/ ReadFrame
Sending == Tick \/ SendFree \/ TickDone
EventLoop == Reading \/ GiveBack \/ Push \/ CloseAlloc \/ Sending
Logic == HandlePop \/ HandleFree \/ ReplyAlloc \/ NoReply \/ ReplyPush

Next ==
    \/ \E c \in open, bad \in BOOLEAN : PeerSend(c, bad)
    \/ \E fd \in 0 .. fd_max : Accept(fd)
    \/ \E c \in open : Readable(c) \/ Event(c)
    \/ EventLoop \/ Logic

Spec == Init /\ [][Next]_vars

\* Both loops go on; nobody is obliged to connect, to send or to hang up.
Fairness ==
    /\ WF_vars(EventLoop)
    /\ \A c \in AllConns : WF_vars(Readable(c))
    /\ WF_vars(Logic)

FairSpec == Spec /\ Fairness

-----------------------------------------------------------------------------
(* Properties *)

Messages == [fd : -1 .. fd_max, conn : 0 .. MaxConns, n : 0 .. MaxFrames]

TypeOK ==
    /\ fd2be \in [Fds -> 0 .. MaxConns] /\ fds \in Seq(Fds)
    /\ fdOf \in Seq(0 .. fd_max) /\ open \subseteq Conns
    /\ input \in [AllConns -> Seq(0 .. MaxFrames)] /\ fresh \subseteq open
    /\ free \in [{"recv", "send"} -> 0 .. Cap]
    /\ {q_recv, q_send} \subseteq Seq(Messages)
    /\ {ioMsg, lgMsg, lgOut} \subseteq Messages

(***************************************************************************)
(* The table and the connections agree, whatever the order of accepts and  *)
(* closes: every open connection is found under its descriptor, and the    *)
(* list fds holds each once (fd_add, fd_del, close_connect).               *)
(***************************************************************************)
TableOK ==
    /\ TableConsistent(fd2be, fds)
    /\ \A c \in open : fd2be[fdOf[c]] = c
    /\ \A fd \in Fds : fd2be[fd] # NoBe => fd2be[fd] \in open

InHand(p) ==
    (IF ioPc \in {"push", "closePush", "giveBack"} /\ p = "recv" THEN 1 ELSE 0)
    + (IF ioPc \in {"sendFree", "sendFreeStale"} /\ p = SendPool THEN 1 ELSE 0)
    + (IF lgPc \in {"handler", "free"} /\ p = "recv" THEN 1 ELSE 0)
    + (IF lgPc = "replyPush" /\ p = SendPool THEN 1 ELSE 0)
    + (IF lgPc = "replyPush" /\ port = "world" /\ p = "recv" THEN 1 ELSE 0)

Queued(p) ==
    (IF p = "recv" THEN Len(q_recv) ELSE 0)
    + (IF p = SendPool THEN Len(q_send) ELSE 0)

(***************************************************************************)
(* No block is freed twice or forgotten on the error paths of cb_read,     *)
(* close_connect, cb_time and handle_admin.  The admin port, whose rings   *)
(* hold a whole pool, loses none; the world, whose rings hold one less     *)
(* than the pool they share (global.h:176), loses at most one for ever.    *)
(***************************************************************************)
BlocksConserved ==
    /\ \A p \in {"recv", "send"} :
        free[p] + Queued(p) + InHand(p) + (IF p = "recv" THEN lost ELSE 0) = Cap
    /\ lost <= (IF port = "admin" THEN 0 ELSE 1)

(***************************************************************************)
(* Table, connections and blocks agree on both ports.                      *)
(***************************************************************************)
PortSound == TypeOK /\ TableOK /\ BlocksConserved

(***************************************************************************)
(* An answer goes to the connection that asked, or, when that connection   *)
(* is closed, to whoever has its descriptor now (thread_admin.h:69,        *)
(* thread_inner.h:134): never past an asker that is still there.  The      *)
(* answers to one asker keep the order of its requests.                    *)
(***************************************************************************)
StrayOnlyAfterClose ==
    \A c \in AllConns : \A i \in 1 .. Len(wrote[c]) :
        /\ wrote[c][i].conn # c => wrote[c][i].conn \notin open
        /\ \A j \in 1 .. (i - 1) :
            wrote[c][i].conn = wrote[c][j].conn => wrote[c][j].n < wrote[c][i].n

(***************************************************************************)
(* The world's logic meets a connection only when it has been told the end *)
(* of every earlier one with the same descriptor, unless there was no      *)
(* block or no slot for that message (close_connect, thread_inner.h:146).  *)
(***************************************************************************)
EndAnnounced ==
    \A c \in Conns : \A d \in 1 .. (c - 1) :
        (port = "world" /\ handled[c] # 0 /\ fdOf[d] = fdOf[c])
        => d \in ended \union unreported

(***************************************************************************)
(* A complete request in the buffer of a connection is taken out, unless   *)
(* the connection closes or cb_read once found the pool empty, after which *)
(* it waits for more input (thread_admin.h:36, thread_inner.h:82).         *)
(***************************************************************************)
InputIsRead ==
    \A c \in AllConns :
        input[c] # <<>> ~> (input[c] = <<>> \/ c \in starved)

(***************************************************************************)
(* Answers do not stay in the queue behind one whose connection has gone   *)
(* (cb_time leaves its loop at thread_admin.h:71 and begins it anew).      *)
(***************************************************************************)
AnswersLeave == q_send # <<>> ~> q_send = <<>>
=============================================================================
