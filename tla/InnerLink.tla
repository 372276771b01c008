----------------------------- MODULE InnerLink -----------------------------
(***************************************************************************)
(* The link of a normal server to the world server: the event loop of      *)
(* src/common/thread_inner.h with isMiddle false, and what the logic       *)
(* thread does to it through src/common/msg_inner_parse.h and              *)
(* thread_logic::handle_inner.  set_connect writes the address and the     *)
(* flags the event loop reads without a lock, so its stores are one step   *)
(* each; stores of one thread are seen in their order.                     *)
(***************************************************************************)
EXTENDS Integers, Sequences

CONSTANTS cap,        \* blocks of msg_inner_pool
          Frames,     \* what the world sends: "good", "bad" (a wrong length)
          MaxAsks,    \* bound: calls of set_connect
          MaxCloses,  \* bound: calls of close_connect
          MaxFrames,  \* bound: frames the world sends
          MaxSends    \* bound: messages the logic sends

ASSUME InnerAssumption ==
    cap \in Nat \ {0} /\ MaxAsks \in Nat /\ MaxSends \in Nat

\* The slots of both rings (global.h:176): one message less than the pool.
RingSlotsTight == cap - 1  \* seeded bug
RingSlots == cap

VARIABLES
    \* the inner thread
    beNormal,       \* the connection made last, 0 if none
    connect_state,  \* 0 none, 1 connecting, 2 connected
    net,            \* frames on their way from the world
    input,          \* the input buffer of the connection
    ioPc,           \* where the event loop is
    ioMsg,          \* the block the inner thread is about to push or free
    \* written by the logic, read by the inner thread
    si,             \* the address: <<sin_port, sin_addr>>
    needConnect, forceClose,
    \* shared by both threads
    pool,           \* free blocks
    q_inner_recv, q_inner_send,
    \* the logic thread
    lgStore,        \* the next store of set_connect, 0 outside it
    lgMsg,          \* the message handlerInner works on
    msg_send,       \* the message that is being written, 0 if none
    \* bookkeeping for the bounds and the properties
    nasks, ncloses, nframes, nsends, nconns,
    live,           \* connections whose bufferevent exists
    target,         \* target[c]: the address connection c was made to
    wire,           \* wire[c]: what was written to connection c
    up,             \* connections that were established
    lost,           \* connections whose end could not be put in a block
    told,           \* connections whose end the logic has handled
    served          \* the last request whose address was dialled, to stay

linkVars == <<beNormal, connect_state, net, input, live, up>>
flagVars == <<si, needConnect, forceClose, lgStore>>
queueVars == <<q_inner_recv, q_inner_send>>
lgVars == <<lgMsg, msg_send>>
counters == <<nasks, ncloses, nframes, nsends>>
history == <<nconns, target, lost, told, served>>
vars == <<linkVars, flagVars, pool, queueVars, lgVars, ioPc, ioMsg, counters,
          history, wire>>

None == [kind |-> "none"]
Running == ioPc # "crashed"
NoAddr == 0

Init ==
    /\ beNormal = 0 /\ connect_state = 0
    /\ net = <<>> /\ input = <<>> /\ live = {} /\ up = {}
    /\ ioPc = "loop" /\ ioMsg = None
    /\ si = <<NoAddr, NoAddr>> /\ needConnect = FALSE /\ forceClose = FALSE
    /\ pool = cap /\ q_inner_recv = <<>> /\ q_inner_send = <<>>
    /\ lgStore = 0 /\ lgMsg = None /\ msg_send = 0
    /\ nasks = 0 /\ ncloses = 0 /\ nframes = 0 /\ nsends = 0 /\ nconns = 0
    /\ target = [c \in 1 .. MaxAsks |-> <<NoAddr, NoAddr>>]
    /\ wire = [c \in 1 .. MaxAsks |-> <<>>]
    /\ lost = {} /\ told = {} /\ served = 0

(***************************************************************************)
(* The order of the stores of set_connect (setIp, which comes third, is    *)
(* never cleared and guards nothing that needConnect does not).            *)
(***************************************************************************)
StoresFlagsFirst == <<"forceClose", "needConnect", "sin_port", "sin_addr">>  \* seeded bug
Stores == <<"sin_port", "sin_addr", "forceClose", "needConnect">>

\* The set_connect that is running, or the last one, has made this store.
Written(field) ==
    lgStore = 0 \/ \E i \in 1 .. (lgStore - 1) : Stores[i] = field

\* What msg_queue::push leaves in a ring.
Pushed(q, m) == IF Len(q) < RingSlots - 1 THEN Append(q, m) ELSE q

-----------------------------------------------------------------------------
(* The world *)

WorldSend(f) ==
    /\ Running
    /\ connect_state = 2 /\ beNormal \in live
    /\ nframes < MaxFrames
    /\ nframes' = nframes + 1
    /\ net' = Append(net, f)
    /\ UNCHANGED <<beNormal, connect_state, input, live, up, flagVars, pool,
                   queueVars, lgVars, ioPc, ioMsg, nasks, ncloses, nsends,
                   history, wire>>

-----------------------------------------------------------------------------
(***************************************************************************)
(* The timer, cb_time_logic.  A callback goes from step to step of ioPc    *)
(* and back to "loop".                                                     *)
(***************************************************************************)
Goto(pc) ==
    /\ ioPc' = pc
    /\ UNCHANGED <<flagVars, pool, queueVars, lgVars, ioMsg, counters, history,
                   wire>>

\* Seeded bug: messages are written while the connection is being made.
TickSendsEarly ==
    /\ ioPc = "loop"
    /\ Goto(IF forceClose THEN "disconnect"
            ELSE IF connect_state # 0 THEN "send" ELSE "need")
    /\ UNCHANGED linkVars

Tick ==
    /\ ioPc = "loop"
    /\ Goto(IF forceClose THEN "disconnect"
            ELSE IF connect_state = 2 THEN "send" ELSE "need")
    /\ UNCHANGED linkVars

\* The bufferevent of the connection is freed, with what it has not read.
Free ==
    /\ live' = live \ {beNormal}
    /\ net' = <<>> /\ input' = <<>>

\* Seeded bug: an established connection is freed without a message.
ForceCloseSilent ==
    /\ ioPc = "disconnect"
    /\ forceClose' = FALSE
    /\ ioPc' = IF beNormal = 0 THEN "loop" ELSE "reset"
    /\ Free
    /\ UNCHANGED <<beNormal, connect_state, up, si, needConnect, lgStore, pool,
                   queueVars, lgVars, ioMsg, counters, history, wire>>

\* Clear the request, then dis_connect.
ForceClose ==
    /\ ioPc = "disconnect"
    /\ forceClose' = FALSE
    /\ ioPc' = IF beNormal = 0 THEN "loop"
               ELSE IF connect_state = 2 THEN "closeAlloc" ELSE "reset"
    /\ Free
    /\ UNCHANGED <<beNormal, connect_state, up, si, needConnect, lgStore, pool,
                   queueVars, lgVars, ioMsg, counters, history, wire>>

\* close_connect: a block for the news; without one nobody is told.
CloseAlloc ==
    /\ ioPc \in {"closeAlloc", "badAlloc"}
    /\ IF pool = 0
       THEN /\ lost' = lost \union {beNormal}
            /\ ioPc' = IF ioPc = "badAlloc" THEN "loop" ELSE "reset"
            /\ UNCHANGED <<pool, ioMsg>>
       ELSE /\ pool' = pool - 1
            /\ ioMsg' = [kind |-> "down", conn |-> beNormal]
            /\ ioPc' = IF ioPc = "badAlloc" THEN "badPush" ELSE "closePush"
            /\ UNCHANGED lost
    /\ UNCHANGED <<linkVars, flagVars, queueVars, lgVars, counters, nconns,
                   target, told, served, wire>>

\* The result of push is ignored.
ClosePush ==
    /\ ioPc \in {"closePush", "badPush"}
    /\ q_inner_recv' = Pushed(q_inner_recv, ioMsg)
    /\ lost' = IF Len(q_inner_recv) < RingSlots - 1 THEN lost
               ELSE lost \union {ioMsg.conn}
    /\ ioMsg' = None
    /\ ioPc' = IF ioPc = "badPush" THEN "loop" ELSE "reset"
    /\ UNCHANGED <<linkVars, flagVars, pool, q_inner_send, lgVars, counters,
                   nconns, target, told, served, wire>>

\* The end of dis_connect and of cb_event.
Reset ==
    /\ ioPc = "reset"
    /\ beNormal' = 0
    /\ connect_state' = 0
    /\ UNCHANGED <<net, input, live, up>>
    /\ Goto("loop")

-----------------------------------------------------------------------------
(* connect *)

ReadNeedConnect ==
    /\ ioPc = "need"
    /\ Goto(IF needConnect THEN "connect" ELSE "loop")
    /\ UNCHANGED linkVars

\* The guard on setIp holds wherever needConnect has been read.
Connect ==
    /\ ioPc = "connect"
    /\ IF connect_state # 0
       THEN /\ ioPc' = "loop"
            /\ UNCHANGED <<beNormal, live, needConnect, nconns>>
       ELSE /\ IF beNormal = 0
               THEN /\ nconns' = nconns + 1
                    /\ beNormal' = nconns'
                    /\ live' = live \union {nconns'}
               ELSE UNCHANGED <<beNormal, live, nconns>>
            /\ needConnect' = FALSE
            /\ ioPc' = "dial"
    /\ UNCHANGED <<connect_state, net, input, up, si, forceClose, lgStore, pool,
                   queueVars, lgVars, ioMsg, counters, target, lost, told,
                   served, wire>>

Dialled ==
    /\ ioPc = "dial"
    /\ ioPc' = "loop"
    /\ target' = [target EXCEPT ![beNormal] = si]
    /\ served' = IF Written("forceClose") /\ ~forceClose /\ si = <<nasks, nasks>>
                 THEN nasks ELSE served
    /\ UNCHANGED <<flagVars, pool, queueVars, lgVars, ioMsg, counters, nconns,
                   lost, told, wire, net, input, up>>

\* bufferevent_socket_connect: the connection is under way,
DialPending ==
    /\ Dialled
    /\ connect_state' = 1
    /\ UNCHANGED <<beNormal, live>>

\* there is no socket for it,
DialNoSocket ==
    /\ Dialled
    /\ UNCHANGED <<beNormal, live, connect_state>>

\* or it fails at once, which calls cb_event before it returns.
DialFails ==
    /\ Dialled
    /\ live' = live \ {beNormal}
    /\ beNormal' = 0
    /\ connect_state' = 0

-----------------------------------------------------------------------------
(* cb_event *)

Hello == 0

\* The hello is the first thing written to a connection.
Connected ==
    /\ ioPc = "loop"
    /\ connect_state = 1
    /\ connect_state' = 2
    /\ up' = up \union {beNormal}
    /\ wire' = [wire EXCEPT ![beNormal] = Append(@, Hello)]
    /\ UNCHANGED <<beNormal, net, input, live, flagVars, pool, queueVars,
                   lgVars, ioPc, ioMsg, counters, history>>

\* The connection was refused or it was lost.
Down ==
    /\ ioPc = "loop"
    /\ connect_state # 0
    /\ beNormal \in live
    /\ Free
    /\ UNCHANGED <<beNormal, connect_state, up>>
    /\ Goto(IF connect_state = 2 THEN "closeAlloc" ELSE "reset")

-----------------------------------------------------------------------------
(* cb_read *)

Readable(n) ==
    /\ ioPc = "loop"
    /\ beNormal \in live
    /\ n \in 1 .. Len(net)
    /\ input' = input \o SubSeq(net, 1, n)
    /\ net' = SubSeq(net, n + 1, Len(net))
    /\ UNCHANGED <<beNormal, connect_state, live, up>>
    /\ Goto("read")

\* A wrong length: beNormal and connect_state stay what they are.
ReadBad ==
    /\ ioPc = "read"
    /\ input # <<>> /\ Head(input) = "bad"
    /\ Free
    /\ UNCHANGED <<beNormal, connect_state, up>>
    /\ Goto("badAlloc")

\* A frame is left in the buffer when there is no block for it.
ReadFrame ==
    /\ ioPc = "read"
    /\ input # <<>> /\ Head(input) = "good"
    /\ IF pool = 0
       THEN /\ ioPc' = "loop"
            /\ UNCHANGED <<input, pool, ioMsg>>
       ELSE /\ pool' = pool - 1
            /\ ioMsg' = [kind |-> "data", conn |-> beNormal]
            /\ input' = Tail(input)
            /\ ioPc' = "readPush"
    /\ UNCHANGED <<beNormal, connect_state, net, live, up, flagVars, queueVars,
                   lgVars, counters, history, wire>>

ReadPush ==
    /\ ioPc = "readPush"
    /\ q_inner_recv' = Pushed(q_inner_recv, ioMsg)
    /\ ioMsg' = None
    /\ ioPc' = "read"
    /\ UNCHANGED <<linkVars, flagVars, pool, q_inner_send, lgVars, counters,
                   history, wire>>

ReadDone ==
    /\ ioPc = "read"
    /\ input = <<>>
    /\ Goto("loop")
    /\ UNCHANGED linkVars

-----------------------------------------------------------------------------
(* Sending: the loop of cb_time_logic *)

(***************************************************************************)
(* What is written to a connection that ReadBad freed goes to freed memory *)
(* and reaches nobody, if the process survives it (UseFreed).              *)
(***************************************************************************)
SendPop ==
    /\ ioPc = "send"
    /\ IF q_inner_send = <<>>
       THEN /\ ioPc' = "loop"
            /\ UNCHANGED <<q_inner_send, wire>>
       ELSE /\ wire' = IF beNormal \in live
                       THEN [wire EXCEPT ![beNormal] = Append(@, Head(q_inner_send))]
                       ELSE wire
            /\ q_inner_send' = Tail(q_inner_send)
            /\ ioPc' = "sendFree"
    /\ UNCHANGED <<linkVars, flagVars, pool, q_inner_recv, lgVars, ioMsg,
                   counters, history>>

\* The state, tested again before the next message, cannot have changed.
SendFree ==
    /\ ioPc = "sendFree"
    /\ pool' = pool + 1
    /\ ioPc' = "send"
    /\ UNCHANGED <<linkVars, flagVars, queueVars, lgVars, ioMsg, counters,
                   history, wire>>

UseFreed ==
    /\ beNormal # 0 /\ beNormal \notin live
    /\ \/ ioPc = "disconnect"
       \/ ioPc = "send" /\ q_inner_send # <<>>
    /\ UNCHANGED linkVars
    /\ Goto("crashed")

-----------------------------------------------------------------------------
(* The logic thread: msg_inner_parse, called by the Lua code *)

SetConnect ==
    /\ Running
    /\ lgStore = 0
    /\ nasks < MaxAsks
    /\ nasks' = nasks + 1
    /\ lgStore' = 1
    /\ UNCHANGED <<linkVars, si, needConnect, forceClose, pool, queueVars,
                   lgVars, ioPc, ioMsg, ncloses, nframes, nsends, history,
                   wire>>

Store ==
    /\ Running
    /\ lgStore # 0
    /\ LET field == Stores[lgStore]
       IN /\ si' = [si EXCEPT ![1] = IF field = "sin_port" THEN nasks ELSE @,
                              ![2] = IF field = "sin_addr" THEN nasks ELSE @]
          /\ forceClose' = (forceClose \/ field = "forceClose")
          /\ needConnect' = (needConnect \/ field = "needConnect")
    /\ lgStore' = (lgStore + 1) % (Len(Stores) + 1)
    /\ UNCHANGED <<linkVars, pool, queueVars, lgVars, ioPc, ioMsg, counters,
                   history, wire>>

CloseConnect ==
    /\ Running
    /\ lgStore = 0
    /\ ncloses < MaxCloses
    /\ ncloses' = ncloses + 1
    /\ forceClose' = TRUE
    /\ UNCHANGED <<linkVars, si, needConnect, lgStore, pool, queueVars, lgVars,
                   ioPc, ioMsg, nasks, nframes, nsends, history, wire>>

\* Seeded bug: the result of alloc is not tested.
WriteBeginUnchecked ==
    /\ Running
    /\ lgStore = 0
    /\ nsends < MaxSends
    /\ nsends' = nsends + 1
    /\ msg_send' = nsends'
    /\ pool' = IF msg_send = 0 THEN pool - 1 ELSE pool
    /\ UNCHANGED <<linkVars, flagVars, queueVars, lgMsg, ioPc, ioMsg, nasks,
                   ncloses, nframes, history, wire>>

\* A message that was begun and not ended, for an error, is begun again.
WriteBegin ==
    /\ Running
    /\ lgStore = 0
    /\ nsends < MaxSends
    /\ msg_send # 0 \/ pool > 0
    /\ nsends' = nsends + 1
    /\ msg_send' = nsends'
    /\ pool' = IF msg_send = 0 THEN pool - 1 ELSE pool
    /\ UNCHANGED <<linkVars, flagVars, queueVars, lgMsg, ioPc, ioMsg, nasks,
                   ncloses, nframes, history, wire>>

\* The result of push is ignored.
WriteEnd ==
    /\ Running
    /\ lgStore = 0
    /\ msg_send # 0
    /\ q_inner_send' = Pushed(q_inner_send, msg_send)
    /\ msg_send' = 0
    /\ UNCHANGED <<linkVars, flagVars, pool, q_inner_recv, lgMsg, ioPc, ioMsg,
                   counters, history, wire>>

-----------------------------------------------------------------------------
(* The logic thread: handle_inner *)

HandlePop ==
    /\ Running
    /\ lgStore = 0
    /\ lgMsg = None
    /\ q_inner_recv # <<>>
    /\ lgMsg' = Head(q_inner_recv)
    /\ q_inner_recv' = Tail(q_inner_recv)
    /\ told' = IF lgMsg'.kind = "down" THEN told \union {lgMsg'.conn} ELSE told
    /\ UNCHANGED <<linkVars, flagVars, pool, q_inner_send, msg_send, ioPc,
                   ioMsg, counters, nconns, target, lost, served, wire>>

HandleFree ==
    /\ Running
    /\ lgStore = 0
    /\ lgMsg # None
    /\ pool' = pool + 1
    /\ lgMsg' = None
    /\ UNCHANGED <<linkVars, flagVars, queueVars, msg_send, ioPc, ioMsg,
                   counters, history, wire>>

-----------------------------------------------------------------------------
Callback ==
    \/ ForceClose \/ CloseAlloc \/ ClosePush \/ Reset
    \/ ReadNeedConnect \/ Connect \/ DialPending \/ DialNoSocket \/ DialFails
    \/ ReadBad \/ ReadFrame \/ ReadPush \/ ReadDone
    \/ SendPop \/ SendFree
    \/ UseFreed

HandleInner == HandlePop \/ HandleFree

Next ==
    \/ \E f \in Frames : WorldSend(f)
    \/ Tick
    \/ Connected \/ Down
    \/ \E n \in 1 .. MaxFrames : Readable(n)
    \/ Callback
    \/ SetConnect \/ Store \/ CloseConnect
    \/ WriteBegin \/ WriteEnd
    \/ HandleInner

Spec == Init /\ [][Next]_vars

(***************************************************************************)
(* The inner thread finishes its callbacks and its timer fires again and   *)
(* again; the logic finishes set_connect and loops over handle_inner.      *)
(***************************************************************************)
Fairness == WF_vars(Callback) /\ WF_vars(Tick) /\ WF_vars(Store) /\ WF_vars(HandleInner)

FairSpec == Spec /\ Fairness

-----------------------------------------------------------------------------
(* Properties *)

Addrs == 0 .. MaxAsks
Msgs == [kind : {"data", "down"}, conn : 1 .. MaxAsks]
SeqOf(S, q) == \A i \in 1 .. Len(q) : q[i] \in S

TypeOK ==
    /\ beNormal \in 0 .. nconns /\ nconns \in 0 .. MaxAsks
    /\ connect_state \in 0 .. 2
    /\ SeqOf(Frames, net) /\ SeqOf(Frames, input)
    /\ ioPc \in {"loop", "disconnect", "closeAlloc", "closePush", "reset",
                 "need", "connect", "dial", "read", "readPush", "badAlloc",
                 "badPush", "send", "sendFree", "crashed"}
    /\ {ioMsg, lgMsg} \subseteq Msgs \union {None}
    /\ si \in Addrs \X Addrs /\ lgStore \in 0 .. 4
    /\ {needConnect, forceClose} \subseteq BOOLEAN
    /\ pool \in 0 .. cap
    /\ SeqOf(Msgs, q_inner_recv) /\ SeqOf(1 .. MaxSends, q_inner_send)
    /\ msg_send \in 0 .. MaxSends
    /\ live \union up \subseteq 1 .. nconns /\ lost \union told \subseteq 1 .. MaxAsks

(***************************************************************************)
(* Each of the two rings holds one message less than the pool has blocks   *)
(* (global.h:176), and the pushes of both threads ignore their result, so  *)
(* a block can be lost to the pool.  The loss makes the rings large        *)
(* enough: whatever the two threads do, it happens at most once.           *)
(***************************************************************************)
AtMostOneBlockLost ==
    cap - (pool + Len(q_inner_recv) + Len(q_inner_send)
             + (IF ioMsg # None THEN 1 ELSE 0)
             + (IF ioPc = "sendFree" THEN 1 ELSE 0)
             + (IF lgMsg # None THEN 1 ELSE 0)
             + (IF msg_send # 0 THEN 1 ELSE 0)) \in {0, 1}

(***************************************************************************)
(* set_connect writes port and address while the event loop may be reading *)
(* them (thread_inner.h:184, :209).  A connection made to a mixture or to  *)
(* an earlier address does not stay: once set_connect has returned and its *)
(* forceClose has been obeyed, what is connected or connecting goes to the *)
(* address that was set last.                                              *)
(***************************************************************************)
SettledOnLastAddress ==
    (/\ beNormal \in live
     /\ connect_state # 0
     /\ lgStore = 0
     /\ ~forceClose) => target[beNormal] = <<nasks, nasks>>

(***************************************************************************)
(* On every connection the hello comes first, then messages of the logic   *)
(* in the order they were sent, each one once and on one connection only   *)
(* (thread_inner.h:40, :106-121).                                          *)
(***************************************************************************)
HelloThenInOrder ==
    /\ \A c \in 1 .. MaxAsks : wire[c] # <<>> => wire[c][1] = Hello
    /\ \A c, d \in 1 .. MaxAsks :
        \A i \in 2 .. Len(wire[c]), j \in 2 .. Len(wire[d]) :
            c < d \/ (c = d /\ i < j) => wire[c][i] < wire[d][j]

(***************************************************************************)
(* The state is well typed and what the peers receive is in order.         *)
(***************************************************************************)
LinkSound == TypeOK /\ HelloThenInOrder

(***************************************************************************)
(* The logic is told of the end of each connection it could have used,     *)
(* unless there was no room for the news (thread_inner.h:146-164).         *)
(***************************************************************************)
EndReported ==
    \A c \in 1 .. MaxAsks :
        (c \in up \ live) ~> (c \in told \union lost \/ ~Running)

(***************************************************************************)
(* set_connect sets the connection (thread_inner.h:203): its address is    *)
(* dialled, by an attempt that its own forceClose does not end, unless     *)
(* another request follows.                                                *)
(***************************************************************************)
RequestServed ==
    \A r \in 1 .. MaxAsks :
        (nasks = r /\ lgStore = 0)
            ~> (served = r \/ nasks > r \/ ncloses > 0 \/ ~Running)
=============================================================================
