----------------------------- MODULE ClientProofs -----------------------------
(***************************************************************************)
(* The path of client messages, for every number of descriptors,           *)
(* connections and blocks: the table of connections, both pools, the       *)
(* handshake, what the logic knows of the earlier users of a descriptor    *)
(* when it handles a message, and the rate limit of the messages.          *)
(***************************************************************************)
EXTENDS ClientIo, PkLimit, TableProofs

Reading == ioPc \in {"read", "pushData"}

(***************************************************************************)
(* The connections: each was given a descriptor once, and the table has    *)
(* the connection under the descriptor it was given.                       *)
(***************************************************************************)
TableTypes ==
    /\ fd2be \in [Fds -> 0 .. MaxConns] /\ fds \in Seq(Fds)
    /\ fd2websocket \in [Fds -> BOOLEAN]
    /\ fdOf \in Seq(0 .. fd_max) /\ Len(fdOf) <= MaxConns
    /\ orphans \subseteq 0 .. fd_max
    /\ ioPc \in {"loop", "read", "pushData", "pushDisconnect", "send", "freeSend"}

OwnDescriptor ==
    \A fd \in Fds : fd2be[fd] # NoBe => fd2be[fd] \in Conns /\ fdOf[fd2be[fd]] = fd

\* cb_read works on a connection that exists.
ReadsOpen == Reading => ioFd \in Fds /\ fd2be[ioFd] # NoBe

TableInv ==
    TableTypes /\ OwnDescriptor /\ ReadsOpen /\ TableOK /\ OnlyLargeFdsRefused

-----------------------------------------------------------------------------
LEMMA InitTable == Init => TableInv
<1> SUFFICES ASSUME Init PROVE TableInv
  OBVIOUS
<1>1. TableTypes
  BY IoAssumption DEF Init, TableTypes, NoBe
<1>2. OwnDescriptor /\ OnlyLargeFdsRefused
  BY DEF Init, OwnDescriptor, OnlyLargeFdsRefused, NoBe
<1>3. ReadsOpen
  BY DEF Init, ReadsOpen, Reading
<1>4. TableOK
  BY DEF Init, TableOK, TableConsistent, NoBe
<1> QED
  BY <1>1, <1>2, <1>3, <1>4 DEF TableInv

\* What a step keeps that leaves the table alone.
LEMMA TableKept ==
    ASSUME TableInv, UNCHANGED <<fd2be, fds, fd2websocket, fdOf, open, orphans>>,
           ioPc' \in {"loop", "pushDisconnect", "send", "freeSend"} \/
             (Reading /\ ioFd' = ioFd /\ ioPc' \in {"read", "pushData"})
    PROVE  TableInv'
<1>1. TableTypes'
  BY DEF TableInv, TableTypes
<1>2. OwnDescriptor' /\ TableOK' /\ OnlyLargeFdsRefused'
  BY DEF TableInv, OwnDescriptor, TableOK, OnlyLargeFdsRefused, Conns
<1>3. ReadsOpen'
  BY DEF TableInv, ReadsOpen, Reading
<1> QED
  BY <1>1, <1>2, <1>3 DEF TableInv

\* A new connection; nobody has its descriptor.
LEMMA AcceptKeepsTable ==
    ASSUME TableInv, NEW fd \in 0 .. fd_max, Accept(fd)
    PROVE  TableInv'
<1>1. /\ ioPc = "loop" /\ ioPc' = ioPc /\ Len(fdOf) < MaxConns
      /\ fdOf' = Append(fdOf, fd) /\ \A c \in open : fdOf[c] # fd
  BY DEF Accept
<1>2. ReadsOpen'
  BY <1>1 DEF ReadsOpen, Reading
<1> DEFINE n == Len(fdOf)
<1>3. /\ n \in Nat /\ n < MaxConns /\ fdOf' \in Seq(0 .. fd_max) /\ Len(fdOf') = n + 1
      /\ fdOf'[n + 1] = fd /\ \A c \in Conns : c \in Conns' /\ fdOf'[c] = fdOf[c]
      /\ n + 1 \in Conns' /\ MaxConns \in Nat
  BY <1>1, IoAssumption DEF TableInv, TableTypes, Conns
<1>4. TableConsistent(fd2be, fds) /\ fd2be \in [Fds -> 0 .. MaxConns] /\ fds \in Seq(Fds)
      /\ NoBe \in 0 .. MaxConns /\ open = {fd2be[g] : g \in Fds} \ {NoBe}
  BY <1>3 DEF TableInv, TableTypes, TableOK, NoBe
<1>5. CASE CanAdd(fd2be, fds, fd)
  <2>1. /\ fd2be' = [fd2be EXCEPT ![fd] = n + 1] /\ fds' = Append(fds, fd)
        /\ open' = open \union {n + 1} /\ orphans' = orphans
        /\ fd2websocket' = [fd2websocket EXCEPT ![fd] = FALSE]
    BY <1>3, <1>5 DEF Accept
  <2>2. n + 1 \in 0 .. MaxConns /\ n + 1 # NoBe
    BY <1>3 DEF NoBe
  <2>3. fd \in Fds /\ fds' \in Seq(Fds) /\ TableConsistent(fd2be', fds')
    <3>1. /\ fd \in Fds /\ Append(fds, fd) \in Seq(Fds)
          /\ TableConsistent([fd2be EXCEPT ![fd] = n + 1], Append(fds, fd))
      BY <1>4, <1>5, <2>2, AddKeepsTable
    <3> QED
      BY <2>1, <3>1
  <2>4. TableTypes'
    BY <1>1, <1>3, <2>1, <2>2, <2>3 DEF TableInv, TableTypes
  <2>5. OwnDescriptor'
    <3> SUFFICES ASSUME NEW g \in Fds, fd2be'[g] # NoBe
                 PROVE  fd2be'[g] \in Conns' /\ fdOf'[fd2be'[g]] = g
      BY DEF OwnDescriptor
    <3>1. CASE g = fd
      BY <1>3, <1>4, <2>1, <2>3, <3>1
    <3>2. CASE g # fd
      <4>1. fd2be'[g] = fd2be[g]
        BY <1>4, <2>1, <3>2
      <4>2. fd2be[g] \in Conns /\ fdOf[fd2be[g]] = g
        BY <4>1 DEF TableInv, OwnDescriptor
      <4> QED
        BY <1>3, <4>1, <4>2
    <3> QED
      BY <3>1, <3>2
  <2>6. open' = {fd2be'[g] : g \in Fds} \ {NoBe}
    <3>1. fd2be[fd] = NoBe /\ fd2be' \in [Fds -> 0 .. MaxConns]
      BY <1>5, <2>4 DEF CanAdd, TableTypes
    <3>2. \A g \in Fds : fd2be'[g] = IF g = fd THEN n + 1 ELSE fd2be[g]
      BY <1>4, <2>1
    <3> QED
      BY <1>4, <2>1, <2>2, <2>3, <3>1, <3>2
  <2> QED
    BY <1>2, <2>1, <2>3, <2>4, <2>5, <2>6
       DEF TableInv, TableOK, OnlyLargeFdsRefused
<1>6. CASE ~CanAdd(fd2be, fds, fd)
  <2>1. UNCHANGED <<fd2be, fds, fd2websocket, open>> /\ orphans' = orphans \union {fd}
    BY <1>6 DEF Accept
  <2>2. fd \notin Fds
    <3>1. SUFFICES ASSUME fd \in Fds PROVE FALSE
      OBVIOUS
    <3>2. fd2be[fd] = NoBe
      BY <1>1, <1>4, <3>1 DEF TableInv, OwnDescriptor
    <3> QED
      BY <1>4, <1>6, <3>1, <3>2, RoomForFree
  <2>3. TableTypes'
    BY <1>1, <1>3, <2>1 DEF TableInv, TableTypes
  <2>4. OwnDescriptor'
    BY <1>3, <2>1 DEF TableInv, OwnDescriptor
  <2> QED
    BY <1>2, <2>1, <2>2, <2>3, <2>4 DEF TableInv, TableOK, OnlyLargeFdsRefused
<1> QED
  BY <1>5, <1>6

\* fd_del finds the connection, which is then nowhere in the table.
LEMMA UnregisterKeepsTable ==
    ASSUME TableInv, NEW fd \in Fds, fd2be[fd] # NoBe, Unregister(fd),
           ioPc' \in {"loop", "pushDisconnect"}
    PROVE  TableInv'
<1>1. TableConsistent(fd2be, fds) /\ fd2be \in [Fds -> 0 .. MaxConns] /\ fds \in Seq(Fds)
      /\ NoBe \in 0 .. MaxConns /\ open = {fd2be[g] : g \in Fds} \ {NoBe}
  BY IoAssumption DEF TableInv, TableTypes, TableOK, NoBe
<1>2. /\ CanDel(fd2be, fds, fd) /\ SwapRemove(fds, fd) \in Seq(Fds)
      /\ TableConsistent([fd2be EXCEPT ![fd] = NoBe], SwapRemove(fds, fd))
  BY <1>1, DelKeepsTable
<1>3. /\ fd2be' = [fd2be EXCEPT ![fd] = NoBe] /\ fds' = SwapRemove(fds, fd)
      /\ UNCHANGED <<fd2websocket, fdOf, orphans>> /\ open' = open \ {fd2be[fd]}
  BY <1>2 DEF Unregister
<1>4. \A g \in Fds : fd2be'[g] = IF g = fd THEN NoBe ELSE fd2be[g]
  BY <1>1, <1>3
<1>5. TableTypes'
  BY <1>1, <1>2, <1>3 DEF TableInv, TableTypes
<1>6. OwnDescriptor'
  BY <1>3, <1>4 DEF TableInv, OwnDescriptor, Conns
<1>7. ReadsOpen'
  BY DEF ReadsOpen, Reading
<1>8. \A g \in Fds : g # fd /\ fd2be[g] # NoBe => fd2be[g] # fd2be[fd]
  BY DEF TableInv, OwnDescriptor
<1>9. open' = {fd2be'[g] : g \in Fds} \ {NoBe}
  BY <1>1, <1>3, <1>4, <1>8
<1> QED
  BY <1>2, <1>3, <1>5, <1>6, <1>7, <1>9 DEF TableInv, TableOK, OnlyLargeFdsRefused

LEMMA CloseKeepsTable ==
    ASSUME TableInv, NEW fd \in Fds, fd2be[fd] # NoBe, CloseConnect(fd)
    PROVE  TableInv'
<1>1. Unregister(fd) /\ ioPc' \in {"loop", "pushDisconnect"}
  BY DEF CloseConnect
<1> QED
  BY <1>1, UnregisterKeepsTable

LEMMA ReadableKeepsTable ==
    ASSUME TableInv, NEW fd \in Fds, NEW n, Readable(fd, n)
    PROVE  TableInv'
<1>1. /\ ioPc = "loop" /\ fd2be[fd] # NoBe
      /\ UNCHANGED <<fd2be, fds, fdOf, open, orphans>>
  BY DEF Readable
<1>2. CASE fd2websocket[fd]
  <2>1. ioFd' = fd /\ ioPc' = "read" /\ UNCHANGED fd2websocket
    BY <1>2 DEF Readable
  <2>2. TableTypes' /\ ReadsOpen'
    BY <1>1, <2>1 DEF TableInv, TableTypes, ReadsOpen
  <2> QED
    BY <1>1, <2>1, <2>2 DEF TableInv, OwnDescriptor, TableOK, OnlyLargeFdsRefused, Conns
<1>3. CASE ~fd2websocket[fd]
  <2>1. UNCHANGED <<ioFd, ioPc>>
    BY <1>3 DEF Readable
  <2>2. fd2websocket' \in [Fds -> BOOLEAN]
    <3>1. PICK b \in BOOLEAN : fd2websocket' = [fd2websocket EXCEPT ![fd] = b]
      BY <1>3 DEF Readable
    <3> QED
      BY <3>1 DEF TableInv, TableTypes
  <2>3. TableTypes' /\ ReadsOpen'
    BY <1>1, <2>1, <2>2 DEF TableInv, TableTypes, ReadsOpen, Reading
  <2> QED
    BY <1>1, <2>1, <2>3 DEF TableInv, OwnDescriptor, TableOK, OnlyLargeFdsRefused, Conns
<1> QED
  BY <1>2, <1>3

LEMMA NextTable == TableInv /\ [Next]_vars => TableInv'
<1> SUFFICES ASSUME TableInv, [Next]_vars PROVE TableInv'
  OBVIOUS
<1> DEFINE Kept == UNCHANGED <<fd2be, fds, fd2websocket, fdOf, open, orphans>>
<1>1. ASSUME NEW fd \in Fds, NEW f \in Frames, ClientSend(fd, f) PROVE TableInv'
  <2>1. Kept /\ UNCHANGED <<ioPc, ioFd>>
    BY <1>1 DEF ClientSend, ioVars
  <2> QED
    BY <2>1, TableKept DEF TableInv, TableTypes, Reading
<1>2. ASSUME NEW fd \in Fds, Event(fd) PROVE TableInv'
  <2>1. fd2be[fd] # NoBe /\ CloseConnect(fd)
    BY <1>2 DEF Event
  <2> QED
    BY <2>1, CloseKeepsTable
<1>3. ASSUME NEW fd \in Fds, NEW n \in 1 .. Len(net[fd]), Readable(fd, n) PROVE TableInv'
  BY <1>3, ReadableKeepsTable
<1>4. ASSUME NEW fd \in 0 .. fd_max, Accept(fd) PROVE TableInv'
  BY <1>4, AcceptKeepsTable
<1>5. CASE PushDisconnect \/ ReadDone \/ SendFree \/ SendPop
  <2>1. Kept /\ ioPc' \in {"loop", "pushDisconnect", "send", "freeSend"}
    BY <1>5 DEF PushDisconnect, ReadDone, SendFree, SendPop, tableVars
  <2> QED
    BY <2>1, TableKept
<1>6. CASE ReadBad
  <2>1. ioPc = "read" /\ CloseConnect(ioFd)
    BY <1>6 DEF ReadBad, Take
  <2>2. ioFd \in Fds /\ fd2be[ioFd] # NoBe
    BY <2>1 DEF TableInv, ReadsOpen, Reading
  <2> QED
    BY <2>1, <2>2, CloseKeepsTable
<1>7. CASE ReadData \/ ReadOther \/ PushData
  <2>1. Kept /\ Reading /\ ioFd' = ioFd /\ ioPc' \in {"loop", "read", "pushData"}
    BY <1>7 DEF ReadData, ReadOther, PushData, Take, tableVars, Reading
  <2> QED
    BY <2>1, TableKept
<1>8. CASE HandleIo \/ (\E d \in Dests : SendAlloc(d)) \/ SendFails \/ SendPush \/ UNCHANGED vars
  <2>1. Kept /\ UNCHANGED <<ioPc, ioFd>>
    BY <1>8 DEF HandleIo, PeekRecv, PeekDisconnect, PopNext, Handled, SendAlloc, SendFails,
                SendPush, vars, ioVars
  <2> QED
    BY <2>1, TableKept DEF TableInv, TableTypes, Reading
<1> QED
  BY <1>1, <1>2, <1>3, <1>4, <1>5, <1>6, <1>7, <1>8 DEF Next, IoCallback

LEMMA TableAlways == Spec => []TableInv
BY InitTable, NextTable, PTL DEF Spec

(***************************************************************************)
(* Whatever connects, hangs up and is timed out, the table names the       *)
(* connections there are, and refuses only descriptors beyond it           *)
(* (thread_io.h:208-267).                                                  *)
(***************************************************************************)
THEOREM ClientTableSafe == Spec => []TableSound
<1>1. TableInv => TableSound
  BY DEF TableInv, TableSound
<1> QED
  BY <1>1, TableAlways, PTL

-----------------------------------------------------------------------------
(* Broadcasts *)

\* The loop over fds comes to each connection that is open once.
LEMMA LoopOverFds ==
    ASSUME TableInv
    PROVE  WrittenTo(fds) = [c \in Conns |-> IF c \in open THEN 1 ELSE 0]
<1> DEFINE At(c) == {i \in 1 .. Len(fds) : fds[i] \in Fds /\ fd2be[fds[i]] = c}
<1>1. ASSUME NEW c \in open PROVE Cardinality(At(c)) = 1
  <2>1. PICK fd \in Fds : fd2be[fd] = c /\ c # NoBe
    BY DEF TableInv, TableOK
  <2>2. PICK i \in 1 .. Len(fds) : fds[i] = fd
    BY <2>1 DEF TableInv, TableOK, TableConsistent
  <2>3. ASSUME NEW j \in At(c) PROVE j = i
    <3>1. fds[j] = fd
      BY <2>1 DEF TableInv, OwnDescriptor
    <3> QED
      BY <2>2, <3>1 DEF TableInv, TableOK, TableConsistent
  <2>4. At(c) = {i}
    BY <2>1, <2>2, <2>3
  <2> QED
    BY <2>4, FS_Singleton
<1>2. ASSUME NEW c \in Conns \ open PROVE Cardinality(At(c)) = 0
  <2>1. c # NoBe
    BY DEF Conns, NoBe
  <2>2. At(c) = {}
    BY <2>1 DEF TableInv, TableOK
  <2> QED
    BY <2>2, FS_EmptySet
<1>3. \A c \in Conns : Cardinality(At(c)) = IF c \in open THEN 1 ELSE 0
  BY <1>1, <1>2
<1> QED
  BY <1>3 DEF WrittenTo

\* Only SendPop gives the io thread a message to send.
LEMMA SendsByPop ==
    ASSUME Next, ioMsg = None, ioMsg'.kind = "send"
    PROVE  q_send # <<>> /\ ioMsg' = Head(q_send) /\ wrote' = Written(Head(q_send))
<1>1. ioMsg' # None /\ ioMsg' # ioMsg
  BY DEF None
<1>2. ASSUME NEW fd, CloseConnect(fd) PROVE FALSE
  <2>1. ioMsg' = ioMsg \/ ioMsg' = [kind |-> "disconnect", conn |-> fd2be[fd], step |-> s_step']
    BY <1>2 DEF CloseConnect
  <2> QED
    BY <1>1, <2>1
<1>3. ASSUME ReadData PROVE FALSE
  <2>1. ioMsg' = ioMsg \/ ioMsg' = [kind |-> "data", conn |-> fd2be[ioFd], step |-> s_step']
    BY <1>3 DEF ReadData
  <2> QED
    BY <1>1, <2>1
<1>4. ~IoCallback
  BY <1>1, <1>2, <1>3
     DEF IoCallback, PushDisconnect, ReadDone, ReadBad, ReadOther, PushData, SendFree
<1>5. ~HandleIo
  BY <1>1 DEF HandleIo, PeekRecv, PeekDisconnect, PopNext, Handled, ioVars
<1>6. \A fd : ~Accept(fd) /\ ~Event(fd) /\ \A f : ~ClientSend(fd, f) /\ ~Readable(fd, f)
  BY <1>1, <1>2 DEF Accept, Event, ClientSend, Readable, ioVars
<1>7. ~SendFails /\ ~SendPush /\ \A d : ~SendAlloc(d)
  BY <1>1 DEF SendFails, SendPush, SendAlloc, ioVars
<1>8. SendPop
  BY <1>4, <1>5, <1>6, <1>7 DEF Next
<1> QED
  BY <1>1, <1>8 DEF SendPop

(***************************************************************************)
(* Whatever the clients and the timers did to the table before, a          *)
(* broadcast is written once to every connection there is and to no other  *)
(* one (thread_io.h:190-195).                                              *)
(***************************************************************************)
THEOREM BroadcastComplete == Spec => BroadcastReachesAll
<1>1. ASSUME TableInv, [Next]_vars
      PROVE  [ioMsg = None /\ ioMsg'.kind = "send" /\ ioMsg'.all
                => wrote' = [c \in Conns |-> IF c \in open THEN 1 ELSE 0]]_vars
  <2> SUFFICES ASSUME Next, ioMsg = None, ioMsg'.kind = "send", ioMsg'.all
               PROVE  wrote' = [c \in Conns |-> IF c \in open THEN 1 ELSE 0]
    BY <1>1
  <2>1. wrote' = Written(Head(q_send)) /\ Head(q_send).all
    BY SendsByPop
  <2>2. Written(Head(q_send)) = WrittenTo(fds)
    BY <2>1 DEF Written
  <2> QED
    BY <1>1, <2>1, <2>2, LoopOverFds
<1> QED
  BY <1>1, TableAlways, PTL DEF Spec, BroadcastReachesAll

-----------------------------------------------------------------------------
(* The blocks of msg_send_pool *)

\* The event loop has a block to free between a pop and the free.
SendHeld == IF ioPc = "freeSend" THEN ioMsg \in SendMsgs ELSE ioMsg.kind # "send"

SendInv ==
    /\ send_free \in Nat /\ q_send \in Seq(SendMsgs)
    /\ lgOut \in SendMsgs \union {None}
    /\ SendHeld /\ AtMostOneSendBlockLost

LEMMA SendMsgIsSome == \A m \in SendMsgs : m # None /\ m.kind = "send"
BY DEF SendMsgs, None

LEMMA InitSend == Init => SendInv
<1> SUFFICES ASSUME Init PROVE SendInv
  OBVIOUS
<1>1. /\ ioPc = "loop" /\ ioMsg = None /\ lgOut = None /\ send_free = sendCap
      /\ q_send = <<>> /\ sendCap \in Nat /\ Len(q_send) = 0 /\ ioMsg.kind = "none"
  BY IoAssumption DEF Init, None
<1>2. AtMostOneSendBlockLost
  <2>1. (IF ioMsg.kind = "send" THEN 1 ELSE 0) = 0 /\ (IF lgOut # None THEN 1 ELSE 0) = 0
    BY <1>1
  <2>2. sendCap \in Nat /\ send_free = sendCap /\ Len(q_send) = 0
    BY <1>1
  <2>3. sendCap - (send_free + Len(q_send) + (IF ioMsg.kind = "send" THEN 1 ELSE 0)
                     + (IF lgOut # None THEN 1 ELSE 0)) = 0
    BY <2>1, <2>2
  <2> QED
    BY <2>3 DEF AtMostOneSendBlockLost
<1>3. q_send \in Seq(SendMsgs) /\ send_free \in Nat /\ lgOut = None
  BY <1>1
<1>4. SendHeld
  BY <1>1 DEF SendHeld
<1> QED
  BY <1>2, <1>3, <1>4 DEF SendInv

\* Steps that neither take nor give a block of the pool.
LEMMA SendKept ==
    ASSUME SendInv, UNCHANGED <<send_free, q_send, lgOut>>,
           ioPc # "freeSend", ioPc' # "freeSend", ioMsg'.kind # "send"
    PROVE  SendInv'
BY DEF SendInv, SendHeld, AtMostOneSendBlockLost

LEMMA SendUntouched ==
    ASSUME SendInv, UNCHANGED <<send_free, q_send, lgOut, ioPc, ioMsg>>
    PROVE  SendInv'
BY DEF SendInv, SendHeld, AtMostOneSendBlockLost

LEMMA CloseKeepsSend ==
    ASSUME SendInv, NEW fd, CloseConnect(fd), UNCHANGED sendVars, lgOut' = lgOut,
           ioPc # "freeSend"
    PROVE  SendInv'
<1>1. ioPc' # "freeSend" /\ ioMsg.kind # "send"
  BY DEF CloseConnect, SendInv, SendHeld
<1>2. ioMsg'.kind # "send"
  BY <1>1 DEF CloseConnect
<1> QED
  BY <1>1, <1>2, SendKept DEF sendVars

LEMMA PopKeepsSend == ASSUME SendInv, SendPop PROVE SendInv'
<1>1. ioPc # "freeSend" /\ ioMsg.kind # "send" /\ UNCHANGED <<send_free, lgOut>>
  BY DEF SendPop, SendInv, SendHeld, lgVars
<1>2. CASE q_send = <<>>
  BY <1>1, <1>2, SendKept DEF SendPop
<1>3. CASE q_send # <<>>
  <2>1. ioPc' = "freeSend" /\ ioMsg' = Head(q_send) /\ q_send' = Tail(q_send)
    BY <1>3 DEF SendPop
  <2>2. /\ Head(q_send) \in SendMsgs /\ Tail(q_send) \in Seq(SendMsgs)
        /\ Len(Tail(q_send)) = Len(q_send) - 1 /\ Len(q_send) \in Nat
    BY <1>3 DEF SendInv
  <2>3. ioMsg'.kind = "send"
    BY <2>1, <2>2, SendMsgIsSome
  <2> QED
    BY <1>1, <2>1, <2>2, <2>3, IoAssumption DEF SendInv, SendHeld, AtMostOneSendBlockLost
<1> QED
  BY <1>2, <1>3

LEMMA FreeKeepsSend == ASSUME SendInv, SendFree PROVE SendInv'
<1>1. /\ ioMsg \in SendMsgs /\ send_free' = send_free + 1 /\ ioMsg' = None
      /\ ioPc' # "freeSend" /\ UNCHANGED <<q_send, lgOut>>
  BY DEF SendFree, SendInv, SendHeld, lgVars
<1>2. ioMsg.kind = "send" /\ ioMsg'.kind = "none"
  BY <1>1, SendMsgIsSome DEF None
<1> QED
  BY <1>1, <1>2, IoAssumption DEF SendInv, SendHeld, AtMostOneSendBlockLost

(***************************************************************************)
(* A push that fails finds sendCap - 1 messages in the ring and its own in *)
(* the hand: all blocks, so that none was lost before.                     *)
(***************************************************************************)
LEMMA PushKeepsSend == ASSUME SendInv, SendPush PROVE SendInv'
<1>1. /\ lgOut \in SendMsgs /\ lgOut # None /\ lgOut' = None
      /\ UNCHANGED <<send_free, ioPc, ioMsg>>
  BY DEF SendPush, SendInv, ioVars
<1>2. Len(q_send) \in Nat /\ sendCap \in Nat \ {0}
  BY IoAssumption DEF SendInv
<1>3. CASE Len(q_send) < sendCap - 1
  <2>1. q_send' = Append(q_send, lgOut)
    BY <1>3 DEF SendPush, Pushed, QSendSlots
  <2>2. q_send' \in Seq(SendMsgs) /\ Len(q_send') = Len(q_send) + 1
    BY <1>1, <2>1 DEF SendInv
  <2> QED
    BY <1>1, <1>2, <2>2 DEF SendInv, SendHeld, AtMostOneSendBlockLost
<1>4. CASE ~Len(q_send) < sendCap - 1
  <2>1. q_send' = q_send
    BY <1>4 DEF SendPush, Pushed, QSendSlots
  <2> QED
    BY <1>1, <1>2, <1>4, <2>1 DEF SendInv, SendHeld, AtMostOneSendBlockLost
<1> QED
  BY <1>3, <1>4

LEMMA NextSend == SendInv /\ [Next]_vars => SendInv'
<1> SUFFICES ASSUME SendInv, [Next]_vars PROVE SendInv'
  OBVIOUS
<1> DEFINE Rest == UNCHANGED <<send_free, q_send, lgOut>>
<1>1. ASSUME NEW fd \in Fds, NEW f \in Frames, ClientSend(fd, f) PROVE SendInv'
  BY <1>1, SendUntouched DEF ClientSend, ioVars, sendVars, lgVars
<1>2. ASSUME NEW fd \in Fds, Event(fd) PROVE SendInv'
  BY <1>2, CloseKeepsSend DEF Event, lgVars
<1>3. ASSUME NEW fd \in Fds, NEW n \in 1 .. Len(net[fd]), Readable(fd, n) PROVE SendInv'
  <2>1. Rest /\ ioPc # "freeSend" /\ ioPc' # "freeSend" /\ ioMsg' = ioMsg
    BY <1>3 DEF Readable, sendVars, lgVars
  <2> QED
    BY <2>1, SendKept DEF SendInv, SendHeld
<1>4. ASSUME NEW fd \in 0 .. fd_max, Accept(fd) PROVE SendInv'
  BY <1>4, SendUntouched DEF Accept, sendVars, lgVars
<1>5. CASE PushDisconnect \/ PushData
  <2>1. Rest /\ ioPc # "freeSend" /\ ioPc' # "freeSend" /\ ioMsg' = None
    BY <1>5 DEF PushDisconnect, PushData, sendVars, lgVars
  <2> QED
    BY <2>1, SendKept DEF None
<1>6. CASE ReadDone \/ ReadOther
  <2>1. Rest /\ ioPc # "freeSend" /\ ioPc' # "freeSend" /\ ioMsg' = ioMsg
    BY <1>6 DEF ReadDone, ReadOther, Take, sendVars, lgVars
  <2> QED
    BY <2>1, SendKept DEF SendInv, SendHeld
<1>7. CASE ReadBad
  BY <1>7, CloseKeepsSend DEF ReadBad, Take, lgVars
<1>8. CASE ReadData
  <2>1. Rest /\ ioPc # "freeSend" /\ ioPc' # "freeSend" /\ ioMsg.kind # "send"
    BY <1>8 DEF ReadData, Take, sendVars, lgVars, SendInv, SendHeld
  <2>2. ioMsg'.kind # "send"
    BY <1>8, <2>1 DEF ReadData
  <2> QED
    BY <2>1, <2>2, SendKept
<1>9. CASE HandleIo \/ UNCHANGED vars
  BY <1>9, SendUntouched
     DEF HandleIo, PeekRecv, PeekDisconnect, PopNext, Handled, vars, ioVars, sendVars, lgVars
<1>10. ASSUME NEW d \in Dests, SendAlloc(d) PROVE SendInv'
  <2>1. /\ lgOut = None /\ send_free > 0 /\ send_free' = send_free - 1
        /\ lgOut' = [kind |-> "send", all |-> d.all, fds |-> d.fds]
        /\ UNCHANGED <<q_send, ioPc, ioMsg>>
    BY <1>10 DEF SendAlloc, ioVars
  <2>2. lgOut' \in SendMsgs /\ lgOut' # None
    <3>1. d.all \in BOOLEAN /\ d.fds \in Seq(Int)
      BY IoAssumption
    <3>2. lgOut' \in SendMsgs
      BY <2>1, <3>1 DEF SendMsgs
    <3> QED
      BY <3>2, SendMsgIsSome
  <2> QED
    BY <2>1, <2>2, IoAssumption, SMTT(30) DEF SendInv, SendHeld, AtMostOneSendBlockLost
<1>11. CASE SendFails
  <2>1. /\ lgOut # None /\ lgOut' = None /\ send_free' = send_free + 1
        /\ UNCHANGED <<q_send, ioPc, ioMsg>>
    BY <1>11 DEF SendFails, ioVars
  <2> QED
    BY <2>1, IoAssumption DEF SendInv, SendHeld, AtMostOneSendBlockLost
<1> QED
  BY <1>1, <1>2, <1>3, <1>4, <1>5, <1>6, <1>7, <1>8, <1>9, <1>10, <1>11,
     PopKeepsSend, FreeKeepsSend, PushKeepsSend DEF Next, IoCallback

(***************************************************************************)
(* Whatever the number of blocks, the ring that is a slot short loses one  *)
(* of them at most (thread_io.h:279).                                      *)
(***************************************************************************)
THEOREM SendLossBounded == Spec => []AtMostOneSendBlockLost
<1>1. SendInv => AtMostOneSendBlockLost
  BY DEF SendInv
<1> QED
  BY <1>1, InitSend, NextSend, PTL DEF Spec

-----------------------------------------------------------------------------
(* The blocks of msg_recv_pool *)

DataOf(C) == [kind : {"data"}, conn : C, step : Nat]
EndOf(C) == [kind : {"disconnect"}, conn : C, step : Nat]

RecvTypes ==
    /\ net \in [Fds -> Seq(Frames)] /\ input \in [Fds -> Seq(Frames)]
    /\ recv_free \in Nat /\ s_step \in Nat
    /\ q_recv_io \in Seq(DataOf(Conns)) /\ q_disconnect \in Seq(EndOf(Conns))
    /\ lgPc \in {"peek", "peekDisconnect", "pop", "handle"}
    /\ cg \in DataOf(Conns) \union {None} /\ gg \in EndOf(Conns) \union {None}
    /\ lgMsg \in DataOf(Conns) \union EndOf(Conns) \union {None}
    /\ told \union lost \union greeted \subseteq Conns

\* What the event loop has in hand, by where it is; SendInv has the rest.
RecvHeld ==
    /\ ioPc = "pushData" => ioMsg \in DataOf(Conns)
    /\ ioPc = "pushDisconnect" => ioMsg \in EndOf(Conns)
    /\ ioPc \in {"loop", "read", "send"} => ioMsg = None

\* What handle_io has seen is still at the head of the queues.
Peeked ==
    /\ lgPc \in {"peek", "handle"} => cg = None /\ gg = None
    /\ cg # None => q_recv_io # <<>> /\ cg = Head(q_recv_io)
    /\ lgPc = "pop" => cg # None \/ gg # None
    /\ gg # None => q_disconnect # <<>> /\ gg = Head(q_disconnect)
    /\ lgMsg # None <=> lgPc = "handle"

RecvInv == RecvTypes /\ RecvHeld /\ Peeked /\ RecvPoolConserved

LEMMA RecvMsgIsSome ==
    ASSUME NEW C
    PROVE  /\ \A m \in DataOf(C) : m # None /\ m.kind = "data" /\ m.conn \in C /\ m.step \in Nat
           /\ \A m \in EndOf(C) :
                m # None /\ m.kind = "disconnect" /\ m.conn \in C /\ m.step \in Nat
           /\ None.kind = "none"
BY DEF DataOf, EndOf, None

LEMMA MsgsGrow ==
    ASSUME NEW C, NEW D, C \subseteq D
    PROVE  DataOf(C) \subseteq DataOf(D) /\ EndOf(C) \subseteq EndOf(D)
BY DEF DataOf, EndOf

LEMMA PopFacts ==
    ASSUME NEW S, NEW q \in Seq(S), q # <<>>
    PROVE  /\ Head(q) \in S /\ Head(q) = q[1]
           /\ Tail(q) \in Seq(S) /\ Len(Tail(q)) = Len(q) - 1 /\ Len(q) \in Nat \ {0}
           /\ \A i \in 1 .. Len(Tail(q)) : i + 1 \in 1 .. Len(q) /\ Tail(q)[i] = q[i + 1]
OBVIOUS

LEMMA AppendFacts ==
    ASSUME NEW S, NEW q \in Seq(S), NEW m \in S
    PROVE  /\ Append(q, m) \in Seq(S) /\ Len(Append(q, m)) = Len(q) + 1 /\ Len(q) \in Nat
           /\ Append(q, m) # <<>> /\ q # <<>> => Head(Append(q, m)) = Head(q)
           /\ \A i \in 1 .. Len(q) : i \in 1 .. Len(Append(q, m)) /\ Append(q, m)[i] = q[i]
           /\ \A i \in 1 .. Len(Append(q, m)) :
                  Append(q, m)[i] = IF i = Len(q) + 1 THEN m ELSE q[i]
OBVIOUS

LEMMA InitRecv == Init => RecvInv
<1> SUFFICES ASSUME Init PROVE RecvInv
  OBVIOUS
<1>1. /\ ioPc = "loop" /\ ioMsg = None /\ lgMsg = None /\ cg = None /\ gg = None
      /\ recv_free = recvCap /\ q_recv_io = <<>> /\ q_disconnect = <<>> /\ lgPc = "peek"
      /\ recvCap \in Nat /\ s_step = 0 /\ told = {} /\ lost = {} /\ greeted = {}
      /\ net = [fd \in Fds |-> <<>>] /\ input = [fd \in Fds |-> <<>>]
  BY IoAssumption DEF Init
<1>2. RecvTypes
  BY <1>1 DEF RecvTypes
<1>3. RecvHeld /\ Peeked
  BY <1>1 DEF RecvHeld, Peeked
<1>4. RecvPoolConserved
  <2>1. /\ Len(q_recv_io) = 0 /\ Len(q_disconnect) = 0
        /\ (IF ioMsg.kind \in {"data", "disconnect"} THEN 1 ELSE 0) = 0
        /\ (IF lgMsg # None THEN 1 ELSE 0) = 0
    BY <1>1, RecvMsgIsSome
  <2>2. recvCap \in Nat /\ recv_free = recvCap
    BY <1>1
  <2> QED
    BY <2>1, <2>2 DEF RecvPoolConserved
<1> QED
  BY <1>2, <1>3, <1>4 DEF RecvInv

\* Steps that leave the pool, both queues and handle_io alone.
LEMMA RecvKept ==
    ASSUME RecvInv, UNCHANGED <<recv_free, q_recv_io, q_disconnect>>,
           UNCHANGED <<lgPc, cg, gg, lgMsg, s_step>>,
           net' \in [Fds -> Seq(Frames)], input' \in [Fds -> Seq(Frames)],
           Conns \subseteq Conns', told' \union lost' \union greeted' \subseteq Conns',
           RecvHeld',
           ioMsg.kind \in {"data", "disconnect"} <=> ioMsg'.kind \in {"data", "disconnect"}
    PROVE  RecvInv'
<1>1. DataOf(Conns) \subseteq DataOf(Conns') /\ EndOf(Conns) \subseteq EndOf(Conns')
  BY MsgsGrow
<1>2. q_recv_io \in Seq(DataOf(Conns')) /\ q_disconnect \in Seq(EndOf(Conns'))
  BY <1>1 DEF RecvInv, RecvTypes
<1>3. RecvTypes'
  BY <1>1, <1>2 DEF RecvInv, RecvTypes
<1>4. Peeked'
  BY DEF RecvInv, Peeked
<1>5. RecvPoolConserved'
  BY DEF RecvInv, RecvPoolConserved
<1> QED
  BY <1>3, <1>4, <1>5 DEF RecvInv

LEMMA SameConns ==
    fdOf' = fdOf => Conns' = Conns
BY DEF Conns

(***************************************************************************)
(* A step that takes a block, puts a message for connection c into it and  *)
(* keeps it in hand.                                                       *)
(***************************************************************************)
LEMMA BlockTaken ==
    ASSUME RecvInv, fdOf' = fdOf, UNCHANGED <<q_recv_io, q_disconnect>>, UNCHANGED lgVars,
           net' \in [Fds -> Seq(Frames)], input' \in [Fds -> Seq(Frames)],
           told' \union lost' \union greeted' \subseteq Conns,
           ioMsg = None, recv_free # 0, recv_free' = recv_free - 1, s_step' = s_step + 1,
           \/ ioPc' = "pushData" /\ ioMsg' \in DataOf(Conns)
           \/ ioPc' = "pushDisconnect" /\ ioMsg' \in EndOf(Conns)
    PROVE  RecvInv'
<1>1. Conns' = Conns
  BY SameConns
<1>2. recv_free \in Nat /\ recv_free' \in Nat /\ s_step' \in Nat
  BY DEF RecvInv, RecvTypes
<1>3. RecvTypes'
  BY <1>1, <1>2 DEF RecvInv, RecvTypes, lgVars
<1>4. RecvHeld'
  BY <1>1 DEF RecvHeld
<1>5. Peeked'
  BY DEF RecvInv, Peeked, lgVars
<1>6. RecvPoolConserved'
  <2>1. ioMsg.kind = "none" /\ ioMsg'.kind \in {"data", "disconnect"}
    BY RecvMsgIsSome
  <2>2. Len(q_recv_io) \in Nat /\ Len(q_disconnect) \in Nat
    BY DEF RecvInv, RecvTypes
  <2> QED
    BY <1>2, <2>1, <2>2 DEF RecvInv, RecvPoolConserved, lgVars
<1> QED
  BY <1>3, <1>4, <1>5, <1>6 DEF RecvInv

LEMMA CloseKeepsRecv ==
    ASSUME RecvInv, TableInv, NEW fd \in Fds, fd2be[fd] # NoBe, CloseConnect(fd),
           ioPc \in {"loop", "read"}, UNCHANGED lgVars
    PROVE  RecvInv'
<1>1. /\ net' = [net EXCEPT ![fd] = <<>>] /\ input' = [input EXCEPT ![fd] = <<>>]
      /\ UNCHANGED <<fdOf, q_recv_io, q_disconnect, told, greeted>>
  BY DEF CloseConnect, Unregister
<1>2. net' \in [Fds -> Seq(Frames)] /\ input' \in [Fds -> Seq(Frames)]
  BY <1>1 DEF RecvInv, RecvTypes
<1>3. fd2be[fd] \in Conns /\ ioMsg = None
  BY DEF TableInv, OwnDescriptor, RecvInv, RecvHeld
<1>4. CASE recv_free = 0
  <2>1. lost' = lost \union {fd2be[fd]} /\ ioPc' = "loop" /\ UNCHANGED <<recv_free, ioMsg, s_step>>
    BY <1>4 DEF CloseConnect
  <2>2. told' \union lost' \union greeted' \subseteq Conns'
    BY <1>1, <1>3, <2>1, SameConns DEF RecvInv, RecvTypes
  <2>3. RecvHeld'
    BY <1>3, <2>1 DEF RecvHeld
  <2> QED
    BY <1>1, <1>2, <2>1, <2>2, <2>3, SameConns, RecvKept DEF lgVars
<1>5. CASE recv_free # 0
  <2>1. /\ recv_free' = recv_free - 1 /\ s_step' = s_step + 1 /\ lost' = lost
        /\ ioMsg' = [kind |-> "disconnect", conn |-> fd2be[fd], step |-> s_step']
        /\ ioPc' = "pushDisconnect"
    BY <1>5 DEF CloseConnect
  <2>2. ioMsg' \in EndOf(Conns)
    BY <1>3, <2>1 DEF EndOf, RecvInv, RecvTypes
  <2>3. told' \union lost' \union greeted' \subseteq Conns
    BY <1>1, <2>1 DEF RecvInv, RecvTypes
  <2> QED
    BY <1>1, <1>2, <1>3, <1>5, <2>1, <2>2, <2>3, BlockTaken
<1> QED
  BY <1>4, <1>5

LEMMA ReadDataKeepsRecv == ASSUME RecvInv, TableInv, ReadData PROVE RecvInv'
<1>1. /\ ioPc = "read" /\ input[ioFd] # <<>> /\ input' = [input EXCEPT ![ioFd] = Tail(@)]
      /\ UNCHANGED <<fdOf, net, q_recv_io, q_disconnect, lost, told, greeted>>
      /\ UNCHANGED lgVars
  BY DEF ReadData, Take, tableVars, ghosts
<1>2. ioFd \in Fds /\ fd2be[ioFd] \in Conns /\ ioMsg = None
  BY <1>1 DEF TableInv, ReadsOpen, Reading, OwnDescriptor, RecvInv, RecvHeld
<1>3. net' \in [Fds -> Seq(Frames)] /\ input' \in [Fds -> Seq(Frames)]
  <2>1. Tail(input[ioFd]) \in Seq(Frames)
    BY <1>1, <1>2 DEF RecvInv, RecvTypes
  <2> QED
    BY <1>1, <2>1 DEF RecvInv, RecvTypes
<1>4. told' \union lost' \union greeted' \subseteq Conns
  BY <1>1 DEF RecvInv, RecvTypes
<1>5. CASE recv_free = 0
  <2>1. ioPc' = "loop" /\ UNCHANGED <<recv_free, s_step, ioMsg>>
    BY <1>5 DEF ReadData
  <2>2. RecvHeld'
    BY <1>2, <2>1 DEF RecvHeld
  <2> QED
    BY <1>1, <1>3, <1>4, <2>1, <2>2, SameConns, RecvKept DEF lgVars
<1>6. CASE recv_free # 0
  <2>1. /\ recv_free' = recv_free - 1 /\ s_step' = s_step + 1 /\ ioPc' = "pushData"
        /\ ioMsg' = [kind |-> "data", conn |-> fd2be[ioFd], step |-> s_step']
    BY <1>6 DEF ReadData
  <2>2. ioMsg' \in DataOf(Conns)
    BY <1>2, <2>1 DEF DataOf, RecvInv, RecvTypes
  <2> QED
    BY <1>1, <1>2, <1>3, <1>4, <1>6, <2>1, <2>2, BlockTaken
<1> QED
  BY <1>5, <1>6

(***************************************************************************)
(* The two pushes: with a block in hand the rings hold less than all the   *)
(* blocks, and have room.                                                  *)
(***************************************************************************)
LEMMA RoomToPush ==
    ASSUME RecvInv, ioMsg.kind \in {"data", "disconnect"}
    PROVE  /\ Pushed(q_recv_io, QRecvSlots, ioMsg) = Append(q_recv_io, ioMsg)
           /\ Pushed(q_disconnect, QRecvSlots, ioMsg) = Append(q_disconnect, ioMsg)
<1>1. Len(q_recv_io) \in Nat /\ Len(q_disconnect) \in Nat /\ recv_free \in Nat
  BY DEF RecvInv, RecvTypes
<1>2. Len(q_recv_io) < recvCap /\ Len(q_disconnect) < recvCap
  BY <1>1, IoAssumption DEF RecvInv, RecvPoolConserved
<1>3. QRecvSlots - 1 = recvCap
  BY IoAssumption DEF QRecvSlots
<1> QED
  BY <1>2, <1>3 DEF Pushed

LEMMA PushDataKeepsRecv == ASSUME RecvInv, PushData PROVE RecvInv'
<1>1. /\ ioPc = "pushData" /\ ioPc' = "read" /\ ioMsg' = None
      /\ UNCHANGED <<net, input, fdOf, recv_free, s_step, q_disconnect>>
      /\ UNCHANGED <<lgPc, cg, gg, lgMsg, told, lost, greeted>>
  BY DEF PushData, tableVars, lgVars, ghosts
<1>2. ioMsg \in DataOf(Conns) /\ ioMsg.kind = "data" /\ ioMsg'.kind = "none"
  BY <1>1, RecvMsgIsSome DEF RecvInv, RecvHeld
<1>3. q_recv_io' = Append(q_recv_io, ioMsg)
  BY <1>2, RoomToPush DEF PushData
<1>4. /\ q_recv_io' \in Seq(DataOf(Conns)) /\ Len(q_recv_io') = Len(q_recv_io) + 1
      /\ Len(q_recv_io) \in Nat /\ Len(q_disconnect) \in Nat
      /\ q_recv_io' # <<>> /\ (q_recv_io # <<>> => Head(q_recv_io') = Head(q_recv_io))
  BY <1>2, <1>3, AppendFacts DEF RecvInv, RecvTypes
<1>5. RecvTypes'
  BY <1>1, <1>4, SameConns DEF RecvInv, RecvTypes
<1>6. RecvHeld'
  BY <1>1 DEF RecvHeld
<1>7. Peeked'
  BY <1>1, <1>4 DEF RecvInv, Peeked
<1>8. RecvPoolConserved'
  BY <1>1, <1>2, <1>4 DEF RecvInv, RecvTypes, RecvPoolConserved
<1> QED
  BY <1>5, <1>6, <1>7, <1>8 DEF RecvInv

LEMMA PushEndKeepsRecv == ASSUME RecvInv, PushDisconnect PROVE RecvInv'
<1>1. /\ ioPc = "pushDisconnect" /\ ioPc' = "loop" /\ ioMsg' = None
      /\ UNCHANGED <<net, input, fdOf, recv_free, s_step, q_recv_io>>
      /\ UNCHANGED <<lgPc, cg, gg, lgMsg, told, lost, greeted>>
  BY DEF PushDisconnect, tableVars, lgVars, ghosts
<1>2. ioMsg \in EndOf(Conns) /\ ioMsg.kind = "disconnect" /\ ioMsg'.kind = "none"
  BY <1>1, RecvMsgIsSome DEF RecvInv, RecvHeld
<1>3. q_disconnect' = Append(q_disconnect, ioMsg)
  BY <1>2, RoomToPush DEF PushDisconnect
<1>4. /\ q_disconnect' \in Seq(EndOf(Conns)) /\ Len(q_disconnect') = Len(q_disconnect) + 1
      /\ Len(q_recv_io) \in Nat /\ Len(q_disconnect) \in Nat
      /\ q_disconnect' # <<>>
      /\ (q_disconnect # <<>> => Head(q_disconnect') = Head(q_disconnect))
  BY <1>2, <1>3, AppendFacts DEF RecvInv, RecvTypes
<1>5. RecvTypes'
  BY <1>1, <1>4, SameConns DEF RecvInv, RecvTypes
<1>6. RecvHeld'
  BY <1>1 DEF RecvHeld
<1>7. Peeked'
  BY <1>1, <1>4 DEF RecvInv, Peeked
<1>8. RecvPoolConserved'
  BY <1>1, <1>2, <1>4 DEF RecvInv, RecvTypes, RecvPoolConserved
<1> QED
  BY <1>5, <1>6, <1>7, <1>8 DEF RecvInv

LEMMA PeekKeepsRecv == ASSUME RecvInv, PeekRecv \/ PeekDisconnect PROVE RecvInv'
<1>1. /\ UNCHANGED <<ioPc, ioMsg, s_step, input, net, fdOf, lgMsg>>
      /\ UNCHANGED <<recv_free, q_recv_io, q_disconnect, told, lost, greeted>>
      /\ lgPc \in {"peek", "peekDisconnect"}
      /\ lgPc' \in {"peek", "peekDisconnect", "pop"}
  BY DEF PeekRecv, PeekDisconnect, ioVars, recvVars, ghosts
<1>2. /\ q_recv_io # <<>> => Head(q_recv_io) \in DataOf(Conns)
      /\ q_disconnect # <<>> => Head(q_disconnect) \in EndOf(Conns)
  BY PopFacts DEF RecvInv, RecvTypes
<1>3. cg' \in DataOf(Conns) \union {None} /\ gg' \in EndOf(Conns) \union {None}
  BY <1>2 DEF PeekRecv, PeekDisconnect, Front, RecvInv, RecvTypes
<1>4. RecvTypes'
  BY <1>1, <1>3, SameConns DEF RecvInv, RecvTypes
<1>5. RecvHeld'
  BY <1>1, SameConns DEF RecvInv, RecvHeld
<1>6. lgMsg = None /\ lgMsg' = None
  BY <1>1 DEF RecvInv, Peeked
<1>7. Peeked'
  <2>1. CASE PeekRecv
    BY <1>1, <1>2, <1>6, <2>1 DEF PeekRecv, Front, RecvInv, Peeked
  <2>2. CASE PeekDisconnect
    BY <1>1, <1>2, <1>6, <2>2 DEF PeekDisconnect, Front, RecvInv, Peeked
  <2> QED
    BY <2>1, <2>2
<1>8. RecvPoolConserved'
  BY <1>1 DEF RecvInv, RecvPoolConserved
<1> QED
  BY <1>4, <1>5, <1>7, <1>8 DEF RecvInv

\* The queue handle_io takes from is the one it has seen a message in.
LEMMA PopNextKeepsRecv == ASSUME RecvInv, PopNext PROVE RecvInv'
<1>1. /\ UNCHANGED <<ioPc, ioMsg, s_step, input, net, fdOf, recv_free, lost, greeted>>
      /\ lgPc = "pop" /\ lgPc' = "handle" /\ cg' = None /\ gg' = None
  BY DEF PopNext, ioVars
<1>2. lgMsg = None
  BY <1>1 DEF RecvInv, Peeked
<1>3. RecvHeld'
  BY <1>1, SameConns DEF RecvInv, RecvHeld
<1>4. Len(q_recv_io) \in Nat /\ Len(q_disconnect) \in Nat /\ recv_free \in Nat
  BY DEF RecvInv, RecvTypes
<1>5. CASE DataFirst
  <2>1. /\ lgMsg' = Head(q_recv_io) /\ q_recv_io' = Tail(q_recv_io)
        /\ UNCHANGED <<q_disconnect, told>> /\ q_recv_io # <<>>
    BY <1>1, <1>5 DEF PopNext, DataFirst, RecvInv, Peeked
  <2>2. /\ lgMsg' \in DataOf(Conns) /\ q_recv_io' \in Seq(DataOf(Conns))
        /\ Len(q_recv_io') = Len(q_recv_io) - 1 /\ lgMsg' # None
    BY <2>1, PopFacts, RecvMsgIsSome DEF RecvInv, RecvTypes
  <2>3. RecvTypes'
    BY <1>1, <2>1, <2>2, SameConns DEF RecvInv, RecvTypes
  <2>4. Peeked'
    BY <1>1, <2>2 DEF Peeked
  <2>5. RecvPoolConserved'
    BY <1>1, <1>2, <1>4, <2>1, <2>2 DEF RecvInv, RecvPoolConserved
  <2> QED
    BY <1>3, <2>3, <2>4, <2>5 DEF RecvInv
<1>6. CASE ~DataFirst
  <2>1. /\ lgMsg' = Head(q_disconnect) /\ q_disconnect' = Tail(q_disconnect)
        /\ q_recv_io' = q_recv_io /\ told' = told \union {lgMsg'.conn}
    BY <1>6 DEF PopNext
  <2>2. q_disconnect # <<>>
    BY <1>1, <1>6 DEF DataFirst, RecvInv, Peeked
  <2>3. /\ lgMsg' \in EndOf(Conns) /\ q_disconnect' \in Seq(EndOf(Conns))
        /\ Len(q_disconnect') = Len(q_disconnect) - 1
    BY <2>1, <2>2, PopFacts DEF RecvInv, RecvTypes
  <2>4. lgMsg' # None /\ lgMsg'.conn \in Conns
    BY <2>3, RecvMsgIsSome
  <2>5. RecvTypes'
    BY <1>1, <2>1, <2>3, <2>4, SameConns DEF RecvInv, RecvTypes
  <2>6. Peeked'
    BY <1>1, <2>4 DEF Peeked
  <2>7. RecvPoolConserved'
    BY <1>1, <1>2, <1>4, <2>1, <2>3, <2>4 DEF RecvInv, RecvPoolConserved
  <2> QED
    BY <1>3, <2>5, <2>6, <2>7 DEF RecvInv
<1> QED
  BY <1>5, <1>6

LEMMA HandledKeepsRecv == ASSUME RecvInv, Handled PROVE RecvInv'
<1>1. /\ UNCHANGED <<ioPc, ioMsg, s_step, input, net, fdOf, q_recv_io, q_disconnect>>
      /\ UNCHANGED <<told, lost, greeted, cg, gg>>
      /\ lgPc = "handle" /\ lgPc' = "peek" /\ lgMsg' = None /\ recv_free' = recv_free + 1
  BY DEF Handled, ioVars, ghosts
<1>2. lgMsg # None /\ Len(q_recv_io) \in Nat /\ Len(q_disconnect) \in Nat /\ recv_free \in Nat
  BY <1>1 DEF RecvInv, RecvTypes, Peeked
<1>3. RecvTypes'
  BY <1>1, <1>2, SameConns DEF RecvInv, RecvTypes
<1>4. RecvHeld'
  BY <1>1, SameConns DEF RecvInv, RecvHeld
<1>5. Peeked'
  BY <1>1 DEF RecvInv, Peeked
<1>6. RecvPoolConserved'
  BY <1>1, <1>2 DEF RecvInv, RecvPoolConserved
<1> QED
  BY <1>3, <1>4, <1>5, <1>6 DEF RecvInv

\* Frames that come in, and the handshake.
LEMMA ReadableKeepsRecv ==
    ASSUME RecvInv, TableInv, NEW fd \in Fds, NEW n \in 1 .. Len(net[fd]), Readable(fd, n)
    PROVE  RecvInv'
<1> DEFINE in == input[fd] \o SubSeq(net[fd], 1, n)
           handshake == in[Len(in)] = "hello"
<1>1. /\ ioPc = "loop" /\ fd2be[fd] # NoBe
      /\ UNCHANGED <<fdOf, ioMsg, s_step, recv_free, q_recv_io, q_disconnect>>
      /\ UNCHANGED <<lgPc, cg, gg, lgMsg, lost, told>>
      /\ net' = [net EXCEPT ![fd] = SubSeq(@, n + 1, Len(@))]
  BY DEF Readable, recvVars, lgVars
<1>2. net[fd] \in Seq(Frames) /\ input[fd] \in Seq(Frames) /\ n \in 1 .. Len(net[fd])
  BY DEF RecvInv, RecvTypes
<1>3. in \in Seq(Frames)
  <2>1. SubSeq(net[fd], 1, n) \in Seq(Frames)
    BY <1>2
  <2> QED
    BY <1>2, <2>1
<1>4. net' \in [Fds -> Seq(Frames)]
  <2>1. SubSeq(net[fd], n + 1, Len(net[fd])) \in Seq(Frames)
    BY <1>2
  <2> QED
    BY <1>1, <2>1 DEF RecvInv, RecvTypes
<1>5. input' = [input EXCEPT ![fd] = in] \/ input' = [input EXCEPT ![fd] = <<>>]
  BY DEF Readable
<1> HIDE DEF in
<1>6. input' \in [Fds -> Seq(Frames)]
  <2>1. <<>> \in Seq(Frames)
    OBVIOUS
  <2>2. PICK s \in Seq(Frames) : input' = [input EXCEPT ![fd] = s]
    BY <1>3, <1>5, <2>1
  <2>3. input \in [Fds -> Seq(Frames)]
    BY DEF RecvInv, RecvTypes
  <2> QED
    BY <2>2, <2>3
<1>7. fd2be[fd] \in Conns /\ ioMsg = None
  BY <1>1 DEF TableInv, OwnDescriptor, RecvInv, RecvHeld
<1>8. greeted' \subseteq Conns /\ ioPc' \in {"loop", "read"}
  BY <1>1, <1>7 DEF Readable, RecvInv, RecvTypes
<1>9. RecvHeld'
  BY <1>1, <1>7, <1>8 DEF RecvHeld
<1>10. told' \union lost' \union greeted' \subseteq Conns' /\ Conns \subseteq Conns'
  BY <1>1, <1>8, SameConns DEF RecvInv, RecvTypes
<1> QED
  BY <1>1, <1>4, <1>6, <1>9, <1>10, RecvKept

LEMMA AcceptKeepsRecv ==
    ASSUME RecvInv, TableInv, NEW fd \in 0 .. fd_max, Accept(fd)
    PROVE  RecvInv'
<1>1. /\ UNCHANGED <<ioMsg, ioPc, s_step, recv_free, q_recv_io, q_disconnect>>
      /\ UNCHANGED <<lgPc, cg, gg, lgMsg, net, input, told, lost, greeted>>
      /\ ioPc = "loop" /\ fdOf' = Append(fdOf, fd)
  BY DEF Accept, recvVars, lgVars, ghosts
<1>2. Conns \subseteq Conns'
  <2>1. Len(fdOf') = Len(fdOf) + 1 /\ Len(fdOf) \in Nat
    BY <1>1, AppendFacts DEF TableInv, TableTypes
  <2> QED
    BY <2>1 DEF Conns
<1>3. RecvHeld'
  BY <1>1 DEF RecvInv, RecvHeld
<1>4. net' \in [Fds -> Seq(Frames)] /\ input' \in [Fds -> Seq(Frames)]
      /\ told' \union lost' \union greeted' \subseteq Conns'
  BY <1>1, <1>2 DEF RecvInv, RecvTypes
<1> QED
  BY <1>1, <1>2, <1>3, <1>4, RecvKept

LEMMA NextRecv == RecvInv /\ TableInv /\ SendInv /\ [Next]_vars => RecvInv'
<1> SUFFICES ASSUME RecvInv, TableInv, SendInv, [Next]_vars PROVE RecvInv'
  OBVIOUS
<1> DEFINE Quiet == /\ UNCHANGED <<fdOf, recv_free, q_recv_io, q_disconnect>>
                    /\ UNCHANGED <<lgPc, cg, gg, lgMsg, s_step, told, lost, greeted>>
           Typed == net' \in [Fds -> Seq(Frames)] /\ input' \in [Fds -> Seq(Frames)]
<1>0. ASSUME Quiet, Typed, RecvHeld',
             ioMsg.kind \in {"data", "disconnect"} <=> ioMsg'.kind \in {"data", "disconnect"}
      PROVE  RecvInv'
  <2>1. Conns \subseteq Conns' /\ told' \union lost' \union greeted' \subseteq Conns'
    BY <1>0, SameConns DEF RecvInv, RecvTypes
  <2> QED
    BY <1>0, <2>1, RecvKept
<1>1. ASSUME NEW fd \in Fds, NEW f \in Frames, ClientSend(fd, f) PROVE RecvInv'
  <2>1. Quiet /\ UNCHANGED <<ioPc, ioMsg, input>> /\ net' = [net EXCEPT ![fd] = Append(@, f)]
    BY <1>1 DEF ClientSend, ioVars, recvVars, lgVars, ghosts
  <2>2. Typed
    BY <2>1 DEF RecvInv, RecvTypes
  <2>3. RecvHeld'
    BY <2>1, SameConns DEF RecvInv, RecvHeld
  <2> QED
    BY <2>1, <2>2, <2>3, <1>0
<1>2. ASSUME NEW fd \in Fds, Event(fd) PROVE RecvInv'
  BY <1>2, CloseKeepsRecv DEF Event
<1>3. ASSUME NEW fd \in Fds, NEW n \in 1 .. Len(net[fd]), Readable(fd, n) PROVE RecvInv'
  BY <1>3, ReadableKeepsRecv
<1>4. ASSUME NEW fd \in 0 .. fd_max, Accept(fd) PROVE RecvInv'
  BY <1>4, AcceptKeepsRecv
<1>5. CASE ReadBad
  <2>1. ioPc = "read" /\ CloseConnect(ioFd) /\ UNCHANGED lgVars
    BY <1>5 DEF ReadBad, Take
  <2>2. ioFd \in Fds /\ fd2be[ioFd] # NoBe
    BY <2>1 DEF TableInv, ReadsOpen, Reading
  <2> QED
    BY <2>1, <2>2, CloseKeepsRecv
<1>6. CASE ReadDone
  <2>1. Quiet /\ UNCHANGED <<ioMsg, input, net>> /\ ioPc = "read" /\ ioPc' = "loop"
    BY <1>6 DEF ReadDone, tableVars, recvVars, lgVars, ghosts
  <2>2. Typed /\ RecvHeld'
    BY <2>1 DEF RecvInv, RecvTypes, RecvHeld
  <2> QED
    BY <2>1, <2>2, <1>0
<1>7. CASE ReadOther
  <2>1. /\ Quiet /\ UNCHANGED <<ioMsg, net>> /\ ioPc = "read" /\ ioPc' \in {"loop", "read"}
        /\ input' = [input EXCEPT ![ioFd] = Tail(@)] /\ input[ioFd] # <<>>
    BY <1>7 DEF ReadOther, Take, tableVars, recvVars, lgVars, ghosts
  <2>2. ioFd \in Fds
    BY <2>1 DEF TableInv, ReadsOpen, Reading
  <2>3. Tail(input[ioFd]) \in Seq(Frames)
    BY <2>1, <2>2, PopFacts DEF RecvInv, RecvTypes
  <2>4. Typed /\ RecvHeld'
    BY <2>1, <2>3 DEF RecvInv, RecvTypes, RecvHeld
  <2> QED
    BY <2>1, <2>4, <1>0
<1>8. CASE SendPop
  <2>1. Quiet /\ UNCHANGED <<input, net>> /\ ioPc \in {"loop", "send"}
    BY <1>8 DEF SendPop, tableVars, recvVars, lgVars
  <2>2. ioMsg = None
    BY <2>1 DEF RecvInv, RecvHeld
  <2>3. (ioPc' = "loop" /\ ioMsg' = None) \/ (ioPc' = "freeSend" /\ ioMsg' \in SendMsgs)
    BY <1>8, <2>2, PopFacts DEF SendPop, SendInv
  <2>4. ioMsg.kind = "none" /\ ioMsg'.kind \in {"none", "send"}
    BY <2>2, <2>3, RecvMsgIsSome, SendMsgIsSome
  <2>5. Typed /\ RecvHeld'
    BY <2>1, <2>3 DEF RecvInv, RecvTypes, RecvHeld
  <2> QED
    BY <2>1, <2>4, <2>5, <1>0
<1>9. CASE SendFree
  <2>1. /\ Quiet /\ UNCHANGED <<input, net>> /\ ioPc = "freeSend"
        /\ ioPc' \in {"loop", "send"} /\ ioMsg' = None
    BY <1>9 DEF SendFree, tableVars, recvVars, lgVars, ghosts
  <2>2. ioMsg.kind = "send" /\ ioMsg'.kind = "none"
    BY <2>1, SendMsgIsSome, RecvMsgIsSome DEF SendInv, SendHeld
  <2>3. Typed /\ RecvHeld'
    BY <2>1 DEF RecvInv, RecvTypes, RecvHeld
  <2> QED
    BY <2>1, <2>2, <2>3, <1>0
<1>10. CASE (\E d \in Dests : SendAlloc(d)) \/ SendFails \/ SendPush \/ UNCHANGED vars
  <2>1. Quiet /\ UNCHANGED <<input, net, ioPc, ioMsg>>
    BY <1>10 DEF SendAlloc, SendFails, SendPush, vars, ioVars, recvVars, lgVars, ghosts
  <2>2. Typed /\ RecvHeld'
    BY <2>1, SameConns DEF RecvInv, RecvTypes, RecvHeld
  <2> QED
    BY <2>1, <2>2, <1>0
<1> QED
  BY <1>1, <1>2, <1>3, <1>4, <1>5, <1>6, <1>7, <1>8, <1>9, <1>10, ReadDataKeepsRecv,
     PushDataKeepsRecv, PushEndKeepsRecv, PeekKeepsRecv, PopNextKeepsRecv, HandledKeepsRecv
     DEF Next, IoCallback, HandleIo

LEMMA ClientAlways == Spec => [](TableInv /\ SendInv /\ RecvInv)
<1>1. Init => TableInv /\ SendInv /\ RecvInv
  BY InitTable, InitSend, InitRecv
<1>2. TableInv /\ SendInv /\ RecvInv /\ [Next]_vars => (TableInv /\ SendInv /\ RecvInv)'
  BY NextTable, NextSend, NextRecv
<1> QED
  BY <1>1, <1>2, PTL DEF Spec

LEMMA ClientTyped == TableInv /\ SendInv /\ RecvInv => TypeOK
<1> SUFFICES ASSUME TableInv, SendInv, RecvInv PROVE TypeOK
  OBVIOUS
<1>1. Conns \subseteq 1 .. MaxConns
  BY IoAssumption DEF TableInv, TableTypes, Conns
<1>2. DataOf(Conns) \subseteq RecvMsgs /\ EndOf(Conns) \subseteq RecvMsgs
  BY <1>1 DEF DataOf, EndOf, RecvMsgs
<1>3. SeqOf(RecvMsgs, q_recv_io) /\ SeqOf(RecvMsgs, q_disconnect) /\ SeqOf(Fds, fds)
      /\ \A fd \in Fds : SeqOf(Frames, net[fd]) /\ SeqOf(Frames, input[fd])
  BY <1>2 DEF RecvInv, RecvTypes, TableInv, TableTypes, SeqOf
<1>4. {cg, gg, lgMsg} \subseteq RecvMsgs \union {None}
  BY <1>2 DEF RecvInv, RecvTypes
<1>5. ioMsg \in RecvMsgs \union SendMsgs \union {None}
  BY <1>2 DEF RecvInv, RecvHeld, SendInv, SendHeld, TableInv, TableTypes
<1>6. recv_free \in 0 .. recvCap
  <2>1. Len(q_recv_io) \in Nat /\ Len(q_disconnect) \in Nat /\ recv_free \in Nat
    BY DEF RecvInv, RecvTypes
  <2> QED
    BY <2>1, IoAssumption DEF RecvInv, RecvPoolConserved
<1>7. send_free \in 0 .. sendCap
  <2>1. Len(q_send) \in Nat /\ send_free \in Nat
    BY DEF SendInv
  <2> QED
    BY <2>1, IoAssumption DEF SendInv, AtMostOneSendBlockLost
<1>8. open \union lost \union told \union greeted \subseteq Conns
  BY DEF RecvInv, RecvTypes, TableInv, TableOK, OwnDescriptor
<1> QED
  BY <1>3, <1>4, <1>5, <1>6, <1>7, <1>8 DEF TypeOK, TableInv, TableTypes, RecvInv, RecvTypes

(***************************************************************************)
(* No block of msg_recv_pool is lost, whatever connects, sends and closes, *)
(* and the two pushes whose result is ignored always find room             *)
(* (thread_io.h:165, :224).                                                *)
(***************************************************************************)
THEOREM ClientReceiveSafe == Spec => []ReceiveSound
<1>1. TableInv /\ SendInv /\ RecvInv => ReceiveSound
  BY ClientTyped DEF RecvInv, ReceiveSound
<1> QED
  BY <1>1, ClientAlways, PTL

-----------------------------------------------------------------------------
(* The handshake *)

(***************************************************************************)
(* The flag of a descriptor speaks of the connection that has it now, and  *)
(* cb_read takes messages only where it is set.                            *)
(***************************************************************************)
FlagTrue == \A fd \in Fds : fd2websocket[fd] /\ fd2be[fd] # NoBe => fd2be[fd] \in greeted
ReadsGreeted == Reading => fd2websocket[ioFd]
HeldGreeted == ioPc = "pushData" => ioMsg.conn \in greeted

GreetInv == FlagTrue /\ ReadsGreeted /\ HeldGreeted /\ NoDataBeforeHandshake

LEMMA InitGreet == Init => GreetInv
<1> SUFFICES ASSUME Init PROVE GreetInv
  OBVIOUS
<1>1. FlagTrue
  BY DEF Init, FlagTrue
<1>2. ReadsGreeted /\ HeldGreeted /\ NoDataBeforeHandshake
  BY DEF Init, ReadsGreeted, Reading, HeldGreeted, NoDataBeforeHandshake
<1> QED
  BY <1>1, <1>2 DEF GreetInv

\* Steps in which nobody is greeted and no message moves to q_recv_io.
LEMMA GreetKept ==
    ASSUME GreetInv, UNCHANGED <<greeted, fd2websocket, fd2be, q_recv_io>>,
           \/ UNCHANGED <<ioPc, ioFd, ioMsg>>
           \/ ioPc' \notin {"read", "pushData"}
           \/ Reading /\ ioPc' = "read" /\ ioFd' = ioFd
    PROVE  GreetInv'
<1>1. FlagTrue' /\ NoDataBeforeHandshake'
  BY DEF GreetInv, FlagTrue, NoDataBeforeHandshake
<1>2. ReadsGreeted' /\ HeldGreeted'
  BY DEF GreetInv, ReadsGreeted, HeldGreeted, Reading
<1> QED
  BY <1>1, <1>2 DEF GreetInv

LEMMA CloseKeepsGreet ==
    ASSUME GreetInv, TableInv, NEW fd \in Fds, fd2be[fd] # NoBe, CloseConnect(fd)
    PROVE  GreetInv'
<1>1. /\ UNCHANGED <<greeted, fd2websocket, q_recv_io>>
      /\ ioPc' \in {"loop", "pushDisconnect"}
      /\ fd2be' = [fd2be EXCEPT ![fd] = NoBe] \/ fd2be' = fd2be
  BY DEF CloseConnect, Unregister
<1>2. \A g \in Fds : fd2be'[g] = fd2be[g] \/ fd2be'[g] = NoBe
  BY <1>1 DEF TableInv, TableTypes
<1>3. FlagTrue'
  BY <1>1, <1>2 DEF GreetInv, FlagTrue
<1>4. ReadsGreeted' /\ HeldGreeted' /\ NoDataBeforeHandshake'
  BY <1>1 DEF GreetInv, ReadsGreeted, HeldGreeted, Reading, NoDataBeforeHandshake
<1> QED
  BY <1>3, <1>4 DEF GreetInv

LEMMA AcceptKeepsGreet ==
    ASSUME GreetInv, TableInv, NEW fd \in 0 .. fd_max, Accept(fd)
    PROVE  GreetInv'
<1>1. ioPc = "loop" /\ UNCHANGED <<greeted, q_recv_io, ioPc, ioMsg, ioFd>>
  BY DEF Accept, recvVars, ghosts
<1>2. CASE CanAdd(fd2be, fds, fd)
  <2>1. /\ fd2be' = [fd2be EXCEPT ![fd] = Len(fdOf')]
        /\ fd2websocket' = [fd2websocket EXCEPT ![fd] = FALSE]
    BY <1>2 DEF Accept
  <2>2. fd2be \in [Fds -> 0 .. MaxConns] /\ fd2websocket \in [Fds -> BOOLEAN]
    BY DEF TableInv, TableTypes
  <2>3. ASSUME NEW g \in Fds, fd2websocket'[g], fd2be'[g] # NoBe
        PROVE  fd2be'[g] \in greeted'
    <3>1. g # fd
      BY <2>1, <2>2, <2>3
    <3>2. fd2websocket[g] /\ fd2be'[g] = fd2be[g]
      BY <2>1, <2>2, <2>3, <3>1
    <3> QED
      BY <1>1, <2>3, <3>2 DEF GreetInv, FlagTrue
  <2>4. FlagTrue'
    BY <2>3 DEF FlagTrue
  <2>5. ReadsGreeted' /\ HeldGreeted' /\ NoDataBeforeHandshake'
    BY <1>1 DEF GreetInv, ReadsGreeted, HeldGreeted, Reading, NoDataBeforeHandshake
  <2> QED
    BY <2>4, <2>5 DEF GreetInv
<1>3. CASE ~CanAdd(fd2be, fds, fd)
  <2>1. UNCHANGED <<fd2be, fd2websocket>>
    BY <1>3 DEF Accept
  <2> QED
    BY <1>1, <2>1, GreetKept
<1> QED
  BY <1>2, <1>3

LEMMA ReadableKeepsGreet ==
    ASSUME GreetInv, TableInv, NEW fd \in Fds, NEW n, Readable(fd, n)
    PROVE  GreetInv'
<1>1. ioPc = "loop" /\ fd2be[fd] # NoBe /\ UNCHANGED <<fd2be, q_recv_io, ioMsg>>
  BY DEF Readable, recvVars
<1>2. CASE fd2websocket[fd]
  <2>1. ioFd' = fd /\ ioPc' = "read" /\ UNCHANGED <<fd2websocket, greeted>>
    BY <1>2 DEF Readable
  <2>2. FlagTrue' /\ NoDataBeforeHandshake' /\ HeldGreeted'
    BY <1>1, <2>1 DEF GreetInv, FlagTrue, HeldGreeted, NoDataBeforeHandshake
  <2>3. ReadsGreeted'
    BY <1>2, <2>1 DEF ReadsGreeted
  <2> QED
    BY <2>2, <2>3 DEF GreetInv
<1>3. CASE ~fd2websocket[fd]
  <2>1. /\ UNCHANGED <<ioFd, ioPc>>
        /\ \/ /\ fd2websocket' = [fd2websocket EXCEPT ![fd] = TRUE]
              /\ greeted' = greeted \union {fd2be[fd]}
           \/ /\ fd2websocket' = [fd2websocket EXCEPT ![fd] = FALSE]
              /\ greeted' = greeted
    BY <1>3 DEF Readable
  <2>2. fd2websocket \in [Fds -> BOOLEAN]
    BY DEF TableInv, TableTypes
  <2>0. greeted \subseteq greeted'
    BY <2>1
  <2>3. ASSUME NEW g \in Fds, fd2websocket'[g], fd2be'[g] # NoBe
        PROVE  fd2be'[g] \in greeted'
    <3>1. CASE g = fd
      <4>1. greeted' = greeted \union {fd2be[fd]}
        BY <2>1, <2>2, <2>3, <3>1
      <4> QED
        BY <1>1, <3>1, <4>1
    <3>2. CASE g # fd
      <4>1. fd2websocket[g]
        BY <2>1, <2>2, <2>3, <3>2
      <4> QED
        BY <1>1, <2>0, <2>3, <4>1 DEF GreetInv, FlagTrue
    <3> QED
      BY <3>1, <3>2
  <2>4. FlagTrue'
    BY <2>3 DEF FlagTrue
  <2>5. ReadsGreeted' /\ HeldGreeted'
    <3>1. ioPc' = "loop"
      BY <1>1, <2>1
    <3> QED
      BY <3>1 DEF ReadsGreeted, HeldGreeted, Reading
  <2>6. NoDataBeforeHandshake'
    BY <1>1, <2>0 DEF GreetInv, NoDataBeforeHandshake
  <2> QED
    BY <2>4, <2>5, <2>6 DEF GreetInv
<1> QED
  BY <1>2, <1>3

LEMMA NextGreet == GreetInv /\ TableInv /\ SendInv /\ RecvInv /\ [Next]_vars => GreetInv'
<1> SUFFICES ASSUME GreetInv, TableInv, SendInv, RecvInv, [Next]_vars PROVE GreetInv'
  OBVIOUS
<1> DEFINE Rest == UNCHANGED <<greeted, fd2websocket, fd2be, q_recv_io>>
<1>1. ASSUME NEW fd \in Fds, NEW f \in Frames, ClientSend(fd, f) PROVE GreetInv'
  BY <1>1, GreetKept DEF ClientSend, ioVars, recvVars, ghosts
<1>2. ASSUME NEW fd \in Fds, Event(fd) PROVE GreetInv'
  BY <1>2, CloseKeepsGreet DEF Event
<1>3. ASSUME NEW fd \in Fds, NEW n \in 1 .. Len(net[fd]), Readable(fd, n) PROVE GreetInv'
  BY <1>3, ReadableKeepsGreet
<1>4. ASSUME NEW fd \in 0 .. fd_max, Accept(fd) PROVE GreetInv'
  BY <1>4, AcceptKeepsGreet
<1>5. CASE ReadBad
  <2>1. ioPc = "read" /\ CloseConnect(ioFd)
    BY <1>5 DEF ReadBad, Take
  <2>2. ioFd \in Fds /\ fd2be[ioFd] # NoBe
    BY <2>1 DEF TableInv, ReadsOpen, Reading
  <2> QED
    BY <2>1, <2>2, CloseKeepsGreet
<1>6. CASE PushDisconnect \/ ReadDone \/ SendPop \/ SendFree
  <2>1. Rest /\ ioPc' \notin {"read", "pushData"}
    BY <1>6 DEF PushDisconnect, ReadDone, SendPop, SendFree, tableVars, recvVars, ghosts
  <2> QED
    BY <2>1, GreetKept
<1>7. CASE ReadOther
  <2>1. Rest /\ ioPc = "read" /\ ioPc' \in {"read", "loop"} /\ ioFd' = ioFd
    BY <1>7 DEF ReadOther, Take, tableVars, recvVars, ghosts
  <2> QED
    BY <2>1, GreetKept DEF Reading
<1>8. CASE ReadData
  <2>1. Rest /\ ioPc = "read" /\ ioFd' = ioFd
    BY <1>8 DEF ReadData, Take, tableVars, ghosts
  <2>2. CASE recv_free = 0
    BY <1>8, <2>1, <2>2, GreetKept DEF ReadData
  <2>3. CASE recv_free # 0
    <3>1. /\ ioPc' = "pushData" /\ s_step' = s_step + 1
          /\ ioMsg' = [kind |-> "data", conn |-> fd2be[ioFd], step |-> s_step']
      BY <1>8, <2>3 DEF ReadData
    <3>2. ioFd \in Fds /\ fd2be[ioFd] # NoBe /\ fd2websocket[ioFd]
      BY <2>1 DEF TableInv, ReadsOpen, GreetInv, ReadsGreeted, Reading
    <3>3. ioMsg'.conn = fd2be[ioFd]
      BY <3>1
    <3>4. HeldGreeted'
      BY <2>1, <3>2, <3>3 DEF HeldGreeted, GreetInv, FlagTrue
    <3>5. ReadsGreeted'
      BY <2>1, <3>2 DEF ReadsGreeted
    <3>6. FlagTrue' /\ NoDataBeforeHandshake'
      BY <2>1 DEF GreetInv, FlagTrue, NoDataBeforeHandshake
    <3> QED
      BY <3>4, <3>5, <3>6 DEF GreetInv
  <2> QED
    BY <2>2, <2>3
<1>9. CASE PushData
  <2>1. /\ UNCHANGED <<greeted, fd2websocket, fd2be, ioFd>>
        /\ ioPc = "pushData" /\ ioPc' = "read"
    BY <1>9 DEF PushData, tableVars, ghosts
  <2>2. ioMsg \in DataOf(Conns) /\ ioMsg.conn \in greeted
    BY <2>1 DEF RecvInv, RecvHeld, GreetInv, HeldGreeted
  <2>3. q_recv_io' = Append(q_recv_io, ioMsg)
    BY <1>9, <2>2, RoomToPush, RecvMsgIsSome DEF PushData
  <2>4. \A i \in 1 .. Len(q_recv_io') :
            q_recv_io'[i] = ioMsg \/ (i \in 1 .. Len(q_recv_io) /\ q_recv_io'[i] = q_recv_io[i])
    BY <2>2, <2>3, AppendFacts DEF RecvInv, RecvTypes
  <2>5. NoDataBeforeHandshake'
    BY <2>1, <2>2, <2>4 DEF GreetInv, NoDataBeforeHandshake
  <2>6. FlagTrue' /\ HeldGreeted'
    BY <2>1 DEF GreetInv, FlagTrue, HeldGreeted
  <2>7. ReadsGreeted'
    BY <2>1 DEF GreetInv, ReadsGreeted, Reading
  <2> QED
    BY <2>5, <2>6, <2>7 DEF GreetInv
<1>10. CASE PopNext
  <2>1. UNCHANGED <<greeted, fd2websocket, fd2be, ioPc, ioFd, ioMsg>>
    BY <1>10 DEF PopNext, ioVars
  <2>2. CASE ~DataFirst
    BY <1>10, <2>1, <2>2, GreetKept DEF PopNext
  <2>3. CASE DataFirst
    <3>1. q_recv_io' = Tail(q_recv_io) /\ q_recv_io # <<>>
      BY <1>10, <2>3 DEF PopNext, DataFirst, RecvInv, Peeked
    <3>2. \A i \in 1 .. Len(q_recv_io') :
              i + 1 \in 1 .. Len(q_recv_io) /\ q_recv_io'[i] = q_recv_io[i + 1]
      BY <3>1, PopFacts DEF RecvInv, RecvTypes
    <3>3. NoDataBeforeHandshake'
      BY <2>1, <3>2 DEF GreetInv, NoDataBeforeHandshake
    <3>4. FlagTrue' /\ HeldGreeted' /\ ReadsGreeted'
      BY <2>1 DEF GreetInv, FlagTrue, HeldGreeted, ReadsGreeted, Reading
    <3> QED
      BY <3>3, <3>4 DEF GreetInv
  <2> QED
    BY <2>2, <2>3
<1>11. CASE PeekRecv \/ PeekDisconnect \/ Handled
  BY <1>11, GreetKept DEF PeekRecv, PeekDisconnect, Handled, ioVars, recvVars, ghosts
<1>12. CASE (\E d \in Dests : SendAlloc(d)) \/ SendFails \/ SendPush \/ UNCHANGED vars
  BY <1>12, GreetKept DEF SendAlloc, SendFails, SendPush, vars, ioVars, recvVars, ghosts
<1> QED
  BY <1>1, <1>2, <1>3, <1>4, <1>5, <1>6, <1>7, <1>8, <1>9, <1>10, <1>11, <1>12
     DEF Next, IoCallback, HandleIo

(***************************************************************************)
(* The logic never gets a message of a connection that has not gone        *)
(* through the handshake, on a reused descriptor neither                   *)
(* (thread_io.h:38, :94).                                                  *)
(***************************************************************************)
THEOREM HandshakeFirst == Spec => []NoDataBeforeHandshake
<1> DEFINE Inv == TableInv /\ SendInv /\ RecvInv /\ GreetInv
<1>1. Init => Inv
  BY InitTable, InitSend, InitRecv, InitGreet
<1>2. Inv /\ [Next]_vars => Inv'
  BY NextTable, NextSend, NextRecv, NextGreet
<1>3. Inv => NoDataBeforeHandshake
  BY DEF GreetInv
<1> QED
  BY <1>1, <1>2, <1>3, PTL DEF Spec

-----------------------------------------------------------------------------
(* The users of a descriptor, one after the other *)

\* The news that c has ended waits in the queue q, at a step before n.
Queued(q, c, n) == \E i \in 1 .. Len(q) : q[i].conn = c /\ q[i].step < n

\* q_disconnect is in the order of its steps, and the counter is ahead.
StepsGrow ==
    /\ \A i, j \in 1 .. Len(q_disconnect) : i < j => q_disconnect[i].step < q_disconnect[j].step
    /\ \A i \in 1 .. Len(q_disconnect) : q_disconnect[i].step <= s_step
    /\ ioPc = "pushDisconnect" =>
           /\ ioMsg.step = s_step
           /\ \A i \in 1 .. Len(q_disconnect) : q_disconnect[i].step < s_step

\* Every connection that ended was lost, or the news is told or on its way.
EndsAnnounced ==
    \A c \in Conns \ open :
        \/ fdOf[c] \in orphans \/ c \in told \union lost
        \/ Queued(q_disconnect, c, s_step + 1)
        \/ ioPc = "pushDisconnect" /\ ioMsg.conn = c

(***************************************************************************)
(* Of the earlier users of m's descriptor the logic has been told, or the  *)
(* news waits in q at an earlier step than m's; known are the connections  *)
(* told of or lost, and f their descriptors.                               *)
(***************************************************************************)
Behind(m, q, f, known) ==
    \A c \in 1 .. (m.conn - 1) :
        f[c] = f[m.conn] => c \in known \/ Queued(q, c, m.step)

DataBehind ==
    /\ \A i \in 1 .. Len(q_recv_io) :
           Behind(q_recv_io[i], q_disconnect, fdOf, told \union lost)
    /\ ioPc = "pushData" => Behind(ioMsg, q_disconnect, fdOf, told \union lost)

\* handle_io has seen q_disconnect empty after it saw the message.
SeenNone ==
    lgPc = "pop" /\ cg # None /\ gg = None =>
        \A c \in 1 .. (cg.conn - 1) : fdOf[c] = fdOf[cg.conn] => c \in told \union lost

OrderInv == StepsGrow /\ EndsAnnounced /\ DataBehind /\ SeenNone /\ ReusedFdAnnounced
Base == TableInv /\ SendInv /\ RecvInv

\* What every step does: connections stay as they are, news is kept or told.
NewsKept ==
    /\ \A c \in Conns : c \in Conns' /\ fdOf'[c] = fdOf[c]
    /\ told \union lost \subseteq told' \union lost'
    /\ \A c, n : Queued(q_disconnect, c, n) =>
           Queued(q_disconnect', c, n) \/ c \in told' \union lost'

LEMMA EarlierConns ==
    ASSUME RecvInv, TableInv, NEW d \in Conns
    PROVE  \A c \in 1 .. (d - 1) : c \in Conns
BY DEF Conns, TableInv, TableTypes

LEMMA BehindKept ==
    ASSUME RecvInv, TableInv, NewsKept, NEW m, m.conn \in Conns,
           Behind(m, q_disconnect, fdOf, told \union lost)
    PROVE  Behind(m, q_disconnect', fdOf', told' \union lost')
<1> SUFFICES ASSUME NEW c \in 1 .. (m.conn - 1), fdOf'[c] = fdOf'[m.conn]
             PROVE  c \in told' \union lost' \/ Queued(q_disconnect', c, m.step)
  BY DEF Behind
<1>1. c \in Conns
  BY EarlierConns
<1>2. fdOf[c] = fdOf[m.conn]
  BY <1>1 DEF NewsKept
<1>3. c \in told \union lost \/ Queued(q_disconnect, c, m.step)
  BY <1>2 DEF Behind
<1> QED
  BY <1>3 DEF NewsKept

\* The three parts about messages, for a step that only lets time go on.
LEMMA SeenNoneKept ==
    ASSUME RecvInv, TableInv, NewsKept, SeenNone, UNCHANGED <<lgPc, cg, gg>>
    PROVE  SeenNone'
<1> SUFFICES ASSUME lgPc = "pop", cg # None, gg = None,
                    NEW c \in 1 .. (cg.conn - 1), fdOf'[c] = fdOf'[cg.conn]
             PROVE  c \in told' \union lost'
  BY DEF SeenNone
<1>1. cg.conn \in Conns
  BY RecvMsgIsSome DEF RecvInv, RecvTypes
<1>2. c \in Conns
  BY <1>1, EarlierConns
<1> QED
  BY <1>1, <1>2 DEF SeenNone, NewsKept

LEMMA ReusedKept ==
    ASSUME RecvInv, TableInv, NewsKept, ReusedFdAnnounced, lgMsg' = lgMsg
    PROVE  ReusedFdAnnounced'
<1> SUFFICES ASSUME lgMsg.kind = "data",
                    NEW c \in 1 .. (lgMsg.conn - 1), fdOf'[c] = fdOf'[lgMsg.conn]
             PROVE  c \in told' \union lost'
  BY DEF ReusedFdAnnounced
<1>1. lgMsg.conn \in Conns
  BY RecvMsgIsSome DEF RecvInv, RecvTypes
<1>2. c \in Conns
  BY <1>1, EarlierConns
<1> QED
  BY <1>1, <1>2 DEF ReusedFdAnnounced, NewsKept

LEMMA DataBehindKept ==
    ASSUME RecvInv, TableInv, NewsKept, DataBehind, q_recv_io' = q_recv_io,
           ioPc' = "pushData" => ioPc = "pushData" /\ ioMsg' = ioMsg
    PROVE  DataBehind'
<1>1. ASSUME NEW i \in 1 .. Len(q_recv_io)
      PROVE  Behind(q_recv_io[i], q_disconnect', fdOf', told' \union lost')
  <2>1. q_recv_io[i] \in DataOf(Conns)
    BY DEF RecvInv, RecvTypes
  <2>2. q_recv_io[i].conn \in Conns
    BY <2>1, RecvMsgIsSome
  <2> QED
    BY <2>2, BehindKept DEF DataBehind
<1>2. ASSUME ioPc' = "pushData"
      PROVE  Behind(ioMsg', q_disconnect', fdOf', told' \union lost')
  <2>1. ioMsg' = ioMsg /\ ioMsg.conn \in Conns
    BY <1>2, RecvMsgIsSome DEF RecvInv, RecvHeld
  <2>2. Behind(ioMsg, q_disconnect, fdOf, told \union lost)
    BY <1>2 DEF DataBehind
  <2> QED
    BY <2>1, <2>2, BehindKept
<1> QED
  BY <1>1, <1>2 DEF DataBehind

\* A step that touches none of it.
LEMMA OrderKept ==
    ASSUME OrderInv, Base,
           UNCHANGED <<q_recv_io, q_disconnect, fdOf, told, lost, open, orphans, s_step>>,
           UNCHANGED <<lgPc, cg, gg, lgMsg>>,
           \/ UNCHANGED <<ioPc, ioMsg>>
           \/ ioPc # "pushDisconnect" /\ ioPc' \notin {"pushDisconnect", "pushData"}
    PROVE  OrderInv'
<1>1. Conns' = Conns
  BY SameConns
<1>2. NewsKept
  BY <1>1 DEF NewsKept
<1>3. DataBehind' /\ SeenNone' /\ ReusedFdAnnounced'
  BY <1>2, DataBehindKept, SeenNoneKept, ReusedKept DEF OrderInv, Base
<1>4. StepsGrow'
  BY DEF OrderInv, StepsGrow
<1>5. EndsAnnounced'
  BY <1>1 DEF OrderInv, EndsAnnounced
<1> QED
  BY <1>3, <1>4, <1>5 DEF OrderInv

LEMMA InitOrder == Init => OrderInv
<1> SUFFICES ASSUME Init PROVE OrderInv
  OBVIOUS
<1>1. /\ q_recv_io = <<>> /\ q_disconnect = <<>> /\ ioPc = "loop" /\ lgPc = "peek"
      /\ fdOf = <<>> /\ lgMsg = None
  BY DEF Init
<1>2. Conns = {} /\ Len(q_recv_io) = 0 /\ Len(q_disconnect) = 0 /\ lgMsg.kind = "none"
  BY <1>1, RecvMsgIsSome DEF Conns
<1>3. StepsGrow
  BY <1>1, <1>2 DEF StepsGrow
<1>4. EndsAnnounced
  BY <1>2 DEF EndsAnnounced
<1>5. DataBehind /\ SeenNone /\ ReusedFdAnnounced
  BY <1>1, <1>2 DEF DataBehind, SeenNone, ReusedFdAnnounced
<1> QED
  BY <1>3, <1>4, <1>5 DEF OrderInv

LEMMA AcceptKeepsOrder ==
    ASSUME OrderInv, Base, NEW fd \in 0 .. fd_max, Accept(fd)
    PROVE  OrderInv'
<1>1. /\ UNCHANGED <<q_recv_io, q_disconnect, told, lost, s_step, ioPc, ioMsg>>
      /\ UNCHANGED <<lgPc, cg, gg, lgMsg>>
      /\ ioPc = "loop" /\ fdOf' = Append(fdOf, fd)
  BY DEF Accept, recvVars, lgVars, ghosts
<1> DEFINE n == Len(fdOf)
<1>2. /\ n \in Nat /\ Conns = 1 .. n /\ Conns' = 1 .. (n + 1) /\ fdOf'[n + 1] = fd
      /\ \A c \in Conns : fdOf'[c] = fdOf[c]
  BY <1>1, AppendFacts DEF Base, TableInv, TableTypes, Conns
<1>3. NewsKept
  BY <1>1, <1>2 DEF NewsKept
<1>4. DataBehind' /\ SeenNone' /\ ReusedFdAnnounced'
  BY <1>1, <1>3, DataBehindKept, SeenNoneKept, ReusedKept DEF OrderInv, Base
<1>5. StepsGrow'
  BY <1>1 DEF OrderInv, StepsGrow
<1>6. (n + 1 \in open' \/ fd \in orphans') /\ open \subseteq open' /\ orphans \subseteq orphans'
  <2>1. Len(fdOf') = n + 1
    BY <1>1, AppendFacts DEF Base, TableInv, TableTypes
  <2> QED
    BY <2>1 DEF Accept
<1>7. EndsAnnounced'
  <2> SUFFICES ASSUME NEW c \in Conns' \ open'
               PROVE  \/ fdOf'[c] \in orphans' \/ c \in told' \union lost'
                      \/ Queued(q_disconnect', c, s_step' + 1)
                      \/ ioPc' = "pushDisconnect" /\ ioMsg'.conn = c
    BY DEF EndsAnnounced
  <2>1. CASE c = n + 1
    BY <1>2, <1>6, <2>1
  <2>2. CASE c # n + 1
    <3>1. c \in Conns \ open /\ fdOf'[c] = fdOf[c]
      BY <1>2, <1>6, <2>2
    <3> QED
      BY <1>1, <1>6, <3>1 DEF OrderInv, EndsAnnounced
  <2> QED
    BY <2>1, <2>2
<1> QED
  BY <1>4, <1>5, <1>7 DEF OrderInv

LEMMA CloseKeepsOrder ==
    ASSUME OrderInv, Base, NEW fd \in Fds, fd2be[fd] # NoBe, CloseConnect(fd),
           ioPc \in {"loop", "read"}, UNCHANGED lgVars
    PROVE  OrderInv'
<1>1. /\ UNCHANGED <<q_recv_io, q_disconnect, fdOf, told, orphans>>
      /\ UNCHANGED <<lgPc, cg, gg, lgMsg>>
      /\ open' = open \ {fd2be[fd]} /\ lost \subseteq lost' /\ ioPc' # "pushData"
      /\ Conns' = Conns
  BY SameConns DEF CloseConnect, Unregister, lgVars
<1>2. NewsKept
  BY <1>1 DEF NewsKept
<1>3. DataBehind' /\ SeenNone' /\ ReusedFdAnnounced'
  BY <1>1, <1>2, DataBehindKept, SeenNoneKept, ReusedKept DEF OrderInv, Base
<1>4. s_step \in Nat /\ \A i \in 1 .. Len(q_disconnect) : q_disconnect[i].step \in Nat
  <2>1. \A i \in 1 .. Len(q_disconnect) : q_disconnect[i] \in EndOf(Conns)
    BY DEF Base, RecvInv, RecvTypes
  <2> QED
    BY <2>1, RecvMsgIsSome DEF Base, RecvInv, RecvTypes
<1>5. CASE recv_free = 0
  <2>1. lost' = lost \union {fd2be[fd]} /\ ioPc' = "loop" /\ UNCHANGED <<ioMsg, s_step>>
    BY <1>5 DEF CloseConnect
  <2>2. StepsGrow'
    BY <1>1, <2>1 DEF OrderInv, StepsGrow
  <2>3. EndsAnnounced'
    BY <1>1, <2>1 DEF OrderInv, EndsAnnounced
  <2> QED
    BY <1>3, <2>2, <2>3 DEF OrderInv
<1>6. CASE recv_free # 0
  <2>1. /\ s_step' = s_step + 1 /\ lost' = lost /\ ioPc' = "pushDisconnect"
        /\ ioMsg' = [kind |-> "disconnect", conn |-> fd2be[fd], step |-> s_step']
    BY <1>6 DEF CloseConnect
  <2>2. ioMsg'.conn = fd2be[fd] /\ ioMsg'.step = s_step'
    BY <2>1
  <2>3. StepsGrow'
    BY <1>1, <1>4, <2>1, <2>2 DEF OrderInv, StepsGrow
  <2>4. \A c : Queued(q_disconnect, c, s_step + 1) => Queued(q_disconnect, c, s_step' + 1)
    BY <1>4, <2>1 DEF Queued
  <2>5. EndsAnnounced'
    <3> SUFFICES ASSUME NEW c \in Conns \ open', c # fd2be[fd]
                 PROVE  \/ fdOf[c] \in orphans \/ c \in told \union lost
                        \/ Queued(q_disconnect, c, s_step' + 1)
      BY <1>1, <2>1, <2>2 DEF EndsAnnounced
    <3>1. c \in Conns \ open
      BY <1>1
    <3> QED
      BY <2>4, <3>1 DEF OrderInv, EndsAnnounced
  <2> QED
    BY <1>3, <2>3, <2>5 DEF OrderInv
<1> QED
  BY <1>5, <1>6

LEMMA PushEndKeepsOrder == ASSUME OrderInv, Base, PushDisconnect PROVE OrderInv'
<1>1. /\ UNCHANGED <<q_recv_io, fdOf, told, lost, open, orphans, s_step>>
      /\ UNCHANGED <<lgPc, cg, gg, lgMsg>>
      /\ ioPc = "pushDisconnect" /\ ioPc' = "loop" /\ Conns' = Conns
  BY SameConns DEF PushDisconnect, tableVars, lgVars, ghosts
<1>2. ioMsg \in EndOf(Conns) /\ ioMsg.step = s_step
  BY <1>1 DEF Base, RecvInv, RecvHeld, OrderInv, StepsGrow
<1>3. q_disconnect' = Append(q_disconnect, ioMsg)
  BY <1>2, RoomToPush, RecvMsgIsSome DEF PushDisconnect, Base
<1> DEFINE q == q_disconnect'
           n == Len(q_disconnect)
<1>4. /\ n \in Nat /\ Len(q) = n + 1 /\ q[n + 1] = ioMsg /\ s_step \in Nat
      /\ \A i \in 1 .. n : i \in 1 .. Len(q) /\ q[i] = q_disconnect[i]
  BY <1>2, <1>3, AppendFacts DEF Base, RecvInv, RecvTypes
<1> HIDE DEF n
<1>5. \A c, k : Queued(q_disconnect, c, k) => Queued(q, c, k)
  BY <1>4 DEF Queued, n
<1>6. Queued(q, ioMsg.conn, s_step + 1)
  BY <1>2, <1>4 DEF Queued
<1>7. NewsKept
  BY <1>1, <1>5 DEF NewsKept
<1>8. DataBehind' /\ SeenNone' /\ ReusedFdAnnounced'
  BY <1>1, <1>7, DataBehindKept, SeenNoneKept, ReusedKept DEF OrderInv, Base
<1>9. StepsGrow'
  <2>1. \A i \in 1 .. n : q_disconnect[i].step < s_step
    BY <1>1 DEF OrderInv, StepsGrow, n
  <2>2. \A i, j \in 1 .. n : i < j => q_disconnect[i].step < q_disconnect[j].step
    BY DEF OrderInv, StepsGrow, n
  <2>3. \A i \in 1 .. n : q_disconnect[i].step \in Nat
    <3>1. \A i \in 1 .. n : q_disconnect[i] \in EndOf(Conns)
      BY DEF Base, RecvInv, RecvTypes, n
    <3> QED
      BY <3>1, RecvMsgIsSome
  <2>4. ASSUME NEW i \in 1 .. Len(q) PROVE q[i].step <= s_step
    BY <1>2, <1>4, <2>1, <2>3
  <2>5. ASSUME NEW i \in 1 .. Len(q), NEW j \in 1 .. Len(q), i < j
        PROVE  q[i].step < q[j].step
    BY <1>2, <1>4, <2>1, <2>2, <2>5
  <2> QED
    BY <1>1, <2>4, <2>5 DEF StepsGrow
<1>10. EndsAnnounced'
  BY <1>1, <1>5, <1>6 DEF OrderInv, EndsAnnounced
<1> QED
  BY <1>8, <1>9, <1>10 DEF OrderInv

(***************************************************************************)
(* A message is read on the open connection of its descriptor: the earlier *)
(* ones with that descriptor are closed, and their news is told, lost or   *)
(* pushed, for the event loop has none in hand while it reads.             *)
(***************************************************************************)
LEMMA ReadDataKeepsOrder == ASSUME OrderInv, Base, ReadData PROVE OrderInv'
<1>1. /\ UNCHANGED <<q_recv_io, q_disconnect, fdOf, told, lost, open, orphans>>
      /\ UNCHANGED <<lgPc, cg, gg, lgMsg>> /\ ioPc = "read" /\ Conns' = Conns
  BY SameConns DEF ReadData, Take, tableVars, lgVars, ghosts
<1>2. CASE recv_free = 0
  <2>1. ioPc' = "loop" /\ UNCHANGED <<s_step, ioMsg>>
    BY <1>2 DEF ReadData
  <2> QED
    BY <1>1, <2>1, OrderKept
<1>3. CASE recv_free # 0
  <2>1. /\ s_step' = s_step + 1 /\ ioPc' = "pushData"
        /\ ioMsg' = [kind |-> "data", conn |-> fd2be[ioFd], step |-> s_step']
    BY <1>3 DEF ReadData
  <2>2. ioMsg'.conn = fd2be[ioFd] /\ ioMsg'.step = s_step + 1
    BY <2>1
  <2>3. ioFd \in Fds /\ fd2be[ioFd] \in Conns /\ fdOf[fd2be[ioFd]] = ioFd
    BY <1>1 DEF Base, TableInv, ReadsOpen, Reading, OwnDescriptor
  <2>4. s_step \in Nat /\ \A i \in 1 .. Len(q_disconnect) : q_disconnect[i].step \in Nat
    <3>1. \A i \in 1 .. Len(q_disconnect) : q_disconnect[i] \in EndOf(Conns)
      BY DEF Base, RecvInv, RecvTypes
    <3> QED
      BY <3>1, RecvMsgIsSome DEF Base, RecvInv, RecvTypes
  <2>5. NewsKept
    BY <1>1 DEF NewsKept
  <2>6. SeenNone' /\ ReusedFdAnnounced'
    BY <1>1, <2>5, SeenNoneKept, ReusedKept DEF OrderInv, Base
  <2>7. StepsGrow'
    BY <1>1, <2>1, <2>4 DEF OrderInv, StepsGrow
  <2>8. \A c : Queued(q_disconnect, c, s_step + 1) => Queued(q_disconnect, c, s_step' + 1)
    BY <2>1, <2>4 DEF Queued
  <2>9. EndsAnnounced'
    BY <1>1, <2>8 DEF OrderInv, EndsAnnounced
  <2>10. Behind(ioMsg', q_disconnect, fdOf, told \union lost)
    <3> SUFFICES ASSUME NEW c \in 1 .. (fd2be[ioFd] - 1), fdOf[c] = fdOf[fd2be[ioFd]]
                 PROVE  c \in told \union lost \/ Queued(q_disconnect, c, s_step + 1)
      BY <2>2 DEF Behind
    <3>1. c \in Conns /\ c # fd2be[ioFd]
      BY <2>3, EarlierConns DEF Base, Conns
    <3>2. c \notin open
      BY <2>3, <3>1 DEF Base, TableInv, TableOK, OwnDescriptor
    <3>3. fdOf[c] \notin orphans
      BY <2>3 DEF Base, TableInv, OnlyLargeFdsRefused
    <3> QED
      BY <1>1, <3>1, <3>2, <3>3 DEF OrderInv, EndsAnnounced
  <2>11. DataBehind'
    BY <1>1, <2>10 DEF OrderInv, DataBehind
  <2> QED
    BY <2>6, <2>7, <2>9, <2>11 DEF OrderInv
<1> QED
  BY <1>2, <1>3

LEMMA PushDataKeepsOrder == ASSUME OrderInv, Base, PushData PROVE OrderInv'
<1>1. /\ UNCHANGED <<q_disconnect, fdOf, told, lost, open, orphans, s_step>>
      /\ UNCHANGED <<lgPc, cg, gg, lgMsg>>
      /\ ioPc = "pushData" /\ ioPc' = "read" /\ Conns' = Conns
  BY SameConns DEF PushData, tableVars, lgVars, ghosts
<1>2. ioMsg \in DataOf(Conns)
  BY <1>1 DEF Base, RecvInv, RecvHeld
<1>3. q_recv_io' = Append(q_recv_io, ioMsg)
  BY <1>2, RoomToPush, RecvMsgIsSome DEF PushData, Base
<1>4. \A i \in 1 .. Len(q_recv_io') :
          q_recv_io'[i] = ioMsg \/ (i \in 1 .. Len(q_recv_io) /\ q_recv_io'[i] = q_recv_io[i])
  BY <1>2, <1>3, AppendFacts DEF Base, RecvInv, RecvTypes
<1>5. DataBehind'
  BY <1>1, <1>4 DEF OrderInv, DataBehind
<1>6. NewsKept
  BY <1>1 DEF NewsKept
<1>7. SeenNone' /\ ReusedFdAnnounced'
  BY <1>1, <1>6, SeenNoneKept, ReusedKept DEF OrderInv, Base
<1>8. StepsGrow'
  BY <1>1 DEF OrderInv, StepsGrow
<1>9. EndsAnnounced'
  BY <1>1 DEF OrderInv, EndsAnnounced
<1> QED
  BY <1>5, <1>7, <1>8, <1>9 DEF OrderInv

LEMMA FrontNone ==
    ASSUME NEW C, NEW q \in Seq(EndOf(C)), Front(q) = None
    PROVE  q = <<>>
<1>1. q # <<>> => Head(q) \in EndOf(C)
  BY PopFacts
<1> QED
  BY <1>1, RecvMsgIsSome DEF Front

(***************************************************************************)
(* handle_io looks at q_disconnect after q_recv_io: news that was there    *)
(* when it saw the message is there still, or has been told.               *)
(***************************************************************************)
LEMMA PeekKeepsOrder == ASSUME OrderInv, Base, PeekRecv \/ PeekDisconnect PROVE OrderInv'
<1>1. /\ UNCHANGED <<q_recv_io, q_disconnect, fdOf, told, lost, open, orphans, s_step>>
      /\ UNCHANGED <<ioPc, ioMsg, lgMsg>> /\ Conns' = Conns
  BY SameConns DEF PeekRecv, PeekDisconnect, ioVars, recvVars, ghosts
<1>2. NewsKept
  BY <1>1 DEF NewsKept
<1>3. DataBehind' /\ ReusedFdAnnounced'
  BY <1>1, <1>2, DataBehindKept, ReusedKept DEF OrderInv, Base
<1>4. StepsGrow'
  BY <1>1 DEF OrderInv, StepsGrow
<1>5. EndsAnnounced'
  BY <1>1 DEF OrderInv, EndsAnnounced
<1>6. SeenNone'
  <2>1. CASE PeekRecv
    BY <2>1 DEF PeekRecv, SeenNone
  <2>2. CASE PeekDisconnect
    <3>1. cg' = cg /\ gg' = Front(q_disconnect)
      BY <2>2 DEF PeekDisconnect
    <3> SUFFICES ASSUME cg # None, Front(q_disconnect) = None,
                        NEW c \in 1 .. (cg.conn - 1), fdOf[c] = fdOf[cg.conn]
                 PROVE  c \in told \union lost
      BY <1>1, <3>1 DEF SeenNone
    <3>2. q_disconnect = <<>>
      BY FrontNone DEF Base, RecvInv, RecvTypes
    <3>3. 1 \in 1 .. Len(q_recv_io) /\ cg = q_recv_io[1]
      BY PopFacts DEF Base, RecvInv, RecvTypes, Peeked
    <3>4. Behind(cg, q_disconnect, fdOf, told \union lost)
      BY <3>3 DEF OrderInv, DataBehind
    <3> QED
      BY <3>2, <3>4 DEF Behind, Queued
  <2> QED
    BY <2>1, <2>2
<1> QED
  BY <1>3, <1>4, <1>5, <1>6 DEF OrderInv

\* A message is taken only when no news with an earlier step waits.
LEMMA PopDataKeepsOrder ==
    ASSUME OrderInv, Base, PopNext, DataFirst
    PROVE  OrderInv'
<1>1. /\ UNCHANGED <<q_disconnect, fdOf, told, lost, open, orphans, s_step>>
      /\ UNCHANGED <<ioPc, ioMsg>> /\ Conns' = Conns
      /\ lgPc = "pop" /\ lgPc' = "handle" /\ lgMsg' = Head(q_recv_io)
      /\ q_recv_io' = Tail(q_recv_io) /\ cg # None
  BY SameConns DEF PopNext, DataFirst, ioVars
<1>2. q_recv_io # <<>> /\ cg = Head(q_recv_io)
  BY <1>1 DEF Base, RecvInv, Peeked
<1>3. /\ cg \in DataOf(Conns) /\ 1 \in 1 .. Len(q_recv_io) /\ cg = q_recv_io[1]
      /\ \A i \in 1 .. Len(q_recv_io') :
            i + 1 \in 1 .. Len(q_recv_io) /\ q_recv_io'[i] = q_recv_io[i + 1]
  BY <1>1, <1>2, PopFacts DEF Base, RecvInv, RecvTypes
<1>4. DataBehind'
  <2>1. \A i \in 1 .. Len(q_recv_io') :
            Behind(q_recv_io'[i], q_disconnect, fdOf, told \union lost)
    BY <1>3 DEF OrderInv, DataBehind
  <2> QED
    BY <1>1, <2>1 DEF OrderInv, DataBehind
<1>5. StepsGrow' /\ SeenNone'
  BY <1>1 DEF OrderInv, StepsGrow, SeenNone
<1>6. EndsAnnounced'
  BY <1>1 DEF OrderInv, EndsAnnounced
<1>7. Behind(cg, q_disconnect, fdOf, told \union lost)
  BY <1>3 DEF OrderInv, DataBehind
<1>8. ASSUME NEW c \in 1 .. (cg.conn - 1), fdOf[c] = fdOf[cg.conn]
      PROVE  c \in told \union lost
  <2>1. CASE gg = None
    BY <1>1, <1>8, <2>1 DEF OrderInv, SeenNone
  <2>2. CASE gg # None
    <3>1. q_disconnect # <<>> /\ gg = Head(q_disconnect) /\ cg.step < gg.step
      BY <1>1, <2>2 DEF DataFirst, Base, RecvInv, Peeked
    <3>2. /\ Len(q_disconnect) \in Nat \ {0} /\ gg = q_disconnect[1] /\ cg.step \in Nat
          /\ \A i \in 1 .. Len(q_disconnect) : q_disconnect[i] \in EndOf(Conns)
      BY <1>3, <3>1, PopFacts, RecvMsgIsSome DEF Base, RecvInv, RecvTypes
    <3>3. \A i \in 1 .. Len(q_disconnect) : q_disconnect[i].step \in Nat
      BY <3>2, RecvMsgIsSome
    <3>4. \A i \in 1 .. Len(q_disconnect) : gg.step <= q_disconnect[i].step
      <4>1. ASSUME NEW i \in 1 .. Len(q_disconnect)
            PROVE  q_disconnect[1].step <= q_disconnect[i].step
        <5>1. CASE i = 1
          BY <5>1, <3>3
        <5>2. CASE i # 1
          <6>1. 1 \in 1 .. Len(q_disconnect) /\ 1 < i
            BY <3>2, <5>2
          <6>2. q_disconnect[1].step < q_disconnect[i].step
            BY <6>1 DEF OrderInv, StepsGrow
          <6> QED
            BY <3>3, <6>1, <6>2
        <5> QED
          BY <5>1, <5>2
      <4> QED
        BY <3>2, <4>1
    <3>5. ~Queued(q_disconnect, c, cg.step)
      <4>1. gg.step \in Nat
        BY <3>2, <3>3
      <4> QED
        BY <3>1, <3>2, <3>3, <3>4, <4>1 DEF Queued
    <3> QED
      BY <1>7, <1>8, <3>5 DEF Behind
  <2> QED
    BY <2>1, <2>2
<1>9. ReusedFdAnnounced'
  BY <1>1, <1>2, <1>8 DEF ReusedFdAnnounced
<1> QED
  BY <1>4, <1>5, <1>6, <1>9 DEF OrderInv

LEMMA PopEndKeepsOrder ==
    ASSUME OrderInv, Base, PopNext, ~DataFirst
    PROVE  OrderInv'
<1>1. /\ UNCHANGED <<q_recv_io, fdOf, lost, open, orphans, s_step, ioPc, ioMsg>>
      /\ Conns' = Conns /\ lgPc = "pop" /\ lgPc' = "handle"
      /\ lgMsg' = Head(q_disconnect) /\ q_disconnect' = Tail(q_disconnect)
      /\ told' = told \union {lgMsg'.conn}
  BY SameConns DEF PopNext, ioVars
<1>2. q_disconnect # <<>>
  BY <1>1 DEF DataFirst, Base, RecvInv, Peeked
<1> DEFINE q == q_disconnect'
<1>3. /\ lgMsg' \in EndOf(Conns) /\ lgMsg' = q_disconnect[1] /\ Len(q) = Len(q_disconnect) - 1
      /\ Len(q_disconnect) \in Nat \ {0}
      /\ \A i \in 1 .. Len(q) : i + 1 \in 1 .. Len(q_disconnect) /\ q[i] = q_disconnect[i + 1]
  BY <1>1, <1>2, PopFacts DEF Base, RecvInv, RecvTypes
<1>4. ASSUME NEW c, NEW n, Queued(q_disconnect, c, n)
      PROVE  Queued(q, c, n) \/ c \in told'
  <2>1. PICK i \in 1 .. Len(q_disconnect) :
            q_disconnect[i].conn = c /\ q_disconnect[i].step < n
    BY <1>4 DEF Queued
  <2>2. CASE i = 1
    BY <1>1, <1>3, <2>1, <2>2
  <2>3. CASE i # 1
    <3>1. i - 1 \in 1 .. Len(q) /\ q[i - 1] = q_disconnect[i]
      BY <1>3, <2>3
    <3> QED
      BY <2>1, <3>1 DEF Queued
  <2> QED
    BY <2>2, <2>3
<1>5. NewsKept
  BY <1>1, <1>4 DEF NewsKept
<1>6. DataBehind'
  BY <1>1, <1>5, DataBehindKept DEF OrderInv, Base
<1>7. SeenNone'
  BY <1>1 DEF SeenNone
<1>8. ReusedFdAnnounced'
  BY <1>3, RecvMsgIsSome DEF ReusedFdAnnounced
<1>9. StepsGrow'
  <2>1. \A i, j \in 1 .. Len(q) : i < j => q[i].step < q[j].step
    <3> SUFFICES ASSUME NEW i \in 1 .. Len(q), NEW j \in 1 .. Len(q), i < j
                 PROVE  q[i].step < q[j].step
      OBVIOUS
    <3>1. i + 1 \in 1 .. Len(q_disconnect) /\ j + 1 \in 1 .. Len(q_disconnect) /\ i + 1 < j + 1
      BY <1>3
    <3> QED
      BY <1>3, <3>1 DEF OrderInv, StepsGrow
  <2> QED
    BY <1>1, <1>3, <2>1 DEF OrderInv, StepsGrow
<1>10. EndsAnnounced'
  BY <1>1, <1>4 DEF OrderInv, EndsAnnounced
<1> QED
  BY <1>6, <1>7, <1>8, <1>9, <1>10 DEF OrderInv

LEMMA HandledKeepsOrder == ASSUME OrderInv, Base, Handled PROVE OrderInv'
<1>1. /\ UNCHANGED <<q_recv_io, q_disconnect, fdOf, told, lost, open, orphans, s_step>>
      /\ UNCHANGED <<ioPc, ioMsg, cg, gg>> /\ Conns' = Conns
      /\ lgMsg' = None /\ lgPc' = "peek"
  BY SameConns DEF Handled, ioVars, ghosts
<1>2. ReusedFdAnnounced'
  BY <1>1, RecvMsgIsSome DEF ReusedFdAnnounced
<1>3. NewsKept
  BY <1>1 DEF NewsKept
<1>4. DataBehind'
  BY <1>1, <1>3, DataBehindKept DEF OrderInv, Base
<1>5. StepsGrow' /\ SeenNone'
  BY <1>1 DEF OrderInv, StepsGrow, SeenNone
<1>6. EndsAnnounced'
  BY <1>1 DEF OrderInv, EndsAnnounced
<1> QED
  BY <1>2, <1>4, <1>5, <1>6 DEF OrderInv

LEMMA NextOrder == OrderInv /\ Base /\ [Next]_vars => OrderInv'
<1> SUFFICES ASSUME OrderInv, Base, [Next]_vars PROVE OrderInv'
  OBVIOUS
<1> DEFINE Same == /\ UNCHANGED <<q_recv_io, q_disconnect, fdOf, told, lost, open>>
                   /\ UNCHANGED <<orphans, s_step, lgPc, cg, gg, lgMsg>>
<1>1. ASSUME NEW fd \in Fds, NEW f \in Frames, ClientSend(fd, f) PROVE OrderInv'
  <2>1. Same /\ UNCHANGED <<ioPc, ioMsg>>
    BY <1>1 DEF ClientSend, ioVars, recvVars, lgVars, ghosts
  <2> QED
    BY <2>1, OrderKept
<1>2. ASSUME NEW fd \in Fds, Event(fd) PROVE OrderInv'
  BY <1>2, CloseKeepsOrder DEF Event
<1>3. ASSUME NEW fd \in Fds, NEW n \in 1 .. Len(net[fd]), Readable(fd, n) PROVE OrderInv'
  <2>1. Same /\ ioPc = "loop" /\ ioPc' \in {"loop", "read"}
    BY <1>3 DEF Readable, recvVars, lgVars
  <2> QED
    BY <2>1, OrderKept
<1>4. ASSUME NEW fd \in 0 .. fd_max, Accept(fd) PROVE OrderInv'
  BY <1>4, AcceptKeepsOrder
<1>5. CASE ReadBad
  <2>1. ioPc = "read" /\ CloseConnect(ioFd) /\ UNCHANGED lgVars
    BY <1>5 DEF ReadBad, Take
  <2>2. ioFd \in Fds /\ fd2be[ioFd] # NoBe
    BY <2>1 DEF Base, TableInv, ReadsOpen, Reading
  <2> QED
    BY <2>1, <2>2, CloseKeepsOrder
<1>6. CASE ReadDone \/ ReadOther \/ SendPop \/ SendFree
  <2>1. Same
    BY <1>6 DEF ReadDone, ReadOther, SendPop, SendFree, Take, tableVars, recvVars, lgVars, ghosts
  <2>2. /\ ioPc # "pushDisconnect"
        /\ ioPc' \notin {"pushDisconnect", "pushData"}
    BY <1>6 DEF ReadDone, ReadOther, SendPop, SendFree, Take
  <2> QED
    BY <2>1, <2>2, OrderKept
<1>7. CASE PopNext
  BY <1>7, PopDataKeepsOrder, PopEndKeepsOrder
<1>8. CASE (\E d \in Dests : SendAlloc(d)) \/ SendFails \/ SendPush \/ UNCHANGED vars
  <2>1. Same /\ UNCHANGED <<ioPc, ioMsg>>
    BY <1>8 DEF SendAlloc, SendFails, SendPush, vars, ioVars, recvVars, lgVars, ghosts
  <2> QED
    BY <2>1, OrderKept
<1> QED
  BY <1>1, <1>2, <1>3, <1>4, <1>5, <1>6, <1>7, <1>8, PushEndKeepsOrder, ReadDataKeepsOrder,
     PushDataKeepsOrder, PeekKeepsOrder, HandledKeepsOrder DEF Next, IoCallback, HandleIo

(***************************************************************************)
(* When the logic handles a message it has been told of the end of every   *)
(* earlier connection with that descriptor whose news was not lost:        *)
(* comparing the steps of two queues looked at one after the other is      *)
(* enough, whatever the event loop does in between (thread_logic.cpp:175). *)
(***************************************************************************)
THEOREM ReuseIsAnnounced == Spec => []ReusedFdAnnounced
<1>1. Init => Base /\ OrderInv
  BY InitTable, InitSend, InitRecv, InitOrder DEF Base
<1>2. Base /\ OrderInv /\ [Next]_vars => (Base /\ OrderInv)'
  <2>1. Base /\ [Next]_vars => Base'
    BY NextTable, NextSend, NextRecv DEF Base
  <2> QED
    BY <2>1, NextOrder
<1>3. OrderInv => ReusedFdAnnounced
  BY DEF OrderInv
<1> QED
  BY <1>1, <1>2, <1>3, PTL DEF Spec

-----------------------------------------------------------------------------
(***************************************************************************)
(* The rate limit of the messages (PkLimit).                               *)
(***************************************************************************)
LEMMA Remainder ==
    ASSUME NEW a \in Nat, NEW b \in Nat, a < b
    PROVE  a % b = a
OBVIOUS

LEMMA RemainderSelf ==
    ASSUME NEW b \in Nat \ {0}
    PROVE  b % b = 0
OBVIOUS

\* The next count, as a signed char.
LEMMA CharStep ==
    ASSUME NEW x \in Chars
    PROVE  Char(x + 1) = IF x = CharMax THEN CharMin ELSE x + 1
<1> USE PkAssumption
<1> DEFINE w == 2 * (CharMax + 1)
<1>1. w \in Nat \ {0} /\ x + 1 - CharMin \in Nat /\ CharMin \in Int /\ x \in Int
  BY DEF Chars, CharMin
<1>2. CASE x = CharMax
  <2>1. x + 1 - CharMin = w
    BY <1>1, <1>2 DEF CharMin
  <2> QED
    BY <1>1, <1>2, <2>1, RemainderSelf DEF Char
<1>3. CASE x # CharMax
  <2>1. x + 1 - CharMin < w
    BY <1>1, <1>3 DEF Chars, CharMin
  <2>2. (x + 1 - CharMin) % w = x + 1 - CharMin
    BY <1>1, <2>1, Remainder
  <2> QED
    BY <1>1, <1>3, <2>2 DEF Char
<1> QED
  BY <1>2, <1>3

-----------------------------------------------------------------------------
(* What holds in every state *)

PkTypes ==
    /\ second \in Int /\ second <= Start /\ cnt \in Chars /\ last_cnt \in Chars
    /\ clock \in Nat /\ clock >= Start /\ last_time \in Nat /\ cur_time \in Nat
    /\ accepted \in Seq(Nat) /\ since \in 0 .. Len(accepted)
    /\ msgs \in Nat /\ sets \in Nat
    /\ Len(accepted) + (IF ckPc = "idle" THEN 0 ELSE 1) <= msgs
    /\ ckPc \in {"idle", "fixing", "unlimited", "second", "fast", "count"}
    /\ window \in Int /\ wrapped \in BOOLEAN /\ stale \in BOOLEAN
    /\ refusal \in [at : Nat, second : Int, cnt : Int]

\* A set_limit has two stores to make, one, or none.
HalfSet == {<<[field |-> "cnt", to |-> l[2]]>> : l \in Limits}
PendingStores == pending = <<>> \/ pending \in HalfSet \/ \E l \in Limits : pending = Stores(l)

\* The times of the engine are ordered, and before its start there are none.
Times ==
    /\ last_time # 0 => last_time >= Start /\ last_time <= clock
    /\ cur_time # 0 => cur_time >= Start /\ cur_time <= clock /\ last_time <= cur_time
    /\ ckPc # "idle" => cur_time # 0
    /\ last_time = 0 => last_cnt = 0
    /\ ckPc = "fast" => cur_time < last_time + window

Sorted ==
    /\ \A i, j \in 1 .. Len(accepted) : i <= j => accepted[i] <= accepted[j]
    /\ \A i \in 1 .. Len(accepted) :
           accepted[i] <= clock /\ (cur_time # 0 => accepted[i] <= cur_time)

\* Until the first limit is complete cnt is 0, and no check gets past it.
FirstLimit ==
    /\ sets = 0 => pending = <<>>
    /\ sets = 0 \/ (sets = 1 /\ pending # <<>>) =>
           cnt = 0 /\ accepted = <<>> /\ ckPc \in {"idle", "fixing"}

(***************************************************************************)
(* What a check knows of the limit, when no store came between.            *)
(***************************************************************************)
Checking ==
    ~stale =>
        /\ ckPc \in {"unlimited", "second", "fast", "count"} => cnt > 0
        /\ ckPc \in {"second", "fast", "count"} => second > 0
        /\ ckPc = "count" => last_time + second <= cur_time \/ last_cnt < cnt

(***************************************************************************)
(* Messages let through under the present limit: those before the present  *)
(* window are no younger than it, those a window earlier are older by its  *)
(* length.  The window counts at least one message.                        *)
(***************************************************************************)
Counted == last_cnt + Extra

BeforeWindow ==
    \A k \in (since + 1) .. Len(accepted) :
        k + Counted <= Len(accepted) + 1 => accepted[k] <= last_time

WindowBefore ==
    \A k \in (since + 1) .. Len(accepted) :
        k + Counted + cnt <= Len(accepted) + 1 => accepted[k] + second <= last_time

FarApart ==
    \A k, j \in (since + 1) .. Len(accepted) :
        k + Burst <= j => accepted[k] + second <= accepted[j]

Windows ==
    /\ last_time # 0 => Counted >= 1
    /\ second > 0 /\ cnt > 0 =>
           /\ since < Len(accepted) => last_cnt <= cnt
           /\ BeforeWindow /\ WindowBefore /\ FarApart

\* The messages counted in the present window are of that window.
Recent ==
    /\ last_cnt <= Len(accepted)
    /\ last_cnt >= 1 => accepted[Len(accepted) - last_cnt + 1] >= last_time

\* The messages because of which the last refusal was made.
Refused ==
    refusal.at # 0 /\ refusal.cnt >= 1 =>
        \E i \in 1 .. Len(accepted) :
            /\ i + refusal.cnt - 1 <= Len(accepted)
            /\ \A k \in i .. (i + refusal.cnt - 1) :
                   accepted[k] \in (refusal.at - refusal.second + 1) .. refusal.at

PkBase == PkTypes /\ PendingStores /\ Times /\ Sorted
PkInv == PkBase /\ FirstLimit /\ Checking /\ Windows /\ Recent /\ Refused

LEMMA InitPk == PkInit => PkInv
<1> SUFFICES ASSUME PkInit PROVE PkInv
  OBVIOUS
<1> USE PkAssumption DEF PkInit
<1>1. PkTypes
  <2>1. 0 \in Chars
    BY DEF Chars, CharMin
  <2>2. NoRefusal \in [at : Nat, second : Int, cnt : Int]
    BY DEF NoRefusal
  <2>3. accepted = <<>> /\ <<>> \in Seq(Nat) /\ Len(<<>>) = 0
    OBVIOUS
  <2>4. second = 0 /\ clock = Start /\ Start \in Nat
    OBVIOUS
  <2>5. second \in Int /\ second <= Start /\ clock \in Nat /\ clock >= Start
    BY <2>4
  <2>6. since \in 0 .. Len(accepted) /\ Len(accepted) + (IF ckPc = "idle" THEN 0 ELSE 1) <= msgs
    BY <2>3
  <2>7. window \in Int /\ msgs \in Nat /\ sets \in Nat /\ last_time \in Nat /\ cur_time \in Nat
    OBVIOUS
  <2>9. wrapped \in BOOLEAN /\ stale \in BOOLEAN
    OBVIOUS
  <2>8. ckPc = "idle" /\ refusal = NoRefusal /\ cnt = 0 /\ last_cnt = 0 /\ accepted \in Seq(Nat)
    BY <2>3
  <2> HIDE DEF PkInit
  <2> QED
    BY <2>1, <2>2, <2>5, <2>6, <2>7, <2>8, <2>9 DEF PkTypes
<1>2. PendingStores /\ Times /\ Sorted /\ FirstLimit /\ Checking
  BY DEF PendingStores, Times, Sorted, FirstLimit, Checking
<1>3. Windows
  BY DEF Windows
<1>4. Recent /\ Refused
  BY DEF Recent, Refused, NoRefusal
<1> QED
  BY <1>1, <1>2, <1>3, <1>4 DEF PkInv, PkBase

-----------------------------------------------------------------------------
(* Steps that let nothing through *)

\* What has been counted is as it was.
LEMMA CountsStay ==
    ASSUME Windows, Recent, Checking,
           UNCHANGED <<second, cnt, last_cnt, last_time, wrapped, accepted, since>>
    PROVE  Windows' /\ Recent'
<1>1. Counted' = Counted /\ Burst' = Burst
  BY DEF Counted, Burst, Extra
<1>2. Windows'
  BY <1>1 DEF Windows, BeforeWindow, WindowBefore, FarApart
<1>3. Recent'
  BY DEF Recent
<1> QED
  BY <1>2, <1>3

LEMMA TickKeeps == PkInv /\ Tick => PkInv'
<1> SUFFICES ASSUME PkInv, Tick PROVE PkInv'
  OBVIOUS
<1>1. /\ clock' = clock + 1
      /\ UNCHANGED <<second, cnt, pending, sets, last_cnt, last_time, ckPc, window, accepted,
                     msgs, refusal, wrapped, cur_time, since, stale>>
  BY DEF Tick, limitVars, checkVars
<1>2. PkTypes'
  BY <1>1, PkAssumption DEF PkInv, PkBase, PkTypes
<1>3. Sorted'
  BY <1>1 DEF PkInv, PkBase, PkTypes, Sorted
<1>4. PendingStores' /\ Times'
  BY <1>1 DEF PkInv, PkBase, PkTypes, PendingStores, Times
<1>5. FirstLimit' /\ Checking'
  BY <1>1 DEF PkInv, FirstLimit, Checking
<1>6. Refused'
  BY <1>1 DEF PkInv, Refused
<1> QED
  BY <1>1, <1>2, <1>3, <1>4, <1>5, <1>6, CountsStay DEF PkInv, PkBase

LEMMA MessageKeeps == PkInv /\ Message => PkInv'
<1> SUFFICES ASSUME PkInv, Message PROVE PkInv'
  OBVIOUS
<1>1. /\ ckPc = "idle" /\ msgs' = msgs + 1 /\ ckPc' = "fixing" /\ stale' = FALSE
      /\ cur_time' = IF cur_time = 0 THEN clock ELSE cur_time
      /\ UNCHANGED <<second, cnt, pending, sets, last_cnt, last_time, window, accepted,
                     refusal, wrapped, clock, since>>
  BY DEF Message, limitVars
<1>2. PkTypes'
  <2>1. PkTypes
    BY DEF PkInv, PkBase
  <2>2. Len(accepted) \in Nat
    BY <2>1 DEF PkTypes
  <2>3. Len(accepted') + (IF ckPc' = "idle" THEN 0 ELSE 1) <= msgs' /\ msgs' \in Nat
    BY <1>1, <2>1, <2>2 DEF PkTypes
  <2>4. cur_time' \in Nat
    BY <1>1, <2>1 DEF PkTypes
  <2> QED
    BY <1>1, <2>1, <2>3, <2>4 DEF PkTypes
<1>3. Sorted'
  BY <1>1 DEF PkInv, PkBase, PkTypes, Sorted
<1>4. PendingStores' /\ Times'
  BY <1>1, PkAssumption DEF PkInv, PkBase, PkTypes, PendingStores, Times
<1>5. FirstLimit' /\ Checking'
  BY <1>1 DEF PkInv, FirstLimit, Checking
<1>6. Refused'
  BY <1>1 DEF PkInv, Refused
<1> QED
  BY <1>1, <1>2, <1>3, <1>4, <1>5, <1>6, CountsStay DEF PkInv, PkBase

LEMMA EndOfReadKeeps == PkInv /\ EndOfRead => PkInv'
<1> SUFFICES ASSUME PkInv, EndOfRead PROVE PkInv'
  OBVIOUS
<1>1. /\ ckPc = "idle" /\ cur_time' = 0
      /\ UNCHANGED <<second, cnt, pending, sets, last_cnt, last_time, ckPc, window, accepted,
                     msgs, refusal, wrapped, clock, since, stale>>
  BY DEF EndOfRead, limitVars, checkVars
<1>2. PkTypes' /\ Sorted'
  BY <1>1 DEF PkInv, PkBase, PkTypes, Sorted
<1>3. PendingStores' /\ Times'
  BY <1>1 DEF PkInv, PkBase, PkTypes, PendingStores, Times
<1>4. FirstLimit' /\ Checking'
  BY <1>1 DEF PkInv, FirstLimit, Checking
<1>5. Refused'
  BY <1>1 DEF PkInv, Refused
<1> QED
  BY <1>1, <1>2, <1>3, <1>4, <1>5, CountsStay DEF PkInv, PkBase

\* The tests of a check; those that pass lead to the next.
LEMMA TestKeeps ==
    ASSUME PkInv,
           UNCHANGED <<second, cnt, pending, sets, last_cnt, last_time, accepted, msgs,
                       refusal, wrapped, clock, cur_time, since, stale>>,
           ckPc # "idle", window' \in Int,
           ckPc' \in {"idle", "unlimited", "second", "fast", "count"},
           ckPc' # "idle" => cnt > 0 \/ ckPc # "fixing",
           ckPc' = "fast" => cur_time < last_time + window',
           Checking'
    PROVE  PkInv'
<1>1. PkTypes' /\ Sorted'
  BY DEF PkInv, PkBase, PkTypes, Sorted
<1>2. PendingStores' /\ Times'
  BY DEF PkInv, PkBase, PkTypes, PendingStores, Times
<1>3. FirstLimit'
  BY DEF PkInv, PkBase, PkTypes, FirstLimit
<1>4. Refused'
  BY DEF PkInv, Refused
<1> QED
  BY <1>1, <1>2, <1>3, <1>4, CountsStay DEF PkInv, PkBase

LEMMA FixingKeeps == PkInv /\ CheckFixing => PkInv'
<1> SUFFICES ASSUME PkInv, CheckFixing PROVE PkInv'
  OBVIOUS
<1>1. /\ ckPc = "fixing" /\ ckPc' = (IF cnt <= 0 THEN "idle" ELSE "unlimited")
      /\ UNCHANGED <<second, cnt, pending, sets, last_cnt, last_time, window, accepted, msgs,
                     refusal, wrapped, clock, cur_time, since, stale>>
  BY DEF CheckFixing, limitVars
<1>2. cnt \in Int /\ window \in Int
  BY DEF PkInv, PkBase, PkTypes, Chars, CharMin
<1>3. Checking'
  BY <1>1, <1>2 DEF PkInv, Checking
<1> QED
  BY <1>1, <1>2, <1>3, TestKeeps

LEMMA ReadSecondKeeps == PkInv /\ ReadSecond => PkInv'
<1> SUFFICES ASSUME PkInv, ReadSecond PROVE PkInv'
  OBVIOUS
<1>1. /\ ckPc = "second" /\ window' = second
      /\ ckPc' = (IF cur_time < last_time + second THEN "fast" ELSE "count")
      /\ UNCHANGED <<second, cnt, pending, sets, last_cnt, last_time, accepted, msgs,
                     refusal, wrapped, clock, cur_time, since, stale>>
  BY DEF ReadSecond, limitVars
<1>2. second \in Int /\ cur_time \in Nat /\ last_time \in Nat
  BY DEF PkInv, PkBase, PkTypes
<1>3. Checking'
  BY <1>1, <1>2 DEF PkInv, Checking
<1> QED
  BY <1>1, <1>2, <1>3, TestKeeps

LEMMA SetLimitKeeps == ASSUME PkInv, NEW l \in Limits, SetLimit(l) PROVE PkInv'
<1>1. /\ pending = <<>> /\ pending' = Stores(l) /\ sets' = sets + 1
      /\ UNCHANGED <<second, cnt, last_cnt, last_time, ckPc, window, accepted, msgs, refusal,
                     wrapped, clock, cur_time, since, stale>>
  BY DEF SetLimit, checkVars
<1>2. PkTypes' /\ Sorted'
  BY <1>1 DEF PkInv, PkBase, PkTypes, Sorted
<1>3. PendingStores' /\ Times'
  BY <1>1 DEF PkInv, PkBase, PkTypes, PendingStores, Times
<1>4. FirstLimit'
  <2>1. sets \in Nat
    BY DEF PkInv, PkBase, PkTypes
  <2> QED
    BY <1>1, <2>1 DEF PkInv, FirstLimit
<1>5. Refused' /\ Checking'
  BY <1>1 DEF PkInv, Refused, Checking
<1> QED
  BY <1>1, <1>2, <1>3, <1>4, <1>5, CountsStay DEF PkInv, PkBase

\* The count is compared after the test of the time: the limit read then was met.
LEMMA FastKeeps == PkInv /\ CheckFast => PkInv'
<1> SUFFICES ASSUME PkInv, CheckFast PROVE PkInv'
  OBVIOUS
<1>1. /\ ckPc = "fast"
      /\ UNCHANGED <<second, cnt, pending, sets, last_cnt, last_time, window, accepted, msgs,
                     wrapped, clock, cur_time, since, stale>>
  BY DEF CheckFast, limitVars
<1>2. CASE ~TooFast
  <2>1. ckPc' = "count" /\ refusal' = refusal
    BY <1>2 DEF CheckFast
  <2>2. cnt \in Int /\ last_cnt \in Int /\ window \in Int
    BY DEF PkInv, PkBase, PkTypes, Chars, CharMin
  <2>3. Checking'
    BY <1>1, <1>2, <2>1, <2>2 DEF PkInv, Checking, TooFast
  <2> QED
    BY <1>1, <2>1, <2>2, <2>3, TestKeeps
<1>3. CASE TooFast
  <2>1. ckPc' = "idle" /\ refusal' = [at |-> cur_time, second |-> window, cnt |-> cnt]
    BY <1>3 DEF CheckFast
  <2>2. /\ cnt \in Int /\ last_cnt \in Int /\ cnt <= last_cnt /\ window \in Int
        /\ cur_time \in Nat /\ last_time \in Nat
        /\ accepted \in Seq(Nat) /\ Len(accepted) \in Nat
    BY <1>3, PkAssumption DEF PkInv, PkBase, PkTypes, Chars, CharMin, TooFast
  <2>3. PkTypes'
    BY <1>1, <2>1, <2>2 DEF PkInv, PkBase, PkTypes
  <2>4. PendingStores' /\ Times' /\ Sorted' /\ FirstLimit' /\ Checking'
    BY <1>1, <2>1 DEF PkInv, PkBase, PendingStores, Times, Sorted, FirstLimit, Checking
  <2>5. Refused'
    <3> SUFFICES ASSUME cnt >= 1
                 PROVE  \E i \in 1 .. Len(accepted) :
                            /\ i + cnt - 1 <= Len(accepted)
                            /\ \A k \in i .. (i + cnt - 1) :
                                   accepted[k] \in (cur_time - window + 1) .. cur_time
      BY <1>1, <2>1, <2>2 DEF Refused
    <3> DEFINE i == Len(accepted) - last_cnt + 1
    <3>1. last_cnt <= Len(accepted) /\ accepted[i] >= last_time
      BY <2>2 DEF PkInv, Recent
    <3>2. cur_time < last_time + window /\ cur_time # 0
      BY <1>1 DEF PkInv, PkBase, Times
    <3>3. i \in 1 .. Len(accepted) /\ i + cnt - 1 <= Len(accepted)
      BY <2>2, <3>1
    <3>4. ASSUME NEW k \in i .. (i + cnt - 1)
          PROVE  accepted[k] \in (cur_time - window + 1) .. cur_time
      <4>1. k \in 1 .. Len(accepted) /\ i <= k /\ accepted[k] \in Nat /\ accepted[i] \in Nat
        BY <2>2, <3>3, SMTT(30)
      <4>2. accepted[i] <= accepted[k] /\ accepted[k] <= cur_time
        BY <3>2, <3>3, <4>1 DEF PkInv, PkBase, Sorted
      <4>3. ASSUME NEW x \in Nat, NEW y \in Nat, last_time <= x, x <= y, y <= cur_time
            PROVE  y \in (cur_time - window + 1) .. cur_time
        BY <2>2, <3>2, <4>3
      <4>4. last_time <= accepted[i]
        BY <2>2, <3>1, <4>1
      <4> HIDE DEF i
      <4> QED
        BY <4>1, <4>2, <4>3, <4>4
    <3> QED
      BY <3>3, <3>4
  <2> QED
    BY <1>1, <2>3, <2>4, <2>5, CountsStay DEF PkInv, PkBase
<1> QED
  BY <1>2, <1>3

-----------------------------------------------------------------------------
(* A store of set_limit: what was let through counts no more *)

LEMMA StoreKeeps == PkInv /\ Store => PkInv'
<1> SUFFICES ASSUME PkInv, Store PROVE PkInv'
  OBVIOUS
<1>1. /\ pending # <<>> /\ since' = Len(accepted) /\ stale' = TRUE
      /\ UNCHANGED <<sets, last_cnt, last_time, ckPc, window, accepted, msgs, refusal, wrapped,
                     clock, cur_time>>
  BY DEF Store, checkVars
<1>2. \E l \in Limits :
          \/ /\ pending = Stores(l) /\ second' = l[1] /\ cnt' = cnt
             /\ pending' = <<[field |-> "cnt", to |-> l[2]]>>
          \/ /\ pending = <<[field |-> "cnt", to |-> l[2]]>>
             /\ second' = second /\ cnt' = l[2] /\ pending' = <<>>
  <2>1. CASE pending \in HalfSet
    <3>1. PICK l \in Limits : pending = <<[field |-> "cnt", to |-> l[2]]>>
      BY <2>1 DEF HalfSet
    <3>2. Head(pending) = [field |-> "cnt", to |-> l[2]] /\ Tail(pending) = <<>>
      BY <3>1
    <3> QED
      BY <3>1, <3>2 DEF Store
  <2>2. ASSUME NEW l \in Limits, pending = Stores(l)
        PROVE  /\ second' = l[1] /\ cnt' = cnt
               /\ pending' = <<[field |-> "cnt", to |-> l[2]]>>
    <3>1. /\ Head(pending) = [field |-> "second", to |-> l[1]]
          /\ Tail(pending) = <<[field |-> "cnt", to |-> l[2]]>>
      BY <2>2 DEF Stores
    <3> QED
      BY <3>1 DEF Store
  <2> QED
    BY <1>1, <2>1, <2>2 DEF PkInv, PkBase, PendingStores
<1>3. PkTypes'
  <2>1. second' \in Int /\ second' <= Start /\ cnt' \in Chars
    BY <1>2, PkAssumption DEF PkInv, PkBase, PkTypes
  <2>2. since' \in 0 .. Len(accepted')
    BY <1>1 DEF PkInv, PkBase, PkTypes
  <2> QED
    BY <1>1, <2>1, <2>2 DEF PkInv, PkBase, PkTypes
<1>4. PendingStores'
  BY <1>2 DEF PendingStores, HalfSet
<1>5. Times' /\ Sorted' /\ Checking' /\ Refused' /\ Recent'
  BY <1>1 DEF PkInv, PkBase, Times, Sorted, Checking, Refused, Recent
<1>6. FirstLimit'
  BY <1>1, <1>2 DEF PkInv, FirstLimit
<1>7. Windows'
  <2>1. Counted' = Counted /\ since' = Len(accepted') /\ Len(accepted') \in Nat
    BY <1>1 DEF PkInv, PkBase, PkTypes, Counted, Extra
  <2>2. BeforeWindow' /\ WindowBefore' /\ FarApart'
    BY <2>1 DEF BeforeWindow, WindowBefore, FarApart
  <2> QED
    BY <1>1, <2>1, <2>2 DEF PkInv, Windows
<1> QED
  BY <1>3, <1>4, <1>5, <1>6, <1>7 DEF PkInv, PkBase

-----------------------------------------------------------------------------
(* A message let through *)

LEMMA AppendTime ==
    ASSUME NEW q \in Seq(Nat), NEW t \in Nat
    PROVE  /\ Append(q, t) \in Seq(Nat) /\ Len(q) \in Nat /\ Len(Append(q, t)) = Len(q) + 1
           /\ Append(q, t)[Len(q) + 1] = t
           /\ \A i \in 1 .. Len(q) : Append(q, t)[i] = q[i] /\ q[i] \in Nat
OBVIOUS

\* What does not depend on the limit.
LEMMA LetThroughKeeps ==
    ASSUME PkInv, LetThrough, ckPc \in {"unlimited", "count"},
           UNCHANGED <<second, cnt, pending, sets, window, msgs, refusal, clock, cur_time, stale>>,
           last_cnt' \in Chars, wrapped' \in BOOLEAN,
           \/ UNCHANGED <<last_cnt, last_time>>
           \/ last_time' = cur_time
           \/ last_time' = last_time /\ last_time # 0
    PROVE  /\ PkBase' /\ FirstLimit' /\ Checking' /\ Refused'
           /\ Len(accepted') = Len(accepted) + 1 /\ Len(accepted) \in Nat
           /\ accepted'[Len(accepted) + 1] = cur_time
           /\ \A i \in 1 .. Len(accepted) : accepted'[i] = accepted[i] /\ accepted[i] \in Nat
           /\ \A i \in 1 .. Len(accepted) : accepted[i] <= cur_time
           /\ cur_time # 0 /\ last_time <= cur_time
<1> DEFINE n == Len(accepted)
<1>1. accepted \in Seq(Nat) /\ cur_time \in Nat /\ last_time \in Nat /\ cur_time # 0
      /\ last_time <= cur_time /\ clock \in Nat /\ since \in 0 .. n
  BY DEF PkInv, PkBase, PkTypes, Times
<1>2. /\ accepted' \in Seq(Nat) /\ n \in Nat /\ Len(accepted') = n + 1
      /\ accepted'[n + 1] = cur_time
      /\ \A i \in 1 .. n : accepted'[i] = accepted[i] /\ accepted[i] \in Nat
  BY <1>1, AppendTime DEF LetThrough
<1>3. \A i \in 1 .. n : accepted[i] <= cur_time
  BY <1>1 DEF PkInv, PkBase, Sorted
<1>4. ckPc' = "idle" /\ since' = (IF stale THEN n + 1 ELSE since)
  BY <1>2 DEF LetThrough
<1> HIDE DEF n
<1>5. PkTypes'
  <2>1. since' \in 0 .. Len(accepted')
    BY <1>1, <1>2, <1>4
  <2>2. n + 1 <= msgs /\ msgs \in Nat
    BY DEF PkInv, PkBase, PkTypes, n
  <2>3. Len(accepted') + (IF ckPc' = "idle" THEN 0 ELSE 1) <= msgs'
    BY <1>2, <1>4, <2>2
  <2>4. last_time' \in Nat
    BY <1>1
  <2> QED
    BY <1>2, <1>4, <2>1, <2>3, <2>4 DEF PkInv, PkBase, PkTypes
<1>6. PendingStores' /\ Times'
  <2>1. cur_time <= clock /\ cur_time >= Start /\ Start \in Nat
    BY <1>1, PkAssumption DEF PkInv, PkBase, Times
  <2> QED
    BY <1>1, <1>4, <2>1 DEF PkInv, PkBase, PendingStores, Times
<1>7. Sorted'
  <2>1. cur_time <= clock
    BY <1>1 DEF PkInv, PkBase, Times
  <2>2. \A i, j \in 1 .. n : i <= j => accepted[i] <= accepted[j]
    BY DEF PkInv, PkBase, Sorted, n
  <2>3. \A i \in 1 .. (n + 1) : accepted'[i] <= cur_time /\ accepted'[i] \in Nat
    BY <1>1, <1>2, <1>3, SMTT(30)
  <2>4. ASSUME NEW i \in 1 .. (n + 1), NEW j \in 1 .. (n + 1), i <= j
        PROVE  accepted'[i] <= accepted'[j]
    <3>1. CASE j = n + 1
      BY <1>2, <2>3, <3>1
    <3>2. CASE j # n + 1
      BY <1>2, <2>2, <2>4, <3>2
    <3> QED
      BY <3>1, <3>2
  <2>5. ASSUME NEW i \in 1 .. (n + 1)
        PROVE  accepted'[i] <= clock /\ accepted'[i] <= cur_time
    BY <1>1, <2>1, <2>3
  <2> QED
    BY <1>2, <2>4, <2>5 DEF Sorted
<1>8. FirstLimit' /\ Checking'
  BY <1>4 DEF PkInv, FirstLimit, Checking
<1>9. Refused'
  <2> SUFFICES ASSUME refusal.at # 0, refusal.cnt >= 1
               PROVE  \E i \in 1 .. (n + 1) :
                          /\ i + refusal.cnt - 1 <= n + 1
                          /\ \A k \in i .. (i + refusal.cnt - 1) :
                                 accepted'[k] \in (refusal.at - refusal.second + 1) .. refusal.at
    BY <1>2 DEF Refused
  <2>1. PICK i \in 1 .. n :
            /\ i + refusal.cnt - 1 <= n
            /\ \A k \in i .. (i + refusal.cnt - 1) :
                   accepted[k] \in (refusal.at - refusal.second + 1) .. refusal.at
    BY DEF PkInv, Refused, n
  <2>2. refusal.cnt \in Int
    BY DEF PkInv, PkBase, PkTypes
  <2>3. \A k \in i .. (i + refusal.cnt - 1) : accepted'[k] = accepted[k]
    BY <1>2, <2>1, <2>2
  <2>4. i \in 1 .. (n + 1) /\ i + refusal.cnt - 1 <= n + 1
    BY <1>2, <2>1, <2>2
  <2> QED
    BY <2>1, <2>3, <2>4
<1> QED
  BY <1>1, <1>2, <1>3, <1>5, <1>6, <1>7, <1>8, <1>9 DEF PkBase, n

LEMMA UnlimitedKeeps == PkInv /\ CheckUnlimited => PkInv'
<1> SUFFICES ASSUME PkInv, CheckUnlimited PROVE PkInv'
  OBVIOUS
<1> DEFINE n == Len(accepted)
<1>1. /\ ckPc = "unlimited"
      /\ UNCHANGED <<second, cnt, pending, sets, last_cnt, last_time, window, msgs, refusal,
                     wrapped, clock, cur_time, stale>>
  BY DEF CheckUnlimited, limitVars
<1>2. /\ second \in Int /\ window \in Int /\ last_cnt \in Chars /\ wrapped \in BOOLEAN
      /\ last_time \in Nat /\ since \in 0 .. n /\ last_cnt \in Int
  BY DEF PkInv, PkBase, PkTypes, Chars, CharMin
<1>3. CASE ~(second <= 0)
  <2>1. ckPc' = "second" /\ UNCHANGED <<accepted, since>>
    BY <1>3 DEF CheckUnlimited
  <2>2. Checking'
    BY <1>1, <1>2, <1>3, <2>1 DEF PkInv, Checking
  <2> QED
    BY <1>1, <1>2, <2>1, <2>2, TestKeeps
<1>4. CASE second <= 0
  <2>1. LetThrough
    BY <1>4 DEF CheckUnlimited
  <2>2. /\ PkBase' /\ FirstLimit' /\ Checking' /\ Refused'
        /\ Len(accepted') = n + 1 /\ n \in Nat /\ accepted'[n + 1] = cur_time
        /\ \A i \in 1 .. n : accepted'[i] = accepted[i] /\ accepted[i] \in Nat
        /\ cur_time # 0 /\ last_time <= cur_time
    BY <1>1, <1>2, <2>1, LetThroughKeeps
  <2>3. Windows'
    BY <1>1, <1>2, <1>4 DEF PkInv, Windows, Counted, Extra
  <2>4. Recent'
    <3>1. last_cnt <= n /\ (last_cnt >= 1 => accepted[n - last_cnt + 1] >= last_time)
      BY DEF PkInv, Recent
    <3>2. \A i, j \in 1 .. n : i <= j => accepted[i] <= accepted[j]
      BY DEF PkInv, PkBase, Sorted
    <3> HIDE DEF n
    <3>3. ASSUME last_cnt >= 1 PROVE accepted'[n + 1 - last_cnt + 1] >= last_time
      <4>1. CASE last_cnt = 1
        BY <1>2, <2>2, <4>1
      <4>2. CASE last_cnt # 1
        <5> DEFINE i == n - last_cnt + 1
        <5>1. i \in 1 .. n /\ i + 1 \in 1 .. n /\ n + 1 - last_cnt + 1 = i + 1
          BY <1>2, <2>2, <3>1, <3>3, <4>2
        <5>2. accepted'[i + 1] = accepted[i + 1] /\ accepted[i] <= accepted[i + 1]
              /\ accepted[i] \in Nat /\ accepted[i + 1] \in Nat /\ accepted[i] >= last_time
          BY <2>2, <3>1, <3>2, <3>3, <5>1
        <5> HIDE DEF i
        <5> QED
          BY <1>2, <5>1, <5>2
      <4> QED
        BY <4>1, <4>2
    <3> QED
      BY <1>1, <1>2, <2>2, <3>1, <3>3 DEF Recent
  <2> QED
    BY <2>2, <2>3, <2>4 DEF PkInv
<1> QED
  BY <1>3, <1>4

\* The two ways in which a message is counted.
LEMMA CountCases ==
    ASSUME PkInv, Count
    PROVE  /\ ckPc = "count" /\ LetThrough
           /\ UNCHANGED <<second, cnt, pending, sets, window, msgs, refusal, clock, cur_time, stale>>
           /\ \/ /\ last_time + second <= cur_time
                 /\ last_time' = cur_time /\ last_cnt' = 1 /\ wrapped' = wrapped
              \/ /\ ~(last_time + second <= cur_time) /\ last_time # 0 /\ last_time' = last_time
                 /\ \/ last_cnt # CharMax /\ last_cnt' = last_cnt + 1 /\ wrapped' = wrapped
                    \/ last_cnt = CharMax /\ last_cnt' = CharMin /\ wrapped' = TRUE
           /\ last_cnt' \in Chars /\ wrapped' \in BOOLEAN /\ last_cnt \in Int
<1>1. /\ ckPc = "count" /\ LetThrough
      /\ UNCHANGED <<second, cnt, pending, sets, window, msgs, refusal, clock, cur_time, stale>>
  BY DEF Count, limitVars
<1>2. wrapped \in BOOLEAN /\ last_cnt \in Chars /\ CharMax \in Nat \ {0} /\ CharMin = -CharMax - 1
  BY PkAssumption DEF PkInv, PkBase, PkTypes, CharMin
<1>3. last_cnt \in Int /\ CharMin <= last_cnt /\ last_cnt <= CharMax /\ 1 \in Chars /\ CharMin \in Chars
      /\ (last_cnt # CharMax => last_cnt + 1 \in Chars)
  BY <1>2 DEF Chars
<1>4. CASE last_time + second <= cur_time
  <2>1. last_time' = cur_time /\ last_cnt' = 1 /\ wrapped' = wrapped
    BY <1>2, <1>4 DEF Count
  <2> QED
    BY <1>1, <1>2, <1>3, <1>4, <2>1
<1>5. CASE ~(last_time + second <= cur_time)
  <2>1. last_time' = last_time /\ last_cnt' = Char(last_cnt + 1)
        /\ wrapped' = (wrapped \/ last_cnt = CharMax)
    BY <1>5 DEF Count
  <2>2. last_time # 0
    BY <1>1, <1>5, PkAssumption DEF PkInv, PkBase, PkTypes, Times
  <2>3. CASE last_cnt = CharMax
    <3>1. last_cnt' = CharMin
      BY <1>2, <2>1, <2>3, CharStep
    <3>2. wrapped' = TRUE /\ wrapped' \in BOOLEAN
      BY <2>1, <2>3, Zenon
    <3>3. last_cnt' \in Chars
      BY <1>3, <3>1
    <3> QED
      BY <1>1, <1>3, <1>5, <2>1, <2>2, <2>3, <3>1, <3>2, <3>3, Zenon
  <2>4. CASE last_cnt # CharMax
    <3>1. last_cnt' = last_cnt + 1
      BY <1>2, <2>1, <2>4, CharStep
    <3>2. wrapped' = wrapped /\ wrapped' \in BOOLEAN
      BY <2>1, <2>4, <1>2, Zenon
    <3>3. last_cnt' \in Chars
      BY <1>3, <2>4, <3>1
    <3> QED
      BY <1>1, <1>3, <1>5, <2>1, <2>2, <2>4, <3>1, <3>2, <3>3, Zenon
  <2> QED
    BY <2>3, <2>4
<1> QED
  BY <1>4, <1>5

LEMMA CountKeepsRecent == PkInv /\ Count => Recent'
<1> SUFFICES ASSUME PkInv, Count PROVE Recent'
  OBVIOUS
<1> DEFINE n == Len(accepted)
<1>1. /\ ckPc = "count" /\ LetThrough
      /\ UNCHANGED <<second, cnt, pending, sets, window, msgs, refusal, clock, cur_time, stale>>
      /\ \/ last_time' = cur_time /\ last_cnt' = 1
         \/ /\ last_time' = last_time /\ last_time # 0
            /\ last_cnt' = last_cnt + 1 \/ last_cnt' = CharMin
      /\ last_cnt' \in Chars /\ wrapped' \in BOOLEAN /\ last_cnt \in Int
  BY CountCases
<1>2. /\ Len(accepted') = n + 1 /\ n \in Nat /\ accepted'[n + 1] = cur_time
      /\ \A i \in 1 .. n : accepted'[i] = accepted[i] /\ accepted[i] \in Nat
      /\ last_time <= cur_time
  BY <1>1, LetThroughKeeps
<1>3. last_cnt <= n /\ (last_cnt >= 1 => accepted[n - last_cnt + 1] >= last_time)
  BY DEF PkInv, Recent
<1>4. cur_time \in Nat /\ CharMin \in Int /\ CharMin < 0
  BY PkAssumption DEF PkInv, PkBase, PkTypes, CharMin
<1> HIDE DEF n
<1>5. CASE last_time' = cur_time /\ last_cnt' = 1
  BY <1>2, <1>4, <1>5 DEF Recent
<1>6. CASE last_cnt' = CharMin
  BY <1>2, <1>4, <1>6 DEF Recent
<1>7. CASE last_time' = last_time /\ last_cnt' = last_cnt + 1
  <2>1. n + 1 - last_cnt' + 1 = n - last_cnt + 1
    BY <1>1, <1>2, <1>7
  <2>2. CASE last_cnt >= 1
    <3>1. n - last_cnt + 1 \in 1 .. n
      BY <1>1, <1>2, <1>3, <2>2
    <3> QED
      BY <1>1, <1>2, <1>3, <1>7, <2>1, <2>2, <3>1 DEF Recent
  <2>3. CASE last_cnt < 1
    BY <1>1, <1>2, <1>4, <1>7, <2>1, <2>3 DEF Recent
  <2> QED
    BY <1>1, <2>2, <2>3
<1> QED
  BY <1>1, <1>5, <1>6, <1>7

(***************************************************************************)
(* The window: its messages and those of the window before are few.        *)
(***************************************************************************)
LEMMA CountKeepsWindows == PkInv /\ Count => Windows'
<1> SUFFICES ASSUME PkInv, Count PROVE Windows'
  OBVIOUS
<1> DEFINE n == Len(accepted)
<1>1. /\ ckPc = "count" /\ LetThrough
      /\ UNCHANGED <<second, cnt, pending, sets, window, msgs, refusal, clock, cur_time, stale>>
      /\ \/ /\ last_time + second <= cur_time
            /\ last_time' = cur_time /\ last_cnt' = 1 /\ wrapped' = wrapped
         \/ /\ ~(last_time + second <= cur_time) /\ last_time # 0 /\ last_time' = last_time
            /\ \/ last_cnt # CharMax /\ last_cnt' = last_cnt + 1 /\ wrapped' = wrapped
               \/ last_cnt = CharMax /\ last_cnt' = CharMin /\ wrapped' = TRUE
      /\ last_cnt' \in Chars /\ wrapped' \in BOOLEAN /\ last_cnt \in Int
  BY CountCases
<1>2. /\ Len(accepted') = n + 1 /\ n \in Nat /\ accepted'[n + 1] = cur_time
      /\ \A i \in 1 .. n : accepted'[i] = accepted[i] /\ accepted[i] \in Nat
      /\ \A i \in 1 .. n : accepted[i] <= cur_time
      /\ last_time <= cur_time
  BY <1>1, LetThroughKeeps
<1>3. /\ cur_time \in Nat /\ last_time \in Nat /\ second \in Int /\ cnt \in Int /\ cnt <= CharMax
      /\ CharMax \in Nat \ {0} /\ CharMin = -CharMax - 1 /\ since \in 0 .. n
  BY PkAssumption DEF PkInv, PkBase, PkTypes, CharMin, Chars
<1>4. since' = (IF stale THEN n + 1 ELSE since)
  BY <1>1, <1>2 DEF LetThrough
<1>5. Extra \in Nat /\ Extra' \in Nat /\ (wrapped' = wrapped => Extra' = Extra)
      /\ (wrapped' = TRUE => Extra' = CharMax + 2) /\ Extra <= Extra'
  BY <1>1, <1>3 DEF Extra
<1>6. last_time # 0 => Counted >= 1
  BY DEF PkInv, Windows
<1> HIDE DEF n
<1>7. last_time' # 0 => Counted' >= 1
  BY <1>1, <1>3, <1>5, <1>6 DEF Counted
<1>8. CASE stale
  <2>1. BeforeWindow' /\ WindowBefore' /\ FarApart' /\ ~(since' < Len(accepted'))
    BY <1>2, <1>4, <1>8 DEF BeforeWindow, WindowBefore, FarApart
  <2> QED
    BY <1>7, <2>1 DEF Windows
<1>9. CASE ~stale
  <2> SUFFICES ASSUME second > 0, cnt > 0
               PROVE  last_cnt' <= cnt /\ BeforeWindow' /\ WindowBefore' /\ FarApart'
    BY <1>1, <1>7 DEF Windows
  <2>1. last_time + second <= cur_time \/ last_cnt < cnt
    BY <1>1, <1>9 DEF PkInv, Checking
  <2>2. /\ since < n => last_cnt <= cnt
        /\ \A k \in (since + 1) .. n : k + Counted <= n + 1 => accepted[k] <= last_time
        /\ \A k \in (since + 1) .. n : k + Counted + cnt <= n + 1 => accepted[k] + second <= last_time
        /\ \A k, j \in (since + 1) .. n : k + Burst <= j => accepted[k] + second <= accepted[j]
    BY DEF PkInv, Windows, BeforeWindow, WindowBefore, FarApart, n
  <2>3. since' = since
    BY <1>4, <1>9
  <2>4. Burst' = 2 * cnt - 1 + Extra' /\ Burst = 2 * cnt - 1 + Extra
    BY <1>1 DEF Burst
  <2>5. Counted' = last_cnt' + Extra' /\ Counted = last_cnt + Extra
    BY DEF Counted
  <2>6. wrapped' = wrapped /\ Extra' = Extra /\ last_cnt' <= cnt
    BY <1>1, <1>3, <1>5, <2>1
  <2>7. CASE last_time + second <= cur_time /\ last_time' = cur_time /\ last_cnt' = 1
    <3>1. BeforeWindow'
      BY <1>2, <1>3, <2>3, <2>7 DEF BeforeWindow
    <3>2. ASSUME NEW k \in (since + 1) .. (n + 1), k + Counted' + cnt <= n + 2
          PROVE  accepted'[k] + second <= cur_time
      <4>1. k \in (since + 1) .. n /\ since < n
        BY <1>2, <1>3, <1>5, <2>5, <2>6, <2>7, <3>2
      <4>2. k + Counted <= n + 1
        BY <1>1, <1>2, <1>3, <1>5, <2>2, <2>5, <2>6, <2>7, <3>2, <4>1
      <4>3. accepted[k] <= last_time /\ accepted'[k] = accepted[k] /\ accepted[k] \in Nat
        BY <1>2, <1>3, <2>2, <4>1, <4>2
      <4> QED
        BY <1>3, <2>7, <4>3
    <3>3. WindowBefore'
      BY <1>1, <1>2, <2>3, <2>7, <3>2 DEF WindowBefore
    <3>4. ASSUME NEW k \in (since + 1) .. n, k + Burst <= n + 1
          PROVE  accepted[k] + second <= cur_time
      <4>1. k + Counted <= n + 1
        BY <1>1, <1>2, <1>3, <1>5, <2>2, <2>4, <2>5, <3>4
      <4>2. accepted[k] <= last_time /\ accepted[k] \in Nat
        BY <1>2, <1>3, <2>2, <4>1
      <4> QED
        BY <1>3, <2>7, <4>2
    <3>5. FarApart'
      <4> SUFFICES ASSUME NEW k \in (since + 1) .. (n + 1), NEW j \in (since + 1) .. (n + 1),
                          k + Burst <= j
                   PROVE  accepted'[k] + second <= accepted'[j]
        BY <1>1, <1>2, <2>3, <2>4, <2>6 DEF FarApart
      <4>1. k \in (since + 1) .. n
        BY <1>2, <1>3, <1>5, <2>4
      <4>2. CASE j = n + 1
        BY <1>2, <1>3, <3>4, <4>1, <4>2
      <4>3. CASE j # n + 1
        BY <1>2, <1>3, <2>2, <4>1, <4>3
      <4> QED
        BY <4>2, <4>3
    <3> QED
      BY <2>6, <3>1, <3>3, <3>5
  <2>8. CASE /\ ~(last_time + second <= cur_time) /\ last_time # 0 /\ last_time' = last_time
             /\ last_cnt' = last_cnt + 1
    <3>1. ASSUME NEW k \in (since + 1) .. (n + 1), k + Counted' <= n + 2
          PROVE  k \in (since + 1) .. n /\ k + Counted <= n + 1
      BY <1>1, <1>2, <1>3, <1>5, <1>6, <2>5, <2>6, <2>8, <3>1
    <3>2. BeforeWindow'
      BY <1>2, <1>3, <2>2, <2>3, <2>8, <3>1 DEF BeforeWindow
    <3>3. ASSUME NEW k \in (since + 1) .. (n + 1), k + Counted' + cnt <= n + 2
          PROVE  accepted'[k] + second <= last_time
      <4>1. k \in (since + 1) .. n /\ k + Counted + cnt <= n + 1
        BY <1>1, <1>2, <1>3, <1>5, <1>6, <2>5, <2>6, <2>8, <3>3
      <4> QED
        BY <1>2, <1>3, <2>2, <4>1
    <3>4. WindowBefore'
      BY <1>1, <1>2, <2>3, <2>8, <3>3 DEF WindowBefore
    <3>5. ASSUME NEW k \in (since + 1) .. n, k + Burst <= n + 1
          PROVE  accepted[k] + second <= cur_time
      <4>1. k + Counted + cnt <= n + 1
        BY <1>1, <1>2, <1>3, <1>5, <2>1, <2>4, <2>5, <2>8, <3>5
      <4>2. accepted[k] + second <= last_time /\ accepted[k] \in Nat
        BY <1>2, <1>3, <2>2, <4>1
      <4> QED
        BY <1>2, <1>3, <4>2
    <3>6. FarApart'
      <4> SUFFICES ASSUME NEW k \in (since + 1) .. (n + 1), NEW j \in (since + 1) .. (n + 1),
                          k + Burst <= j
                   PROVE  accepted'[k] + second <= accepted'[j]
        BY <1>1, <1>2, <2>3, <2>4, <2>6 DEF FarApart
      <4>1. k \in (since + 1) .. n
        BY <1>2, <1>3, <1>5, <2>4
      <4>2. CASE j = n + 1
        BY <1>2, <1>3, <3>5, <4>1, <4>2
      <4>3. CASE j # n + 1
        BY <1>2, <1>3, <2>2, <4>1, <4>3
      <4> QED
        BY <4>2, <4>3
    <3> QED
      BY <2>6, <3>2, <3>4, <3>6
  <2>9. ~(last_cnt = CharMax /\ ~(last_time + second <= cur_time))
    BY <1>1, <1>3, <2>1
  <2> QED
    BY <1>1, <2>7, <2>8, <2>9
<1> QED
  BY <1>8, <1>9

LEMMA CountingKeeps == PkInv /\ Count => PkInv'
<1> SUFFICES ASSUME PkInv, Count PROVE PkInv'
  OBVIOUS
<1>1. PkBase' /\ FirstLimit' /\ Checking' /\ Refused'
  <2>1. /\ ckPc = "count" /\ LetThrough
        /\ UNCHANGED <<second, cnt, pending, sets, window, msgs, refusal, clock, cur_time, stale>>
        /\ last_cnt' \in Chars /\ wrapped' \in BOOLEAN
        /\ last_time' = cur_time \/ (last_time' = last_time /\ last_time # 0)
    BY CountCases
  <2> QED
    BY <2>1, LetThroughKeeps
<1> QED
  BY <1>1, CountKeepsWindows, CountKeepsRecent DEF PkInv

LEMMA StepPk == PkInv /\ [PkNext]_pkVars => PkInv'
<1> SUFFICES ASSUME PkInv, [PkNext]_pkVars PROVE PkInv'
  OBVIOUS
<1>1. CASE UNCHANGED pkVars
  <2>1. UNCHANGED <<second, cnt, pending, sets, last_cnt, last_time, ckPc, window, accepted,
                    msgs, refusal, wrapped, clock, cur_time, since, stale>>
    BY <1>1 DEF pkVars, limitVars, checkVars
  <2>2. PkBase'
    BY <2>1 DEF PkInv, PkBase, PkTypes, PendingStores, Times, Sorted
  <2>3. FirstLimit' /\ Checking' /\ Refused'
    BY <2>1 DEF PkInv, FirstLimit, Checking, Refused
  <2> QED
    BY <2>1, <2>2, <2>3, CountsStay DEF PkInv
<1>2. CASE \E l \in Limits : SetLimit(l)
  BY <1>2, SetLimitKeeps
<1> QED
  BY <1>1, <1>2, TickKeeps, MessageKeeps, EndOfReadKeeps, FixingKeeps, UnlimitedKeeps,
     ReadSecondKeeps, FastKeeps, CountingKeeps, StoreKeeps DEF PkNext

THEOREM PkAlways == PkSpec => []PkInv
<1> QED
  BY InitPk, StepPk, PTL DEF PkSpec

-----------------------------------------------------------------------------
(* What follows *)

LEMMA SmallestOf ==
    ASSUME NEW S \in SUBSET Nat, S # {}
    PROVE  \E i \in S : \A j \in S : i <= j
<1> DEFINE R == StrictSubsetOrdering(Nat)
           F == FiniteSubsetsOf(Nat)
           T == {0 .. i : i \in S}
<1>1. T \subseteq F
  <2> SUFFICES ASSUME NEW i \in S PROVE 0 .. i \in F
    OBVIOUS
  <2>1. i \in Int /\ 0 .. i \subseteq Nat
    OBVIOUS
  <2>2. IsFiniteSet(0 .. i)
    BY <2>1, FS_Interval
  <2> QED
    BY <2>1, <2>2 DEF FiniteSubsetsOf
<1>2. T # {}
  OBVIOUS
<1>3. IsWellFoundedOn(R, F)
  BY FS_StrictSubsetOrderingWellFounded
<1> HIDE DEF R, F
<1>4. PICK x \in T : \A y \in T : ~(<<y, x>> \in R)
  BY <1>1, <1>2, <1>3, WFMin
<1>5. PICK i \in S : x = 0 .. i
  BY <1>4
<1>6. ASSUME NEW j \in S, j < i PROVE FALSE
  <2>1. /\ 0 .. j \subseteq 0 .. i /\ i \in 0 .. i /\ i \notin 0 .. j
        /\ 0 .. j \subseteq Nat /\ 0 .. i \subseteq Nat
    BY <1>6
  <2>2. <<0 .. j, 0 .. i>> \in R
    BY <2>1 DEF R, StrictSubsetOrdering
  <2>3. 0 .. j \in T
    OBVIOUS
  <2> QED
    BY <1>4, <1>5, <2>2, <2>3
<1> QED
  BY <1>6

\* The messages of an interval are neighbours.
LEMMA Few ==
    ASSUME NEW S, NEW lo \in Int, NEW b \in Nat,
           S \subseteq lo .. (lo + b - 1)
    PROVE  IsFiniteSet(S) /\ Cardinality(S) <= b
<1>1. IsFiniteSet(lo .. (lo + b - 1)) /\ Cardinality(lo .. (lo + b - 1)) = b
  BY FS_Interval
<1> QED
  BY <1>1, FS_Subset

LEMMA Many ==
    ASSUME NEW n \in Nat, NEW S \in SUBSET (1 .. n), NEW lo \in Int, NEW b \in Nat,
           lo .. (lo + b - 1) \subseteq S
    PROVE  Cardinality(S) >= b
<1>1. IsFiniteSet(1 .. n)
  BY FS_Interval
<1>2. IsFiniteSet(S) /\ Cardinality(S) \in Nat
  BY <1>1, FS_Subset, FS_CardinalityType
<1>3. Cardinality(lo .. (lo + b - 1)) = b
  BY FS_Interval
<1>4. Cardinality(lo .. (lo + b - 1)) <= Cardinality(S)
  BY <1>2, FS_Subset
<1> QED
  BY <1>2, <1>3, <1>4

(***************************************************************************)
(* Whatever the limits and the times at which they are set, an interval of *)
(* the length second sees at most 2 * cnt - 1 messages, or as many more as *)
(* a count that wrapped allows; and nothing passes before the first limit  *)
(* is complete (pk_limit.h:19-42, :59-60).                                 *)
(***************************************************************************)
THEOREM RateLimited == PkSpec => []LimitKept
<1>1. ASSUME PkInv PROVE LimitKept
  <2>1. PkTypeOK
    <3>1. /\ last_time \in {0} \union Start .. clock /\ cur_time \in {0} \union Start .. clock
          /\ Len(accepted) \in Nat /\ Len(accepted) <= msgs
      BY <1>1, PkAssumption DEF PkInv, PkBase, PkTypes, Times
    <3>2. Len(pending) <= 2
      <4>1. \A a, b : Len(<<a, b>>) = 2 /\ Len(<<a>>) = 1
        OBVIOUS
      <4>2. \A l : Len(Stores(l)) = 2
        BY <4>1 DEF Stores
      <4>3. \A p \in HalfSet : Len(p) = 1
        BY <4>1 DEF HalfSet
      <4>4. pending = <<>> \/ pending \in HalfSet \/ \E l \in Limits : pending = Stores(l)
        BY <1>1 DEF PkInv, PkBase, PendingStores
      <4>5. Len(pending) \in 0 .. 2
        <5>1. CASE pending = <<>>
          BY <5>1
        <5>2. CASE pending \in HalfSet
          BY <4>3, <5>2
        <5>3. CASE \E l \in Limits : pending = Stores(l)
          BY <4>2, <5>3
        <5> QED
          BY <4>4, <5>1, <5>2, <5>3
      <4>6. \A m \in 0 .. 2 : m <= 2
        OBVIOUS
      <4> QED
        BY <4>5, <4>6, Zenon
    <3> QED
      BY <1>1, <3>1, <3>2 DEF PkInv, PkBase, PkTypes, PkTypeOK
  <2>2. RateBounded
    <3> SUFFICES ASSUME second > 0, cnt > 0, NEW k \in (since + 1) .. Len(accepted)
                 PROVE  Cardinality(Within(since + 1, accepted[k], second)) <= Burst
      BY DEF RateBounded
    <3>1. /\ accepted \in Seq(Nat) /\ Len(accepted) \in Nat /\ since \in Nat /\ second \in Int
          /\ Burst \in Nat
      BY <1>1, PkAssumption DEF PkInv, PkBase, PkTypes, Chars, CharMin, Burst, Extra
    <3> DEFINE S == Within(since + 1, accepted[k], second)
    <3>2. CASE S = {}
      <4>1. Cardinality(S) = 0
        BY <3>2, FS_EmptySet
      <4> HIDE DEF S
      <4>2. Cardinality(S) <= Burst
        BY <3>1, <4>1
      <4> QED
        BY <4>2 DEF S
    <3>3. CASE S # {}
      <4>1. S \in SUBSET Nat
        BY <3>1 DEF Within
      <4>2. PICK i \in S : \A j \in S : i <= j
        BY <3>3, <4>1, SmallestOf
      <4>3. ASSUME NEW j \in S PROVE j \in i .. (i + Burst - 1)
        <5>1. /\ i \in (since + 1) .. Len(accepted) /\ j \in (since + 1) .. Len(accepted)
              /\ accepted[i] \in Nat /\ accepted[j] \in Nat /\ accepted[k] \in Nat
              /\ accepted[k] <= accepted[i] /\ accepted[j] <= accepted[k] + second - 1
              /\ i <= j
          BY <3>1, <4>2 DEF Within
        <5>2. ~(accepted[i] + second <= accepted[j])
          <6>1. ASSUME NEW a \in Nat, NEW b \in Nat, NEW c \in Nat,
                       a <= b, c <= a + second - 1
                PROVE  ~(b + second <= c)
            BY <3>1, <6>1
          <6> QED
            BY <5>1, <6>1
        <5>3. ~(i + Burst <= j)
          BY <1>1, <5>1, <5>2 DEF PkInv, Windows, FarApart
        <5> QED
          BY <3>1, <5>1, <5>3
      <4>4. S \subseteq i .. (i + Burst - 1) /\ i \in Int
        BY <4>1, <4>2, <4>3
      <4> HIDE DEF S
      <4>5. Cardinality(S) <= Burst
        BY <3>1, <4>4, Few
      <4> QED
        BY <4>5 DEF S
    <3> QED
      BY <3>2, <3>3
  <2>3. NothingBeforeFirstLimit
    BY <1>1 DEF PkInv, FirstLimit, NothingBeforeFirstLimit
  <2> QED
    BY <2>1, <2>2, <2>3 DEF LimitKept
<1> QED
  BY <1>1, PkAlways, PTL

(***************************************************************************)
(* Whatever is set in the middle of a check, a refusal has its reason in   *)
(* the last interval (pk_limit.h:32).                                      *)
(***************************************************************************)
THEOREM RefusalsJustified == PkSpec => []RefusedOnlyAfterBurst
<1>1. ASSUME PkInv PROVE RefusedOnlyAfterBurst
  <2> SUFFICES ASSUME refusal.at # 0
               PROVE  Cardinality(Within(1, refusal.at - refusal.second + 1, refusal.second))
                          >= refusal.cnt
    BY DEF RefusedOnlyAfterBurst
  <2> DEFINE n == Len(accepted)
             S == Within(1, refusal.at - refusal.second + 1, refusal.second)
  <2>1. /\ n \in Nat /\ refusal.cnt \in Int /\ refusal.at \in Nat /\ refusal.second \in Int
    BY <1>1 DEF PkInv, PkBase, PkTypes
  <2>2. S \in SUBSET (1 .. n)
    BY DEF Within
  <2>3. CASE refusal.cnt >= 1
    <3>1. PICK i \in 1 .. n :
              /\ i + refusal.cnt - 1 <= n
              /\ \A k \in i .. (i + refusal.cnt - 1) :
                     accepted[k] \in (refusal.at - refusal.second + 1) .. refusal.at
      BY <1>1, <2>3 DEF PkInv, Refused
    <3>2. refusal.at - refusal.second + 1 + refusal.second - 1 = refusal.at
      BY <2>1
    <3>3. i .. (i + refusal.cnt - 1) \subseteq S
      <4>1. S = {k \in 1 .. n : accepted[k] \in (refusal.at - refusal.second + 1) .. refusal.at}
        BY <3>2 DEF Within
      <4>2. i .. (i + refusal.cnt - 1) \subseteq 1 .. n
        <5> HIDE DEF n, S
        <5> QED
          BY <2>1, <3>1
      <4> HIDE DEF n, S
      <4> QED
        BY <3>1, <4>1, <4>2
    <3> HIDE DEF S, n
    <3>4. i \in Int /\ refusal.cnt \in Nat
      BY <2>1, <2>3
    <3>5. Cardinality(S) >= refusal.cnt
      <4> DEFINE c == refusal.cnt
      <4>1. c \in Nat /\ i .. (i + c - 1) \subseteq S
        BY <3>3, <3>4
      <4> HIDE DEF c
      <4>2. Cardinality(S) >= c
        BY <2>1, <2>2, <3>4, <4>1, Many
      <4> QED
        BY <4>2 DEF c
    <3> QED
      BY <3>5 DEF S
  <2>4. CASE ~(refusal.cnt >= 1)
    <3> HIDE DEF S, n
    <3>1. IsFiniteSet(S) /\ Cardinality(S) \in Nat
      <4>1. IsFiniteSet(1 .. n)
        BY <2>1, FS_Interval
      <4> QED
        BY <2>2, <4>1, FS_Subset, FS_CardinalityType
    <3>2. Cardinality(S) >= refusal.cnt
      BY <2>1, <2>4, <3>1
    <3> QED
      BY <3>2 DEF S
  <2> QED
    BY <2>3, <2>4
<1> QED
  BY <1>1, PkAlways, PTL
=============================================================================
