-------------------------- MODULE InnerWireProofs --------------------------
(***************************************************************************)
(* The link of a normal server.  First its blocks: whatever the sizes, the *)
(* two threads that share msg_inner_pool lose at most one.  Then, for any  *)
(* number of requests and messages, what the world receives on each        *)
(* connection, and where a connection that stays goes although address and *)
(* flags are stored one by one.                                            *)
(***************************************************************************)
EXTENDS InnerLink, TLAPS

InnerMsgs == [kind : {"data", "down"}, conn : Nat]

BlocksType ==
    /\ pool \in Nat
    /\ q_inner_recv \in Seq(InnerMsgs)
    /\ q_inner_send \in Seq(Nat)
    /\ msg_send \in Nat /\ nsends \in Nat
    /\ beNormal \in Nat /\ nconns \in Nat
    /\ ioMsg \in InnerMsgs \union {None}
    /\ lgMsg \in InnerMsgs \union {None}

\* Where the inner thread holds a message of q_inner_recv.
HoldsMsg == ioMsg # None <=> ioPc \in {"closePush", "badPush", "readPush"}

(***************************************************************************)
(* The loss itself makes the rings large enough: the count is inductive    *)
(* as soon as it is known where the inner thread holds a block.            *)
(***************************************************************************)
BlocksInv == BlocksType /\ HoldsMsg /\ AtMostOneBlockLost

\* A message is never mistaken for the absence of one.
LEMMA MsgIsSome == \A m \in InnerMsgs : m # None
BY DEF InnerMsgs, None

\* At the start every block is free.
LEMMA InitBlocks == Init => BlocksInv
BY InnerAssumption DEF Init, BlocksInv, BlocksType, HoldsMsg,
   AtMostOneBlockLost

(***************************************************************************)
(* What a push leaves in a ring: the message or, when the ring is full,    *)
(* nothing new.                                                            *)
(***************************************************************************)
LEMMA PushedLen ==
    ASSUME NEW S, NEW q \in Seq(S), NEW m \in S
    PROVE  /\ Pushed(q, m) \in Seq(S)
           /\ Len(Pushed(q, m)) = IF Len(q) < cap - 1 THEN Len(q) + 1 ELSE Len(q)
BY DEF Pushed, RingSlots

\* Every step of either thread keeps the count.
LEMMA StepBlocks == BlocksInv /\ [Next]_vars => BlocksInv'
<1> SUFFICES ASSUME BlocksInv, [Next]_vars PROVE BlocksInv'
  OBVIOUS
<1> USE InnerAssumption, MsgIsSome DEF BlocksInv, BlocksType, HoldsMsg, AtMostOneBlockLost
<1>0. pool \in Nat /\ Len(q_inner_recv) \in Nat /\ Len(q_inner_send) \in Nat
  OBVIOUS
<1>1. ASSUME NEW f \in Frames, WorldSend(f) PROVE BlocksInv'
  BY <1>1 DEF WorldSend, queueVars, lgVars, history
<1>2. CASE Tick
  BY <1>2 DEF Tick, Goto, linkVars, queueVars, lgVars, counters, history
<1>3. CASE Connected
  BY <1>3 DEF Connected, queueVars, lgVars, counters, history
<1>4. CASE Down
  BY <1>4 DEF Down, Goto, queueVars, lgVars, counters, history
<1>5. ASSUME NEW n \in 1 .. MaxFrames, Readable(n) PROVE BlocksInv'
  BY <1>5 DEF Readable, Goto, queueVars, lgVars, counters, history
<1>6. CASE ForceClose
  BY <1>6 DEF ForceClose, queueVars, lgVars, counters, history
<1>7. CASE CloseAlloc
  <2>1. [kind |-> "down", conn |-> beNormal] \in InnerMsgs
    BY DEF InnerMsgs
  <2>2. ioMsg = None
    BY <1>7 DEF CloseAlloc
  <2>3. CASE pool = 0
    BY <1>7, <2>3 DEF CloseAlloc, linkVars, queueVars, lgVars, counters
  <2>4. CASE pool # 0
    BY SMTT(30), <1>7, <2>1, <2>2, <2>4 DEF CloseAlloc, linkVars, queueVars, lgVars,
       counters
  <2> QED
    BY <2>3, <2>4
<1>8. CASE ClosePush \/ ReadPush
  <2>1. ioMsg \in InnerMsgs
    BY <1>8 DEF ClosePush, ReadPush
  <2>2. /\ q_inner_recv' \in Seq(InnerMsgs)
        /\ Len(q_inner_recv') = IF Len(q_inner_recv) < cap - 1
                                THEN Len(q_inner_recv) + 1 ELSE Len(q_inner_recv)
    BY <1>8, PushedLen DEF ClosePush, ReadPush
  <2>3. /\ ioMsg' = None /\ ioPc' \in {"loop", "reset", "read"} /\ ioPc # "sendFree"
        /\ UNCHANGED <<pool, q_inner_send, lgMsg, msg_send, nsends, beNormal, nconns>>
    BY <1>8 DEF ClosePush, ReadPush, linkVars, lgVars, counters, history
  <2>4. BlocksType' /\ HoldsMsg'
    BY <2>2, <2>3
  <2>5. ioMsg # None
    BY <2>1
  <2>6. AtMostOneBlockLost'
    <3> HIDE MsgIsSome DEF BlocksType, HoldsMsg
    <3>1. CASE Len(q_inner_recv) < cap - 1
      BY <1>0, <2>2, <2>3, <2>5, <3>1
    <3>2. CASE ~(Len(q_inner_recv) < cap - 1)
      <4>1. Len(q_inner_recv') = Len(q_inner_recv)
        BY <2>2, <3>2
      <4> QED
        BY <1>0, <2>3, <4>1, <3>2
    <3> QED
      BY <3>1, <3>2
  <2> QED
    BY <2>4, <2>6
<1>9. CASE Reset
  BY <1>9 DEF Reset, Goto, queueVars, lgVars, counters, history
<1>10. CASE ReadNeedConnect
  BY <1>10 DEF ReadNeedConnect, Goto, linkVars, queueVars, lgVars, counters,
     history
<1>11. CASE Connect
  BY <1>11 DEF Connect, queueVars, lgVars, counters
<1>12. CASE DialPending \/ DialNoSocket \/ DialFails
  <2>1. /\ ioPc \notin {"sendFree", "closePush", "badPush", "readPush"}
        /\ ioPc' = "loop"
        /\ UNCHANGED <<pool, queueVars, lgVars, nsends, nconns, ioMsg>>
    BY <1>12 DEF DialPending, DialNoSocket, DialFails, Dialled, counters
  <2>2. beNormal' \in Nat
    BY <1>12 DEF DialPending, DialNoSocket, DialFails
  <2> QED
    BY <2>1, <2>2 DEF queueVars, lgVars
<1>13. CASE ReadBad
  BY <1>13 DEF ReadBad, Goto, queueVars, lgVars, counters, history
<1>14. CASE ReadFrame
  <2>1. [kind |-> "data", conn |-> beNormal] \in InnerMsgs
    BY DEF InnerMsgs
  <2>2. ioMsg = None
    BY <1>14 DEF ReadFrame
  <2>3. CASE pool = 0
    BY <1>14, <2>3 DEF ReadFrame, queueVars, lgVars, counters, history
  <2>4. CASE pool # 0
    <3>1. /\ pool' = pool - 1 /\ ioMsg' \in InnerMsgs
          /\ ioPc # "sendFree" /\ ioPc' = "readPush"
          /\ UNCHANGED <<queueVars, lgVars, nsends, nconns, beNormal>>
      BY <1>14, <2>1, <2>4 DEF ReadFrame, counters, history
    <3> QED
      BY SMTT(30), <2>2, <2>4, <3>1 DEF queueVars, lgVars
  <2> QED
    BY <2>3, <2>4
<1>15. CASE ReadDone
  BY <1>15 DEF ReadDone, Goto, linkVars, queueVars, lgVars, counters, history
<1>16. CASE SendPop
  <2>1. CASE q_inner_send = <<>>
    BY <1>16, <2>1 DEF SendPop, linkVars, lgVars, counters, history
  <2>2. CASE q_inner_send # <<>>
    <3>1. q_inner_send' \in Seq(Nat) /\ Len(q_inner_send') = Len(q_inner_send) - 1
      <4>1. q_inner_send' = Tail(q_inner_send)
        BY <1>16 DEF SendPop
      <4> QED
        BY <2>2, <4>1
    <3>2. /\ ioPc = "send" /\ ioPc' = "sendFree"
          /\ UNCHANGED <<pool, q_inner_recv, lgVars, nsends, nconns, beNormal, ioMsg>>
      BY <1>16, <2>2 DEF SendPop, linkVars, counters, history
    <3>3. BlocksType' /\ HoldsMsg'
      BY <3>1, <3>2 DEF lgVars
    <3>4. AtMostOneBlockLost'
      BY <3>1, <3>2 DEF lgVars
    <3> QED
      BY <3>3, <3>4
  <2> QED
    BY <2>1, <2>2
<1>17. CASE SendFree
  BY <1>17 DEF SendFree, linkVars, queueVars, lgVars, counters, history
<1>18. CASE UseFreed
  BY <1>18 DEF UseFreed, Goto, linkVars, queueVars, lgVars, counters, history
<1>19. CASE SetConnect
  BY <1>19 DEF SetConnect, linkVars, queueVars, lgVars, history
<1>20. CASE Store
  BY <1>20 DEF Store, linkVars, queueVars, lgVars, counters, history
<1>21. CASE CloseConnect
  BY <1>21 DEF CloseConnect, linkVars, queueVars, lgVars, history
<1>22. CASE WriteBegin
  BY <1>22 DEF WriteBegin, linkVars, queueVars, history
<1>23. CASE WriteEnd
  <2>1. /\ q_inner_send' \in Seq(Nat)
        /\ Len(q_inner_send') = IF Len(q_inner_send) < cap - 1
                                THEN Len(q_inner_send) + 1 ELSE Len(q_inner_send)
    BY <1>23, PushedLen DEF WriteEnd
  <2>2. /\ msg_send # 0 /\ msg_send' = 0
        /\ UNCHANGED <<pool, q_inner_recv, lgMsg, nsends, nconns, beNormal, ioMsg, ioPc>>
    BY <1>23 DEF WriteEnd, linkVars, counters, history
  <2>3. BlocksType' /\ HoldsMsg'
    BY <2>1, <2>2
  <2>4. AtMostOneBlockLost'
    <3> HIDE MsgIsSome DEF BlocksType, HoldsMsg
    <3>1. CASE Len(q_inner_send) < cap - 1
      BY <1>0, <2>1, <2>2, <3>1
    <3>2. CASE ~(Len(q_inner_send) < cap - 1)
      <4>1. Len(q_inner_send') = Len(q_inner_send)
        BY <2>1, <3>2
      <4> QED
        BY <1>0, <2>2, <4>1, <3>2
    <3> QED
      BY <3>1, <3>2
  <2> QED
    BY <2>3, <2>4
<1>24. CASE HandlePop
  <2>1. /\ q_inner_recv' \in Seq(InnerMsgs)
        /\ Len(q_inner_recv') = Len(q_inner_recv) - 1
        /\ lgMsg' \in InnerMsgs
    BY <1>24 DEF HandlePop
  <2>2. /\ lgMsg = None
        /\ UNCHANGED <<pool, q_inner_send, msg_send, nsends, nconns, beNormal, ioMsg, ioPc>>
    BY <1>24 DEF HandlePop, linkVars, counters
  <2>3. BlocksType' /\ HoldsMsg'
    BY <2>1, <2>2
  <2>4. lgMsg' # None
    BY <2>1
  <2>5. AtMostOneBlockLost'
    <3> HIDE MsgIsSome DEF BlocksType, HoldsMsg
    <3> QED
      BY <1>0, <2>1, <2>2, <2>4
  <2> QED
    BY <2>3, <2>5
<1>25. CASE HandleFree
  BY SMTT(30), <1>25 DEF HandleFree, linkVars, queueVars, counters, history
<1>26. CASE UNCHANGED vars
  BY <1>26 DEF vars, linkVars, queueVars, lgVars, counters, history
<1> QED
  BY <1>1, <1>2, <1>3, <1>4, <1>5, <1>6, <1>7, <1>8, <1>9, <1>10, <1>11,
     <1>12, <1>13, <1>14, <1>15, <1>16, <1>17, <1>18, <1>19, <1>20, <1>21,
     <1>22, <1>23, <1>24, <1>25, <1>26 DEF Next, Callback, HandleInner

(***************************************************************************)
(* Whatever the size of the pool and the load, the ignored results of push *)
(* cost at most one block (global.h:176, thread_inner.h:91 and :163,       *)
(* msg_inner_parse.h:508).                                                 *)
(***************************************************************************)
THEOREM BlockLossBounded == Spec => []AtMostOneBlockLost
<1>1. BlocksInv => AtMostOneBlockLost
  BY DEF BlocksInv
<1> QED
  BY InitBlocks, StepBlocks, <1>1, PTL DEF Spec

\* The connection and the flags.
LinkTypes ==
    /\ nasks \in 0 .. MaxAsks /\ nconns \in 0 .. MaxAsks
    /\ beNormal \in 0 .. nconns /\ connect_state \in 0 .. 2
    /\ net \in Seq(Frames) /\ input \in Seq(Frames)
    /\ live \subseteq 1 .. nconns /\ up \subseteq 1 .. nconns
    /\ needConnect \in BOOLEAN /\ forceClose \in BOOLEAN
    /\ si \in Addrs \X Addrs /\ lgStore \in 0 .. 4
    /\ target \in [1 .. MaxAsks -> Addrs \X Addrs]
    /\ ioPc \in {"loop", "disconnect", "closeAlloc", "closePush", "reset",
                 "need", "connect", "dial", "read", "readPush", "badAlloc",
                 "badPush", "send", "sendFree", "crashed"}

\* Messages of the world and news of the link, waiting or in hand.
RecvTypes ==
    /\ ioMsg \in Msgs \union {None} /\ lgMsg \in Msgs \union {None}
    /\ q_inner_recv \in Seq(Msgs)
    /\ lost \subseteq 1 .. MaxAsks /\ told \subseteq 1 .. MaxAsks

\* Messages of the logic, being written, waiting or on the wire.
SendTypes ==
    /\ nsends \in 0 .. MaxSends /\ msg_send \in 0 .. MaxSends
    /\ q_inner_send \in Seq(1 .. MaxSends)
    /\ wire \in [1 .. MaxAsks -> Seq(Nat)]

(***************************************************************************)
(* Where the event loop is, and what it then knows of the connection.      *)
(***************************************************************************)
Places ==
    /\ beNormal \in {0, nconns}
    /\ connect_state # 0 => beNormal # 0
    /\ ioPc = "connect" => needConnect
    /\ ioPc = "dial" => connect_state = 0 /\ beNormal # 0
    /\ ioPc \in {"send", "sendFree"} => connect_state = 2
    /\ ioPc \in {"closeAlloc", "closePush", "badAlloc", "badPush", "read", "readPush"}
           => beNormal # 0

\* Each connection costs a request.
ConnectsPaid ==
    nconns + (IF needConnect THEN 1 ELSE 0) + (IF lgStore # 0 THEN 1 ELSE 0) <= nasks

(***************************************************************************)
(* A connection that goes elsewhere meets its forceClose: set_connect      *)
(* stores it after the address and before needConnect.                     *)
(***************************************************************************)
Astray ==
    beNormal \in live /\ connect_state # 0 /\ target[beNormal] # <<nasks, nasks>>

Addressed ==
    /\ lgStore # 1 => si[1] = nasks
    /\ lgStore \notin {1, 2} => si[2] = nasks
    /\ lgStore \in {0, 4} /\ Astray => forceClose

(***************************************************************************)
(* Messages are numbered as they are begun; what is on the wire is older   *)
(* than what waits, and that is older than what is being written.          *)
(***************************************************************************)
Waits ==
    /\ msg_send # 0 => msg_send = nsends
    /\ \A i \in 1 .. Len(q_inner_send) :
        q_inner_send[i] + (IF msg_send # 0 THEN 1 ELSE 0) <= nsends
    /\ \A i, j \in 1 .. Len(q_inner_send) : i < j => q_inner_send[i] < q_inner_send[j]

OnWire ==
    \A c \in 1 .. MaxAsks :
        /\ c > nconns => wire[c] = <<>>
        /\ wire[c] # <<>> => wire[c][1] = Hello
        /\ \A i \in 2 .. Len(wire[c]) :
            /\ wire[c][i] # 0
            /\ wire[c][i] + (IF msg_send # 0 THEN 1 ELSE 0) <= nsends
            /\ \A j \in 1 .. Len(q_inner_send) : wire[c][i] < q_inner_send[j]

\* The hello is written as the connection is established.
Greeted == beNormal # 0 => (connect_state = 2 <=> wire[beNormal] # <<>>)

LinkInv == LinkTypes /\ Places /\ ConnectsPaid
WireInv == SendTypes /\ Waits /\ OnWire /\ Greeted /\ HelloThenInOrder

-----------------------------------------------------------------------------
(* The connection *)

LEMMA InitLink == Init => LinkInv /\ Addressed
<1> SUFFICES ASSUME Init PROVE LinkInv /\ Addressed
  OBVIOUS
<1> USE InnerAssumption DEF Init
<1>1. /\ si \in Addrs \X Addrs
      /\ target \in [1 .. MaxAsks -> Addrs \X Addrs]
  BY DEF Addrs, NoAddr
<1>2. needConnect \in BOOLEAN /\ forceClose \in BOOLEAN
  BY Zenon
<1>3. LinkTypes
  BY <1>1, <1>2 DEF LinkTypes
<1>4. Places /\ ConnectsPaid
  BY DEF Places, ConnectsPaid
<1>5. Addressed
  BY DEF Addressed, Astray, NoAddr
<1> QED
  BY <1>3, <1>4, <1>5 DEF LinkInv

\* What the logic does to address and flags.
LEMMA FlagStep ==
    LinkInv /\ (SetConnect \/ Store \/ CloseConnect) => LinkInv'
<1> SUFFICES ASSUME LinkInv, SetConnect \/ Store \/ CloseConnect PROVE LinkInv'
  OBVIOUS
<1> USE InnerAssumption DEF LinkInv
<1>1. CASE SetConnect
  BY <1>1 DEF SetConnect, LinkTypes, Places, ConnectsPaid, linkVars, history
<1>2. CASE Store
  <2>1. /\ si' \in Addrs \X Addrs /\ lgStore' \in 0 .. 4
        /\ needConnect' \in BOOLEAN /\ forceClose' \in BOOLEAN
    BY <1>2 DEF Store, Stores, LinkTypes, Addrs
  <2>3. needConnect => needConnect'
    BY <1>2 DEF Store
  <2>4. lgStore # 4 => needConnect' = needConnect
    BY <1>2 DEF Store, Stores, LinkTypes
  <2>5. lgStore # 0 /\ (lgStore = 4 => lgStore' = 0) /\ lgStore' <= 4
    BY <1>2 DEF Store, Stores, LinkTypes
  <2> QED
    BY <1>2, <2>1, <2>3, <2>4, <2>5 DEF Store, LinkTypes, Places, ConnectsPaid, linkVars,
       history, counters
<1>3. CASE CloseConnect
  BY <1>3 DEF CloseConnect, LinkTypes, Places, ConnectsPaid, linkVars, history
<1> QED
  BY <1>1, <1>2, <1>3

\* What the logic does to messages leaves the connection alone.
LEMMA MsgStep ==
    LinkInv /\ (WriteBegin \/ WriteEnd \/ HandleInner) => LinkInv'
<1> SUFFICES ASSUME LinkInv, WriteBegin \/ WriteEnd \/ HandleInner PROVE LinkInv'
  OBVIOUS
<1>1. UNCHANGED <<linkVars, flagVars, ioPc, nasks, nconns, target>>
  BY DEF WriteBegin, WriteEnd, HandleInner, HandlePop, HandleFree, history, counters
<1> QED
  BY <1>1 DEF LinkInv, LinkTypes, Places, ConnectsPaid, linkVars, flagVars

\* A part of a sequence, and two sequences joined.
LEMMA PartTypes ==
    ASSUME NEW S, NEW q \in Seq(S), NEW n \in 1 .. Len(q)
    PROVE  SubSeq(q, 1, n) \in Seq(S) /\ SubSeq(q, n + 1, Len(q)) \in Seq(S)
OBVIOUS

LEMMA JoinTypes ==
    ASSUME NEW S, NEW q \in Seq(S), NEW r \in Seq(S)
    PROVE  q \o r \in Seq(S)
OBVIOUS

\* Input, and frames from the world.
LEMMA InputStep ==
    LinkInv /\ (\/ \E f \in Frames : WorldSend(f)
                \/ \E n \in 1 .. MaxFrames : Readable(n)
                \/ ReadBad \/ ReadFrame \/ ReadPush \/ ReadDone) => LinkInv'
<1> SUFFICES ASSUME LinkInv, \/ \E f \in Frames : WorldSend(f)
                             \/ \E n \in 1 .. MaxFrames : Readable(n)
                             \/ ReadBad \/ ReadFrame \/ ReadPush \/ ReadDone
             PROVE  LinkInv'
  OBVIOUS
<1> USE DEF LinkInv, LinkTypes, Places, ConnectsPaid
<1>1. ASSUME NEW f \in Frames, WorldSend(f) PROVE LinkInv'
  BY <1>1 DEF WorldSend, flagVars, history
<1>2. ASSUME NEW n \in 1 .. MaxFrames, Readable(n) PROVE LinkInv'
  <2>1. net' \in Seq(Frames) /\ input' \in Seq(Frames)
    <3>1. /\ n \in 1 .. Len(net) /\ net \in Seq(Frames) /\ input \in Seq(Frames)
          /\ input' = input \o SubSeq(net, 1, n) /\ net' = SubSeq(net, n + 1, Len(net))
      BY <1>2 DEF Readable
    <3>2. SubSeq(net, 1, n) \in Seq(Frames) /\ SubSeq(net, n + 1, Len(net)) \in Seq(Frames)
      BY <3>1, PartTypes
    <3> QED
      BY <3>1, <3>2, JoinTypes
  <2>2. /\ ioPc' = "read" /\ beNormal # 0
        /\ UNCHANGED <<beNormal, connect_state, live, up, flagVars, nasks, nconns, target>>
    BY <1>2 DEF Readable, Goto, history, counters
  <2> QED
    BY <2>1, <2>2 DEF flagVars
<1>3. CASE ReadBad
  BY <1>3 DEF ReadBad, Free, Goto, flagVars, history, counters
<1>4. CASE ReadFrame
  <2>1. /\ input' \in Seq(Frames) /\ ioPc = "read" /\ ioPc' \in {"loop", "readPush"}
        /\ UNCHANGED <<beNormal, connect_state, net, live, up, flagVars, nasks, nconns, target>>
    BY <1>4 DEF ReadFrame, history, counters
  <2> QED
    BY <2>1 DEF flagVars
<1>5. CASE ReadPush
  BY <1>5 DEF ReadPush, linkVars, flagVars, history, counters
<1>6. CASE ReadDone
  BY <1>6 DEF ReadDone, Goto, linkVars, flagVars, history, counters
<1> QED
  BY <1>1, <1>2, <1>3, <1>4, <1>5, <1>6

\* The timer, up to the dial.
LEMMA TimerStep ==
    LinkInv /\ (Tick \/ ForceClose \/ Reset \/ ReadNeedConnect \/ Connect \/ UseFreed) => LinkInv'
<1> SUFFICES ASSUME LinkInv, Tick \/ ForceClose \/ Reset \/ ReadNeedConnect
                             \/ Connect \/ UseFreed
             PROVE  LinkInv'
  OBVIOUS
<1> USE InnerAssumption DEF LinkInv, LinkTypes, Places, ConnectsPaid
<1>1. CASE Tick
  BY <1>1 DEF Tick, Goto, linkVars, flagVars, history, counters
<1>2. CASE ForceClose
  <2>1. /\ live' \subseteq live /\ net' \in Seq(Frames) /\ input' \in Seq(Frames)
        /\ ioPc' \in {"loop", "reset", "closeAlloc"} /\ (ioPc' = "closeAlloc" => beNormal # 0)
        /\ UNCHANGED <<beNormal, connect_state, up, si, needConnect, lgStore,
                       nasks, nconns, target>>
    BY <1>2 DEF ForceClose, Free, history, counters
  <2>2. forceClose' \in BOOLEAN
    BY Zenon, <1>2 DEF ForceClose
  <2> QED
    BY <2>1, <2>2
<1>3. CASE Reset
  BY <1>3 DEF Reset, Goto, flagVars, history, counters
<1>4. CASE ReadNeedConnect
  BY <1>4 DEF ReadNeedConnect, Goto, linkVars, flagVars, history, counters
<1>5. CASE Connect
  <2>1. CASE connect_state # 0
    <3>1. /\ ioPc' = "loop"
          /\ UNCHANGED <<beNormal, connect_state, live, net, input, up, flagVars, nasks, nconns, target>>
      BY <1>5, <2>1 DEF Connect, counters, flagVars
    <3> QED
      BY <3>1 DEF flagVars
  <2>2. CASE connect_state = 0 /\ beNormal # 0
    <3>1. /\ ioPc' = "dial" /\ needConnect' = FALSE
          /\ UNCHANGED <<beNormal, connect_state, live, net, input, up, si, forceClose,
                         lgStore, nasks, nconns, target>>
      BY <1>5, <2>2 DEF Connect, counters
    <3>2. needConnect' \in BOOLEAN /\ ~needConnect'
      BY Zenon, <3>1
    <3>3. LinkTypes'
      BY <3>1, <3>2
    <3>4. Places'
      BY <2>2, <3>1, <3>2
    <3>5. ConnectsPaid'
      BY <3>1, <3>2
    <3> QED
      BY <3>3, <3>4, <3>5
  <2>3. CASE connect_state = 0 /\ beNormal = 0
    <3>1. /\ nconns' = nconns + 1 /\ beNormal' = nconns' /\ live' = live \union {nconns'}
          /\ needConnect' = FALSE /\ needConnect /\ ioPc' = "dial"
          /\ UNCHANGED <<connect_state, net, input, up, si, forceClose, lgStore,
                         nasks, target>>
      BY <1>5, <2>3 DEF Connect, counters
    <3>2. nconns + 1 <= nasks
      BY <3>1
    <3>3. needConnect' \in BOOLEAN /\ ~needConnect'
      BY Zenon, <3>1
    <3>4. LinkTypes'
      BY <3>1, <3>2, <3>3
    <3>5. Places'
      BY <2>3, <3>1, <3>2, <3>3
    <3>6. ConnectsPaid'
      BY <3>1, <3>2, <3>3
    <3> QED
      BY <3>4, <3>5, <3>6
  <2> QED
    BY <2>1, <2>2, <2>3
<1>6. CASE UseFreed
  BY <1>6 DEF UseFreed, Goto, linkVars, flagVars, history, counters
<1> QED
  BY <1>1, <1>2, <1>3, <1>4, <1>5, <1>6

\* The outcomes of a dial and of a connection, and the news of its end.
LEMMA ConnectionStep ==
    LinkInv
      /\ (\/ DialPending \/ DialNoSocket \/ DialFails \/ Connected \/ Down
          \/ CloseAlloc \/ ClosePush \/ SendPop \/ SendFree) => LinkInv'
<1> SUFFICES ASSUME LinkInv,
                    \/ DialPending \/ DialNoSocket \/ DialFails \/ Connected
                    \/ Down \/ CloseAlloc \/ ClosePush \/ SendPop \/ SendFree
             PROVE  LinkInv'
  OBVIOUS
<1> USE DEF LinkInv, LinkTypes, Places, ConnectsPaid
<1>1. CASE DialPending \/ DialNoSocket \/ DialFails
  <2>1. /\ ioPc = "dial" /\ ioPc' = "loop" /\ target' = [target EXCEPT ![beNormal] = si]
        /\ UNCHANGED <<flagVars, nasks, nconns, net, input, up>>
    BY <1>1 DEF DialPending, DialNoSocket, DialFails, Dialled, counters
  <2>2. target' \in [1 .. MaxAsks -> Addrs \X Addrs]
    BY <2>1
  <2>3. /\ beNormal' \in {0, beNormal} /\ live' \subseteq live
        /\ connect_state' \in 0 .. 2 /\ (connect_state' # 0 => beNormal' # 0)
    BY <1>1 DEF DialPending, DialNoSocket, DialFails, Dialled
  <2> QED
    BY <2>1, <2>2, <2>3 DEF flagVars
<1>2. CASE Connected
  BY <1>2 DEF Connected, flagVars, history, counters
<1>3. CASE Down
  BY <1>3 DEF Down, Free, Goto, flagVars, history, counters
<1>4. CASE CloseAlloc
  <2>1. /\ UNCHANGED <<linkVars, flagVars, nasks, nconns, target>>
        /\ beNormal # 0 /\ ioPc' \in {"loop", "reset", "badPush", "closePush"}
    BY <1>4 DEF CloseAlloc, counters
  <2> QED
    BY <2>1 DEF linkVars, flagVars
<1>5. CASE ClosePush
  <2>1. /\ UNCHANGED <<linkVars, flagVars, nasks, nconns, target>>
        /\ ioPc' \in {"loop", "reset"}
    BY <1>5 DEF ClosePush, counters
  <2> QED
    BY <2>1 DEF linkVars, flagVars
<1>6. CASE SendPop
  BY <1>6 DEF SendPop, linkVars, flagVars, history, counters
<1>7. CASE SendFree
  BY <1>7 DEF SendFree, linkVars, flagVars, history, counters
<1> QED
  BY <1>1, <1>2, <1>3, <1>4, <1>5, <1>6, <1>7

LEMMA StepLink == LinkInv /\ [Next]_vars => LinkInv'
<1>1. LinkInv /\ UNCHANGED vars => LinkInv'
  BY DEF vars, linkVars, flagVars, counters, history, LinkInv, LinkTypes,
     Places, ConnectsPaid
<1> QED
  BY <1>1, FlagStep, MsgStep, InputStep, TimerStep, ConnectionStep
     DEF Next, Callback

(***************************************************************************)
(* Only the stores of set_connect and a dial decide where a connection     *)
(* goes; every other step leaves address, target and request alone, and    *)
(* only ForceClose clears a request, with the connection.                  *)
(***************************************************************************)
LEMMA StepAddressed == LinkInv /\ Addressed /\ [Next]_vars => Addressed'
<1> SUFFICES ASSUME LinkInv, Addressed, [Next]_vars PROVE Addressed'
  OBVIOUS
<1> USE DEF LinkInv, LinkTypes, Places
<1>1. CASE SetConnect
  BY <1>1 DEF SetConnect, Addressed, linkVars
<1>2. CASE Store
  <2>1. UNCHANGED <<beNormal, live, connect_state, target, nasks>>
    BY <1>2 DEF Store, linkVars, counters, history
  <2>2. /\ lgStore \in 1 .. 4 /\ lgStore' = IF lgStore = 4 THEN 0 ELSE lgStore + 1
        /\ si'[1] = IF lgStore = 1 THEN nasks ELSE si[1]
        /\ si'[2] = IF lgStore = 2 THEN nasks ELSE si[2]
    <3>1. si = <<si[1], si[2]>> /\ lgStore \in 1 .. 4
      BY <1>2 DEF Store
    <3>5. Len(Stores) = 4
      BY DEF Stores
    <3>6. lgStore' = IF lgStore = 4 THEN 0 ELSE lgStore + 1
      BY <1>2, <3>1, <3>5 DEF Store
    <3>2. CASE lgStore = 1
      <4>1. si' = <<IF lgStore = 1 THEN nasks ELSE si[1], IF lgStore = 2 THEN nasks ELSE si[2]>>
        BY <1>2, <3>1, <3>2 DEF Store, Stores
      <4> QED
        BY <3>1, <3>6, <4>1
    <3>3. CASE lgStore = 2
      <4>1. si' = <<IF lgStore = 1 THEN nasks ELSE si[1], IF lgStore = 2 THEN nasks ELSE si[2]>>
        BY <1>2, <3>1, <3>3 DEF Store, Stores
      <4> QED
        BY <3>1, <3>6, <4>1
    <3>4. CASE lgStore \in {3, 4}
      <4>1. si' = <<IF lgStore = 1 THEN nasks ELSE si[1], IF lgStore = 2 THEN nasks ELSE si[2]>>
        BY <1>2, <3>1, <3>4 DEF Store, Stores
      <4> QED
        BY <3>1, <3>6, <4>1
    <3> QED
      BY <3>1, <3>2, <3>3, <3>4, <3>6
  <2>3. lgStore = 3 \/ forceClose => forceClose'
    <3>1. Stores[3] = "forceClose"
      BY DEF Stores
    <3> QED
      BY Zenon, <1>2, <3>1 DEF Store
  <2>4. Astray' <=> Astray
    BY <2>1 DEF Astray
  <2> QED
    BY <2>1, <2>2, <2>3, <2>4 DEF Addressed
<1>3. CASE DialPending \/ DialNoSocket \/ DialFails
  <2>1. /\ ioPc = "dial" /\ target' = [target EXCEPT ![beNormal] = si]
        /\ UNCHANGED <<si, forceClose, lgStore, nasks>>
        /\ beNormal' \in {0, beNormal} /\ live' \subseteq live
    BY <1>3 DEF DialPending, DialNoSocket, DialFails, Dialled, flagVars, counters
  <2>2. beNormal \in 1 .. MaxAsks
    BY <2>1
  <2>3. target'[beNormal] = si
    BY <2>1, <2>2
  <2>4. lgStore \in {0, 4} => si = <<nasks, nasks>>
    BY DEF Addressed
  <2>5. ~Astray' \/ lgStore \notin {0, 4}
    BY <2>1, <2>3, <2>4 DEF Astray
  <2> QED
    BY <2>1, <2>5 DEF Addressed
<1>4. CASE ForceClose
  BY <1>4 DEF ForceClose, Free, Addressed, Astray, counters, history
<1>5. CASE Reset
  BY <1>5 DEF Reset, Goto, Addressed, Astray, flagVars, counters, history
<1>6. CASE Connect
  <2>1. UNCHANGED <<connect_state, target, nasks, si, forceClose, lgStore>>
    BY <1>6 DEF Connect, counters
  <2>2. connect_state # 0 => UNCHANGED <<beNormal, live>>
    BY <1>6 DEF Connect
  <2> QED
    BY <2>1, <2>2 DEF Addressed, Astray
<1>7. CASE CloseConnect
  BY <1>7 DEF CloseConnect, Addressed, Astray, linkVars, history
<1>8. CASE Connected
  BY <1>8 DEF Connected, Addressed, Astray, flagVars, counters, history
<1>9. ASSUME UNCHANGED <<beNormal, connect_state, target, nasks, si, forceClose, lgStore>>,
             live' \subseteq live
      PROVE  Addressed'
  BY <1>9 DEF Addressed, Astray
<1>10. CASE Down \/ ReadBad
  BY <1>9, <1>10 DEF Down, ReadBad, Free, Goto, flagVars, counters, history
<1>11. CASE CloseAlloc \/ ClosePush \/ ReadFrame \/ ReadPush \/ SendPop \/ SendFree
  BY <1>9, <1>11 DEF CloseAlloc, ClosePush, ReadFrame, ReadPush, SendPop,
     SendFree, linkVars, flagVars, counters, history
<1>12. CASE Tick \/ ReadNeedConnect \/ ReadDone \/ UseFreed
  BY <1>9, <1>12 DEF Tick, ReadNeedConnect, ReadDone, UseFreed, Goto,
     linkVars, flagVars, counters, history
<1>13. CASE WriteBegin \/ WriteEnd \/ HandleInner
  BY <1>9, <1>13 DEF WriteBegin, WriteEnd, HandleInner, HandlePop, HandleFree,
     linkVars, flagVars, counters, history
<1>14. ASSUME NEW f \in Frames, WorldSend(f) PROVE Addressed'
  BY <1>9, <1>14 DEF WorldSend, flagVars, history
<1>15. ASSUME NEW n \in 1 .. MaxFrames, Readable(n) PROVE Addressed'
  BY <1>9, <1>15 DEF Readable, Goto, flagVars, counters, history
<1>16. CASE UNCHANGED vars
  BY <1>9, <1>16 DEF vars, linkVars, flagVars, counters, history
<1> QED
  BY <1>1, <1>2, <1>3, <1>4, <1>5, <1>6, <1>7, <1>8, <1>10, <1>11, <1>12,
     <1>13, <1>14, <1>15, <1>16 DEF Next, Callback

(***************************************************************************)
(* Although the event loop may dial a half written address, a connection   *)
(* that stays goes to the address that was set last: set_connect stores    *)
(* the flag that closes it after the address (thread_inner.h:203-214).     *)
(***************************************************************************)
THEOREM SettlesRight == Spec => []SettledOnLastAddress
<1>1. Addressed => SettledOnLastAddress
  BY DEF Addressed, Astray, SettledOnLastAddress
<1> QED
  BY InitLink, StepLink, StepAddressed, <1>1, PTL DEF Spec

-----------------------------------------------------------------------------
(* What comes from the world *)

LEMMA MsgInMsgs == \A m \in Msgs : m # None /\ m.conn \in 1 .. MaxAsks
BY DEF Msgs, None

LEMMA StepRecv ==
    LinkInv /\ HoldsMsg /\ RecvTypes /\ [Next]_vars => RecvTypes'
<1> SUFFICES ASSUME LinkInv, HoldsMsg, RecvTypes, [Next]_vars PROVE RecvTypes'
  OBVIOUS
<1> USE InnerAssumption DEF RecvTypes
<1>1. ASSUME UNCHANGED <<ioMsg, lgMsg, q_inner_recv, lost, told>> PROVE RecvTypes'
  BY <1>1
<1>2. CASE SetConnect \/ Store \/ CloseConnect \/ WriteBegin \/ WriteEnd
  BY <1>1, <1>2 DEF SetConnect, Store, CloseConnect, WriteBegin, WriteEnd,
     queueVars, lgVars, history
<1>3. CASE \/ Tick \/ ReadNeedConnect \/ ReadDone \/ UseFreed \/ Down \/ ReadBad \/ Reset
  BY <1>1, <1>3 DEF Tick, ReadNeedConnect, ReadDone, UseFreed, Down, ReadBad,
     Reset, Goto, queueVars, lgVars, history
<1>4. CASE ForceClose \/ Connect \/ Connected \/ SendPop \/ SendFree
  BY <1>1, <1>4 DEF ForceClose, Connect, Connected, SendPop, SendFree,
     queueVars, lgVars, history
<1>5. CASE DialPending \/ DialNoSocket \/ DialFails
  BY <1>1, <1>5 DEF DialPending, DialNoSocket, DialFails, Dialled, queueVars, lgVars
<1>6. ASSUME NEW f \in Frames, WorldSend(f) PROVE RecvTypes'
  BY <1>1, <1>6 DEF WorldSend, queueVars, lgVars, history
<1>7. ASSUME NEW n \in 1 .. MaxFrames, Readable(n) PROVE RecvTypes'
  BY <1>1, <1>7 DEF Readable, Goto, queueVars, lgVars, history
<1>8. CASE CloseAlloc
  <2>1. beNormal \in 1 .. MaxAsks
    BY <1>8 DEF CloseAlloc, LinkInv, LinkTypes, Places
  <2>2. [kind |-> "down", conn |-> beNormal] \in Msgs
    BY <2>1 DEF Msgs
  <2> QED
    BY <1>8, <2>1, <2>2 DEF CloseAlloc, queueVars, lgVars
<1>9. CASE ReadFrame
  <2>1. beNormal \in 1 .. MaxAsks
    BY <1>9 DEF ReadFrame, LinkInv, LinkTypes, Places
  <2>2. [kind |-> "data", conn |-> beNormal] \in Msgs
    BY <2>1 DEF Msgs
  <2> QED
    BY <1>9, <2>2 DEF ReadFrame, queueVars, lgVars, history
<1>10. CASE ClosePush \/ ReadPush
  <2>1. ioMsg \in Msgs
    BY <1>10 DEF ClosePush, ReadPush, HoldsMsg
  <2>2. /\ q_inner_recv' \in Seq(Msgs) /\ ioMsg' = None
        /\ UNCHANGED <<lgMsg, told>>
    BY <1>10, <2>1, PushedLen DEF ClosePush, ReadPush, lgVars, history
  <2>3. lost' = lost \/ lost' = lost \union {ioMsg.conn}
    BY <1>10 DEF ClosePush, ReadPush, history
  <2>4. ioMsg.conn \in 1 .. MaxAsks
    BY <2>1, MsgInMsgs
  <2>5. lost' \subseteq 1 .. MaxAsks
    BY <2>3, <2>4
  <2> QED
    BY <2>2, <2>5
<1>11. CASE HandlePop
  <2>1. lgMsg' \in Msgs /\ q_inner_recv' \in Seq(Msgs)
    BY <1>11 DEF HandlePop
  <2>2. told' \subseteq 1 .. MaxAsks
    BY <1>11, <2>1, MsgInMsgs DEF HandlePop
  <2> QED
    BY <1>11, <2>1, <2>2 DEF HandlePop
<1>12. CASE HandleFree
  BY <1>12 DEF HandleFree, queueVars, history
<1>13. CASE UNCHANGED vars
  BY <1>1, <1>13 DEF vars, queueVars, lgVars, history
<1> QED
  BY <1>2, <1>3, <1>4, <1>5, <1>6, <1>7, <1>8, <1>9, <1>10, <1>11, <1>12,
     <1>13 DEF Next, Callback, HandleInner

-----------------------------------------------------------------------------
(* What goes to the world *)

LEMMA InitWire == Init => RecvTypes /\ WireInv
BY InnerAssumption
   DEF Init, RecvTypes, WireInv, SendTypes, Waits, OnWire, Greeted,
       HelloThenInOrder, None

LEMMA AppendItem ==
    ASSUME NEW S, NEW q \in Seq(S), NEW m \in S
    PROVE  /\ Append(q, m) \in Seq(S)
           /\ Len(Append(q, m)) = Len(q) + 1
           /\ Append(q, m) # <<>>
           /\ \A i \in 1 .. Len(q) : Append(q, m)[i] = q[i]
           /\ Append(q, m)[Len(q) + 1] = m
OBVIOUS

LEMMA TailItem ==
    ASSUME NEW S, NEW q \in Seq(S), q # <<>>
    PROVE  /\ Head(q) = q[1] /\ Head(q) \in S
           /\ Len(q) > 0
           /\ Tail(q) \in Seq(S)
           /\ Len(Tail(q)) = Len(q) - 1
           /\ \A i \in 1 .. (Len(q) - 1) : Tail(q)[i] = q[i + 1]
OBVIOUS

\* A message that waits, and one on the wire, is a number.
LEMMA Numbered ==
    SendTypes =>
        /\ \A i \in 1 .. Len(q_inner_send) : q_inner_send[i] \in Nat
        /\ \A c \in 1 .. MaxAsks : \A i \in 1 .. Len(wire[c]) : wire[c][i] \in Nat
        /\ \A c \in 1 .. MaxAsks : wire[c] \in Seq(Nat) /\ Len(wire[c]) \in Nat
        /\ nsends \in Nat /\ msg_send \in Nat /\ Len(q_inner_send) \in Nat
BY InnerAssumption DEF SendTypes

\* The logic begins a message, which takes the next number.
LEMMA BeginStep == LinkInv /\ WireInv /\ WriteBegin => WireInv'
<1> SUFFICES ASSUME LinkInv, WireInv, WriteBegin PROVE WireInv'
  OBVIOUS
<1> USE InnerAssumption
<1>1. SendTypes /\ Waits /\ OnWire /\ Greeted /\ HelloThenInOrder
  BY DEF WireInv
<1>2. nsends' = nsends + 1 /\ msg_send' = nsends' /\ nsends < MaxSends
  BY DEF WriteBegin
<1>3. UNCHANGED <<q_inner_send, wire, beNormal, connect_state, nconns>>
  BY DEF WriteBegin, linkVars, queueVars, history
<1>4. SendTypes'
  BY <1>1, <1>2, <1>3 DEF SendTypes
<1>5. Waits'
  BY <1>1, <1>2, <1>3, Numbered DEF Waits
<1>6. OnWire'
  <2> SUFFICES ASSUME NEW c \in 1 .. MaxAsks, NEW i \in 2 .. Len(wire[c])
               PROVE  wire[c][i] + 1 <= nsends + 1
    BY <1>1, <1>2, <1>3, Numbered DEF OnWire
  <2>1. wire[c] \in Seq(Nat) /\ i \in 1 .. Len(wire[c])
    BY <1>1, Numbered
  <2>2. wire[c][i] \in Nat /\ nsends \in Nat
    BY <1>1, <2>1, Numbered
  <2>3. wire[c][i] + (IF msg_send # 0 THEN 1 ELSE 0) <= nsends
    BY <1>1 DEF OnWire
  <2> QED
    BY <2>2, <2>3
<1>7. Greeted' /\ HelloThenInOrder'
  BY <1>1, <1>3 DEF Greeted, HelloThenInOrder
<1> QED
  BY <1>4, <1>5, <1>6, <1>7 DEF WireInv

\* It joins the queue behind everything older, or is lost.
LEMMA EndStep == LinkInv /\ WireInv /\ WriteEnd => WireInv'
<1> SUFFICES ASSUME LinkInv, WireInv, WriteEnd PROVE WireInv'
  OBVIOUS
<1> USE InnerAssumption
<1>1. SendTypes /\ Waits /\ OnWire /\ Greeted /\ HelloThenInOrder
  BY DEF WireInv
<1>2. msg_send = nsends /\ msg_send \in 1 .. MaxSends /\ msg_send' = 0
  BY <1>1 DEF WriteEnd, Waits, SendTypes
<1>3. UNCHANGED <<nsends, wire, beNormal, connect_state, nconns>>
  BY DEF WriteEnd, linkVars, counters, history
<1>4. \/ q_inner_send' = q_inner_send
      \/ q_inner_send' = Append(q_inner_send, msg_send)
  BY DEF WriteEnd, Pushed
<1>5. q_inner_send \in Seq(1 .. MaxSends)
  BY <1>1 DEF SendTypes
<1>6. q_inner_send' \in Seq(1 .. MaxSends)
  BY <1>2, <1>4, <1>5, AppendItem
<1>7. SendTypes'
  BY <1>1, <1>2, <1>3, <1>6 DEF SendTypes
<1>8. \A i \in 1 .. Len(q_inner_send') :
          \/ i \in 1 .. Len(q_inner_send) /\ q_inner_send'[i] = q_inner_send[i]
          \/ i = Len(q_inner_send) + 1 /\ q_inner_send'[i] = msg_send
  <2>1. CASE q_inner_send' = q_inner_send
    BY <2>1
  <2>2. CASE q_inner_send' = Append(q_inner_send, msg_send)
    BY <1>1, <1>2, <1>5, <2>2, AppendItem, Numbered
  <2> QED
    BY <1>4, <2>1, <2>2
<1>9. \A i \in 1 .. Len(q_inner_send) : q_inner_send[i] < msg_send
  BY <1>1, <1>2, Numbered DEF Waits
<1>10. Waits'
  <2>1. \A i \in 1 .. Len(q_inner_send') : q_inner_send'[i] + 0 <= nsends
    BY <1>1, <1>2, <1>8, <1>9, Numbered
  <2>2. \A i, j \in 1 .. Len(q_inner_send') : i < j => q_inner_send'[i] < q_inner_send'[j]
    BY <1>1, <1>8, <1>9, Numbered DEF Waits
  <2> QED
    BY <1>2, <1>3, <2>1, <2>2 DEF Waits
<1>11. OnWire'
  <2>1. \A c \in 1 .. MaxAsks : \A i \in 2 .. Len(wire[c]) :
            wire[c][i] # 0 /\ wire[c][i] <= nsends /\ wire[c][i] < msg_send
    BY <1>1, <1>2, Numbered DEF OnWire
  <2>2. \A c \in 1 .. MaxAsks : \A i \in 2 .. Len(wire[c]) :
            \A j \in 1 .. Len(q_inner_send') : wire[c][i] < q_inner_send'[j]
    BY <1>1, <1>8, <2>1 DEF OnWire
  <2> QED
    BY <1>1, <1>2, <1>3, <2>1, <2>2, Numbered DEF OnWire
<1>12. Greeted' /\ HelloThenInOrder'
  BY <1>1, <1>3 DEF Greeted, HelloThenInOrder
<1> QED
  BY <1>7, <1>10, <1>11, <1>12 DEF WireInv

\* The hello is the first thing on the connection.
LEMMA HelloStep == LinkInv /\ WireInv /\ Connected => WireInv'
<1> SUFFICES ASSUME LinkInv, WireInv, Connected PROVE WireInv'
  OBVIOUS
<1> USE InnerAssumption
<1>1. SendTypes /\ Waits /\ OnWire /\ Greeted /\ HelloThenInOrder
  BY DEF WireInv
<1>2. beNormal \in 1 .. MaxAsks /\ nconns \in Nat /\ beNormal = nconns
  BY DEF Connected, LinkInv, LinkTypes, Places
<1>3. UNCHANGED <<nsends, msg_send, q_inner_send, beNormal, nconns>>
  BY DEF Connected, queueVars, lgVars, counters, history
<1>4. wire[beNormal] = <<>>
  BY <1>1, <1>2 DEF Connected, Greeted
<1>5. connect_state' = 2 /\ wire' = [wire EXCEPT ![beNormal] = Append(@, 0)]
  BY DEF Connected, Hello
<1>6. wire \in [1 .. MaxAsks -> Seq(Nat)]
  BY <1>1 DEF SendTypes
<1>7. /\ wire'[beNormal] = Append(<<>>, 0)
      /\ \A c \in 1 .. MaxAsks : c # beNormal => wire'[c] = wire[c]
  BY <1>2, <1>4, <1>5, <1>6
<1>8. /\ Len(wire'[beNormal]) = 1 /\ wire'[beNormal][1] = 0
      /\ wire'[beNormal] # <<>> /\ wire'[beNormal] \in Seq(Nat)
  BY <1>7
<1>9. SendTypes'
  <2>1. wire' \in [1 .. MaxAsks -> Seq(Nat)]
    BY <1>2, <1>4, <1>5, <1>6
  <2> QED
    BY <1>1, <1>3, <2>1 DEF SendTypes
<1>10. Waits'
  BY <1>1, <1>3 DEF Waits
<1>11. OnWire'
  <2> SUFFICES ASSUME NEW c \in 1 .. MaxAsks
               PROVE  /\ c > nconns => wire'[c] = <<>>
                      /\ wire'[c] # <<>> => wire'[c][1] = 0
                      /\ \A i \in 2 .. Len(wire'[c]) :
                          /\ wire'[c][i] # 0
                          /\ wire'[c][i] + (IF msg_send # 0 THEN 1 ELSE 0) <= nsends
                          /\ \A j \in 1 .. Len(q_inner_send) : wire'[c][i] < q_inner_send[j]
    BY <1>3 DEF OnWire, Hello
  <2>1. CASE c = beNormal
    BY <1>2, <1>8, <2>1
  <2>2. CASE c # beNormal
    BY <1>1, <1>7, <2>2 DEF OnWire, Hello
  <2> QED
    BY <2>1, <2>2
<1>12. Greeted'
  BY <1>3, <1>5, <1>8 DEF Greeted
<1>13. HelloThenInOrder'
  <2>1. \A c \in 1 .. MaxAsks : c # beNormal => wire'[c] = wire[c]
    BY <1>7
  <2>2. \A i \in 2 .. Len(wire'[beNormal]) : FALSE
    BY <1>8
  <2> QED
    BY <1>1, <1>2, <1>8, <2>1, <2>2 DEF HelloThenInOrder, Hello
<1> QED
  BY <1>9, <1>10, <1>11, <1>12, <1>13 DEF WireInv

\* The oldest message that waits goes to the connection made last.
LEMMA PopStep == LinkInv /\ WireInv /\ SendPop => WireInv'
<1> SUFFICES ASSUME LinkInv, WireInv, SendPop PROVE WireInv'
  OBVIOUS
<1> USE InnerAssumption
<1>1. SendTypes /\ Waits /\ OnWire /\ Greeted /\ HelloThenInOrder
  BY DEF WireInv
<1>2. beNormal \in 1 .. MaxAsks /\ nconns \in Nat /\ beNormal = nconns
  BY DEF SendPop, LinkInv, LinkTypes, Places
<1>3. UNCHANGED <<nsends, msg_send, beNormal, connect_state, nconns>>
  BY DEF SendPop, linkVars, lgVars, counters, history
<1>4. CASE q_inner_send = <<>>
  <2>1. UNCHANGED <<q_inner_send, wire>>
    BY <1>4 DEF SendPop
  <2> QED
    BY <1>1, <1>3, <2>1 DEF WireInv, SendTypes, Waits, OnWire, Greeted, HelloThenInOrder
<1>5. CASE q_inner_send # <<>>
  <2> DEFINE m == Head(q_inner_send)
  <2>1. wire \in [1 .. MaxAsks -> Seq(Nat)] /\ q_inner_send \in Seq(1 .. MaxSends)
    BY <1>1 DEF SendTypes
  <2>2. m = q_inner_send[1] /\ Len(q_inner_send) > 0 /\ m \in 1 .. MaxSends
    BY <1>5, <2>1, TailItem
  <2>3. q_inner_send' = Tail(q_inner_send)
    BY <1>5 DEF SendPop
  <2>4. /\ q_inner_send' \in Seq(1 .. MaxSends)
        /\ Len(q_inner_send') = Len(q_inner_send) - 1
        /\ \A i \in 1 .. Len(q_inner_send') : q_inner_send'[i] = q_inner_send[i + 1]
    BY <1>5, <2>1, <2>3, TailItem
  <2>5. wire' = wire \/ wire' = [wire EXCEPT ![beNormal] = Append(@, m)]
    BY <1>5 DEF SendPop
  <2>6. Len(wire[beNormal]) > 0 /\ wire[beNormal] \in Seq(Nat) /\ m \in Nat
    <3>1. connect_state = 2
      BY DEF SendPop, LinkInv, Places
    <3>2. wire[beNormal] # <<>>
      BY <1>1, <1>2, <3>1 DEF Greeted
    <3>3. wire[beNormal] \in Seq(Nat)
      BY <1>2, <2>1
    <3> HIDE DEF m
    <3> QED
      BY <2>2, <3>2, <3>3
  <2> HIDE DEF m
  <2>7. /\ wire'[beNormal] \in {wire[beNormal], Append(wire[beNormal], m)}
        /\ \A c \in 1 .. MaxAsks : c # beNormal => wire'[c] = wire[c]
        /\ wire' \in [1 .. MaxAsks -> Seq(Nat)]
    <3>1. CASE wire' = wire
      BY <1>2, <2>1, <3>1
    <3>2. CASE wire' = [wire EXCEPT ![beNormal] = Append(@, m)]
      <4>1. Append(wire[beNormal], m) \in Seq(Nat)
        BY <2>6, AppendItem
      <4> QED
        BY <1>2, <2>1, <3>2, <4>1
    <3> QED
      BY <2>5, <3>1, <3>2
  <2>8. SendTypes'
    BY <1>1, <1>3, <2>4, <2>7 DEF SendTypes
  <2>9. \A c \in 1 .. MaxAsks :
            /\ wire'[c] # <<>> <=> wire[c] # <<>>
            /\ wire[c] # <<>> => wire'[c][1] = wire[c][1]
    <3>1. wire[beNormal] # <<>> /\ Append(wire[beNormal], m) # <<>>
      BY <2>6, AppendItem
    <3>2. Append(wire[beNormal], m)[1] = wire[beNormal][1]
      BY <2>6, AppendItem
    <3> QED
      BY <2>7, <3>1, <3>2
  <2>10. \A i \in 2 .. Len(wire'[beNormal]) :
             \/ i \in 2 .. Len(wire[beNormal]) /\ wire'[beNormal][i] = wire[beNormal][i]
             \/ i = Len(wire[beNormal]) + 1 /\ wire'[beNormal][i] = m
    <3>1. CASE wire'[beNormal] = wire[beNormal]
      BY <3>1
    <3>2. CASE wire'[beNormal] = Append(wire[beNormal], m)
      BY <2>6, <3>2, AppendItem
    <3> QED
      BY <2>7, <3>1, <3>2
  <2>11. \A i \in 1 .. Len(q_inner_send') :
             i + 1 \in 2 .. Len(q_inner_send) /\ q_inner_send'[i] = q_inner_send[i + 1]
    BY <2>1, <2>4
  <2>12. \A i \in 1 .. Len(q_inner_send') : q_inner_send'[i] > m
    BY <1>1, <2>2, <2>11, Numbered DEF Waits
  <2>13. \A c \in 1 .. MaxAsks : \A i \in 2 .. Len(wire[c]) : wire[c][i] < m
    BY <1>1, <2>1, <2>2 DEF OnWire
  <2>14. Waits'
    <3>1. \A i \in 1 .. Len(q_inner_send') :
              q_inner_send'[i] + (IF msg_send # 0 THEN 1 ELSE 0) <= nsends
      BY <1>1, <2>11 DEF Waits
    <3>2. ASSUME NEW i \in 1 .. Len(q_inner_send'), NEW j \in 1 .. Len(q_inner_send'), i < j
          PROVE  q_inner_send'[i] < q_inner_send'[j]
      <4>1. i + 1 \in 1 .. Len(q_inner_send) /\ j + 1 \in 1 .. Len(q_inner_send) /\ i + 1 < j + 1
        BY <2>11, <3>2
      <4>2. q_inner_send[i + 1] < q_inner_send[j + 1]
        BY <1>1, <4>1 DEF Waits
      <4> QED
        BY <2>11, <4>2
    <3> QED
      BY <1>1, <1>3, <3>1, <3>2 DEF Waits
  <2>15. m # 0 /\ m + (IF msg_send # 0 THEN 1 ELSE 0) <= nsends
    BY <1>1, <2>1, <2>2 DEF Waits
  <2>16. OnWire'
    <3> SUFFICES ASSUME NEW c \in 1 .. MaxAsks
                 PROVE  /\ c > nconns => wire'[c] = <<>>
                        /\ wire'[c] # <<>> => wire'[c][1] = Hello
                        /\ \A i \in 2 .. Len(wire'[c]) :
                            /\ wire'[c][i] # 0
                            /\ wire'[c][i] + (IF msg_send # 0 THEN 1 ELSE 0) <= nsends
                            /\ \A j \in 1 .. Len(q_inner_send') :
                                   wire'[c][i] < q_inner_send'[j]
      BY <1>3 DEF OnWire
    <3>1. (c > nconns => wire'[c] = <<>>) /\ (wire'[c] # <<>> => wire'[c][1] = Hello)
      BY <1>1, <2>9 DEF OnWire
    <3>2. \A i \in 2 .. Len(wire[c]) :
              /\ wire[c][i] # 0
              /\ wire[c][i] + (IF msg_send # 0 THEN 1 ELSE 0) <= nsends
              /\ \A j \in 1 .. Len(q_inner_send') : wire[c][i] < q_inner_send'[j]
      BY <1>1, <2>11 DEF OnWire
    <3>3. CASE c = beNormal
      BY <2>10, <2>12, <2>15, <3>1, <3>2, <3>3
    <3>4. CASE c # beNormal
      BY <2>7, <3>1, <3>2, <3>4
    <3> QED
      BY <3>3, <3>4
  <2>17. Greeted'
    BY <1>1, <1>2, <1>3, <2>9 DEF Greeted
  <2>18. HelloThenInOrder'
    <3>1. \A c \in 1 .. MaxAsks : wire'[c] # <<>> => wire'[c][1] = Hello
      BY <1>1, <2>9 DEF HelloThenInOrder
    <3>2. SUFFICES ASSUME NEW c \in 1 .. MaxAsks, NEW d \in 1 .. MaxAsks,
                          NEW i \in 2 .. Len(wire'[c]), NEW j \in 2 .. Len(wire'[d]),
                          c < d \/ (c = d /\ i < j)
                   PROVE  wire'[c][i] < wire'[d][j]
      BY <3>1 DEF HelloThenInOrder
    <3>3. d <= beNormal
      <4>1. wire'[d] # <<>>
        BY <3>2
      <4>2. wire[d] # <<>>
        BY <2>9, <4>1
      <4> QED
        BY <1>1, <1>2, <4>2 DEF OnWire
    <3>4. c # beNormal => i \in 2 .. Len(wire[c]) /\ wire'[c][i] = wire[c][i]
      BY <2>7
    <3>5. d # beNormal => j \in 2 .. Len(wire[d]) /\ wire'[d][j] = wire[d][j]
      BY <2>7
    <3>6. CASE d # beNormal
      BY <1>1, <1>2, <3>2, <3>3, <3>4, <3>5, <3>6 DEF HelloThenInOrder
    <3>7. CASE d = beNormal
      <4>1. i \in 2 .. Len(wire[c]) /\ wire'[c][i] = wire[c][i]
        BY <2>6, <2>10, <2>7, <3>2, <3>4, <3>7
      <4>2. CASE j \in 2 .. Len(wire[d]) /\ wire'[d][j] = wire[d][j]
        BY <1>1, <3>2, <4>1, <4>2 DEF HelloThenInOrder
      <4>3. CASE wire'[d][j] = m
        BY <2>13, <4>1, <4>3
      <4> QED
        BY <2>10, <3>7, <4>2, <4>3
    <3> QED
      BY <3>6, <3>7
  <2> QED
    BY <2>8, <2>14, <2>16, <2>17, <2>18 DEF WireInv
<1> QED
  BY <1>4, <1>5

\* A connection that is made, dialled or given up has nothing written to it.
LEMMA DialStep ==
    /\ LinkInv /\ WireInv
    /\ Connect \/ DialPending \/ DialNoSocket \/ DialFails \/ Reset
    => WireInv'
<1> SUFFICES ASSUME LinkInv, WireInv,
                    Connect \/ DialPending \/ DialNoSocket \/ DialFails \/ Reset
             PROVE  WireInv'
  OBVIOUS
<1>1. SendTypes /\ Waits /\ OnWire /\ Greeted /\ HelloThenInOrder
  BY DEF WireInv
<1>2. UNCHANGED <<nsends, msg_send, q_inner_send, wire>>
  BY DEF Connect, DialPending, DialNoSocket, DialFails, Dialled, Reset, Goto,
     queueVars, lgVars, counters
<1>3. nconns' >= nconns /\ nconns \in Nat /\ nconns' \in Nat
  BY DEF Connect, DialPending, DialNoSocket, DialFails, Dialled, Reset, Goto,
     history, LinkInv, LinkTypes
<1>4. OnWire'
  BY <1>1, <1>2, <1>3, InnerAssumption DEF OnWire
<1>5. Greeted'
  <2>1. CASE Reset \/ DialFails
    BY <2>1 DEF Reset, DialFails, Greeted
  <2>2. CASE DialPending \/ DialNoSocket
    <3>1. connect_state = 0 /\ beNormal' = beNormal /\ connect_state' \in {0, 1}
      BY <2>2 DEF DialPending, DialNoSocket, Dialled, LinkInv, Places
    <3> QED
      BY <1>1, <1>2, <3>1 DEF Greeted
  <2>3. CASE Connect
    <3>1. CASE UNCHANGED <<beNormal, connect_state>>
      BY <1>1, <1>2, <3>1 DEF Greeted
    <3>2. CASE beNormal' = nconns + 1 /\ connect_state = 0 /\ connect_state' = 0
      <4>1. nconns + 1 \in 1 .. MaxAsks
        BY <2>3, InnerAssumption DEF Connect, LinkInv, LinkTypes, Places, ConnectsPaid
      <4>2. wire[nconns + 1] = <<>>
        BY <1>1, <1>3, <4>1 DEF OnWire
      <4> QED
        BY <1>2, <3>2, <4>2 DEF Greeted
    <3> QED
      BY <2>3, <3>1, <3>2 DEF Connect
  <2> QED
    BY <2>1, <2>2, <2>3
<1> QED
  BY <1>1, <1>2, <1>4, <1>5 DEF WireInv, SendTypes, Waits, HelloThenInOrder

\* Every step keeps what is on the wires in order.
LEMMA StepWire == LinkInv /\ WireInv /\ [Next]_vars => WireInv'
<1> SUFFICES ASSUME LinkInv, WireInv, [Next]_vars PROVE WireInv'
  OBVIOUS
<1>1. ASSUME UNCHANGED <<nsends, msg_send, q_inner_send, wire, beNormal,
                         connect_state, nconns>>
      PROVE  WireInv'
  BY <1>1 DEF WireInv, SendTypes, Waits, OnWire, Greeted, HelloThenInOrder
<1>2. CASE \/ WriteBegin \/ WriteEnd \/ Connected \/ SendPop
           \/ Connect \/ DialPending \/ DialNoSocket \/ DialFails \/ Reset
  BY <1>2, BeginStep, EndStep, HelloStep, PopStep, DialStep
<1>3. CASE SetConnect \/ Store \/ CloseConnect
  BY <1>1, <1>3 DEF SetConnect, Store, CloseConnect, linkVars, queueVars, lgVars,
     counters, history
<1>4. CASE Tick \/ ReadNeedConnect \/ ReadDone \/ UseFreed \/ Down \/ ReadBad
  BY <1>1, <1>4 DEF Tick, ReadNeedConnect, ReadDone, UseFreed, Down, ReadBad,
     Goto, linkVars, queueVars, lgVars, counters, history
<1>5. CASE ForceClose \/ SendFree \/ CloseAlloc \/ ClosePush
  BY <1>1, <1>5 DEF ForceClose, SendFree, CloseAlloc, ClosePush, linkVars,
     queueVars, lgVars, counters, history
<1>6. CASE ReadFrame \/ ReadPush \/ HandleInner
  BY <1>1, <1>6 DEF ReadFrame, ReadPush, HandleInner, HandlePop, HandleFree,
     linkVars, queueVars, lgVars, counters, history
<1>7. ASSUME NEW f \in Frames, WorldSend(f) PROVE WireInv'
  BY <1>1, <1>7 DEF WorldSend, queueVars, lgVars, history
<1>8. ASSUME NEW n \in 1 .. MaxFrames, Readable(n) PROVE WireInv'
  BY <1>1, <1>8 DEF Readable, Goto, queueVars, lgVars, counters, history
<1>9. CASE UNCHANGED vars
  BY <1>1, <1>9 DEF vars, linkVars, queueVars, lgVars, counters, history
<1> QED
  BY <1>2, <1>3, <1>4, <1>5, <1>6, <1>7, <1>8, <1>9 DEF Next, Callback

(***************************************************************************)
(* What LinkSound says of the blocks, of types and of the wires.           *)
(***************************************************************************)
LEMMA SoundFromParts ==
    BlocksInv /\ LinkInv /\ RecvTypes /\ WireInv => LinkSound
<1> SUFFICES ASSUME BlocksInv, LinkInv, RecvTypes, WireInv PROVE LinkSound
  OBVIOUS
<1>1. pool \in 0 .. cap
  BY InnerAssumption DEF BlocksInv, BlocksType, AtMostOneBlockLost
<1>2. /\ SeqOf(Frames, net) /\ SeqOf(Frames, input)
      /\ SeqOf(Msgs, q_inner_recv) /\ SeqOf(1 .. MaxSends, q_inner_send)
  <2>1. \A S : \A q \in Seq(S) : SeqOf(S, q)
    BY DEF SeqOf
  <2> QED
    BY <2>1 DEF LinkInv, LinkTypes, RecvTypes, WireInv, SendTypes
<1>3. {ioMsg, lgMsg} \subseteq Msgs \union {None}
  BY DEF RecvTypes
<1>4. {needConnect, forceClose} \subseteq BOOLEAN
  BY Zenon DEF LinkInv, LinkTypes
<1>5. live \union up \subseteq 1 .. nconns /\ lost \union told \subseteq 1 .. MaxAsks
  BY DEF LinkInv, LinkTypes, RecvTypes
<1>6. /\ beNormal \in 0 .. nconns /\ nconns \in 0 .. MaxAsks
      /\ connect_state \in 0 .. 2
      /\ ioPc \in {"loop", "disconnect", "closeAlloc", "closePush", "reset",
                   "need", "connect", "dial", "read", "readPush", "badAlloc",
                   "badPush", "send", "sendFree", "crashed"}
      /\ si \in Addrs \X Addrs /\ lgStore \in 0 .. 4
  BY DEF LinkInv, LinkTypes
<1>7. msg_send \in 0 .. MaxSends
  BY DEF WireInv, SendTypes
<1> QED
  BY <1>1, <1>2, <1>3, <1>4, <1>5, <1>6, <1>7 DEF LinkSound, TypeOK, WireInv

(***************************************************************************)
(* On every connection the world reads the hello first, then messages in   *)
(* the order in which they were sent, each of them on one connection only  *)
(* (thread_inner.h:40, :106-121).                                          *)
(***************************************************************************)
THEOREM LinkSafe == Spec => []LinkSound
<1>1. BlocksInv /\ LinkInv /\ RecvTypes /\ WireInv /\ [Next]_vars
      => (BlocksInv /\ LinkInv /\ RecvTypes /\ WireInv)'
  BY StepBlocks, StepLink, StepRecv, StepWire DEF BlocksInv
<1>2. Init => BlocksInv /\ LinkInv /\ RecvTypes /\ WireInv
  BY InitBlocks, InitLink, InitWire
<1> QED
  BY <1>1, <1>2, SoundFromParts, PTL DEF Spec
=============================================================================
