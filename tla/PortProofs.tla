----------------------------- MODULE PortProofs -----------------------------
(***************************************************************************)
(* The two servers that speak length-prefixed frames, for every number of  *)
(* descriptors, connections, requests and blocks: the table, the pools,    *)
(* where answers go, and what the world knows of the earlier users of a    *)
(* descriptor.                                                             *)
(***************************************************************************)
EXTENDS PortServer, TableProofs

(***************************************************************************)
(* The connections: each was given a descriptor once, and the table has    *)
(* the connection under the descriptor it was given.                       *)
(***************************************************************************)
TableTypes ==
    /\ fd2be \in [Fds -> 0 .. MaxConns] /\ fds \in Seq(Fds)
    /\ fdOf \in Seq(0 .. fd_max) /\ Len(fdOf) <= MaxConns
    /\ open \subseteq Conns

OwnDescriptor ==
    /\ \A fd \in Fds : fd2be[fd] # NoBe => fdOf[fd2be[fd]] = fd
    /\ \A c \in open : fdOf[c] \in Fds

\* A callback works on a connection that exists.
ReadsOpen ==
    /\ ioPc \in {"read", "push"} => cur \in open
    /\ ioPc \in {"closeAlloc", "closePush", "giveBack"} => cur \in Conns \ open

TableInv == TableTypes /\ OwnDescriptor /\ ReadsOpen /\ TableOK

LEMMA InitTable == Init => TableInv
<1> SUFFICES ASSUME Init PROVE TableInv
  OBVIOUS
<1>1. TableTypes
  BY PortAssumption DEF Init, TableTypes, NoBe
<1>2. OwnDescriptor /\ ReadsOpen
  BY DEF Init, OwnDescriptor, ReadsOpen, NoBe
<1>3. TableOK
  BY DEF Init, TableOK, TableConsistent, NoBe
<1> QED
  BY <1>1, <1>2, <1>3 DEF TableInv

\* What a step keeps that leaves the table alone.
LEMMA TableKept ==
    ASSUME TableInv, UNCHANGED tableVars, ReadsOpen'
    PROVE  TableInv'
<1>1. Conns' = Conns
  BY DEF tableVars, Conns
<1> QED
  BY <1>1 DEF TableInv, TableTypes, OwnDescriptor, TableOK, tableVars

\* A new connection; nobody has its descriptor.
LEMMA AcceptKeepsTable ==
    ASSUME TableInv, NEW fd \in 0 .. fd_max, Accept(fd)
    PROVE  TableInv'
<1> DEFINE n == Len(fdOf)
<1>1. /\ ioPc = "loop" /\ ioPc' = ioPc /\ n < MaxConns
      /\ fdOf' = Append(fdOf, fd) /\ \A c \in open : fdOf[c] # fd
  BY DEF Accept, ioVars
<1>2. ReadsOpen'
  BY <1>1 DEF ReadsOpen
<1>3. /\ n \in Nat /\ fdOf' \in Seq(0 .. fd_max) /\ Len(fdOf') = n + 1 /\ MaxConns \in Nat
      /\ fdOf'[n + 1] = fd /\ \A c \in Conns : c \in Conns' /\ fdOf'[c] = fdOf[c] /\ c # n + 1
      /\ n + 1 \in Conns' /\ Conns \subseteq Conns'
  BY <1>1, PortAssumption DEF TableInv, TableTypes, Conns
<1>4. TableConsistent(fd2be, fds) /\ fd2be \in [Fds -> 0 .. MaxConns] /\ fds \in Seq(Fds)
      /\ NoBe \in 0 .. MaxConns /\ open \subseteq Conns
      /\ (\A c \in open : fd2be[fdOf[c]] = c) /\ (\A g \in Fds : fd2be[g] # NoBe => fd2be[g] \in open)
  BY <1>3 DEF TableInv, TableTypes, TableOK, NoBe
<1>5. CASE CanAdd(fd2be, fds, fd)
  <2>1. /\ fd2be' = [fd2be EXCEPT ![fd] = n + 1] /\ fds' = Append(fds, fd)
        /\ open' = open \union {n + 1}
    BY <1>3, <1>5 DEF Accept
  <2>2. n + 1 \in 0 .. MaxConns /\ n + 1 # NoBe
    BY <1>1, <1>3 DEF NoBe
  <2>3. fd \in Fds /\ fds' \in Seq(Fds) /\ TableConsistent(fd2be', fds')
    <3>1. /\ fd \in Fds /\ Append(fds, fd) \in Seq(Fds)
          /\ TableConsistent([fd2be EXCEPT ![fd] = n + 1], Append(fds, fd))
      <4> DEFINE b == n + 1
      <4>1. /\ fd2be \in [Fds -> 0 .. MaxConns] /\ fds \in Seq(Fds) /\ b \in 0 .. MaxConns
            /\ b # NoBe /\ TableConsistent(fd2be, fds) /\ CanAdd(fd2be, fds, fd)
        BY <1>4, <1>5, <2>2
      <4> HIDE DEF b
      <4>2. /\ fd \in Fds /\ Append(fds, fd) \in Seq(Fds)
            /\ TableConsistent([fd2be EXCEPT ![fd] = b], Append(fds, fd))
        BY ONLY <4>1, AddKeepsTable
      <4> QED
        BY <4>2 DEF b
    <3> QED
      BY <2>1, <3>1
  <2>4. TableTypes'
    BY <1>1, <1>3, <1>4, <2>1, <2>2, <2>3 DEF TableTypes
  <2>5. \A g \in Fds : fd2be'[g] = IF g = fd THEN n + 1 ELSE fd2be[g]
    BY <1>4, <2>1
  <2>6. OwnDescriptor'
    BY <1>3, <1>4, <2>1, <2>3, <2>5 DEF TableInv, OwnDescriptor
  <2>7. \A c \in open' : fd2be'[fdOf'[c]] = c
    <3>1. \A c \in open : fdOf[c] # fd /\ fdOf[c] \in Fds
      BY <1>1 DEF TableInv, OwnDescriptor
    <3>2. \A c \in open : fd2be'[fdOf[c]] = fd2be[fdOf[c]]
      BY <1>4, <2>1, <3>1
    <3> QED
      BY <1>3, <1>4, <2>1, <2>3, <2>5, <3>2
  <2>8. \A g \in Fds : fd2be'[g] # NoBe => fd2be'[g] \in open'
    BY <1>4, <2>1, <2>5
  <2> QED
    BY <1>2, <2>3, <2>4, <2>6, <2>7, <2>8 DEF TableInv, TableOK
<1>6. CASE ~CanAdd(fd2be, fds, fd)
  <2>1. UNCHANGED <<fd2be, fds, open>>
    BY <1>6 DEF Accept
  <2>2. TableTypes'
    BY <1>1, <1>3, <1>4, <2>1 DEF TableInv, TableTypes
  <2>3. OwnDescriptor' /\ TableOK'
    BY <1>3, <1>4, <2>1 DEF TableInv, OwnDescriptor, TableOK
  <2> QED
    BY <1>2, <2>2, <2>3 DEF TableInv
<1> QED
  BY <1>5, <1>6

\* fd_del finds the connection, which is then nowhere in the table.
LEMMA CloseKeepsTable ==
    ASSUME TableInv, NEW c \in open, Close(c), ReadsOpen'
    PROVE  TableInv' /\ open' = open \ {c} /\ UNCHANGED <<fdOf, orphans>>
<1> DEFINE fd == fdOf[c]
<1>1. TableConsistent(fd2be, fds) /\ fd2be \in [Fds -> 0 .. MaxConns] /\ fds \in Seq(Fds)
      /\ NoBe \in 0 .. MaxConns /\ open \subseteq Conns /\ fd \in Fds
      /\ fd2be[fd] = c
  BY PortAssumption DEF TableInv, TableTypes, TableOK, OwnDescriptor, NoBe
<1>2. UNCHANGED <<fdOf, orphans>> /\ open' = open \ {c} /\ Conns' = Conns
  BY DEF Close, Conns
<1>3. c # NoBe
  BY <1>1 DEF Conns, NoBe
<1>4. /\ CanDel(fd2be, fds, fd) /\ SwapRemove(fds, fd) \in Seq(Fds)
      /\ TableConsistent([fd2be EXCEPT ![fd] = NoBe], SwapRemove(fds, fd))
  BY <1>1, <1>3, DelKeepsTable
<1>5. fd2be' = [fd2be EXCEPT ![fd] = NoBe] /\ fds' = SwapRemove(fds, fd)
  BY <1>4 DEF Close
<1>6. \A g \in Fds : fd2be'[g] = IF g = fd THEN NoBe ELSE fd2be[g]
  BY <1>1, <1>5
<1>7. TableTypes'
  BY <1>1, <1>2, <1>4, <1>5 DEF TableInv, TableTypes
<1>8. OwnDescriptor'
  BY <1>2, <1>6 DEF TableInv, OwnDescriptor
<1>9. \A d \in open' : fd2be'[fdOf'[d]] = d
  <2>1. \A d \in open : d # c => fdOf[d] # fd /\ fd2be[fdOf[d]] = d
    BY <1>1 DEF TableInv, TableOK
  <2> QED
    BY <1>1, <1>2, <1>5, <2>1
<1>10. \A g \in Fds : fd2be'[g] # NoBe => fd2be'[g] \in open'
  BY <1>1, <1>2, <1>6 DEF TableInv, TableOK, OwnDescriptor
<1> QED
  BY <1>2, <1>4, <1>5, <1>7, <1>8, <1>9, <1>10 DEF TableInv, TableOK

LEMMA NextTable == TableInv /\ [Next]_vars => TableInv'
<1> SUFFICES ASSUME TableInv, [Next]_vars PROVE TableInv'
  OBVIOUS
<1>0. open \subseteq Conns
  BY DEF TableInv, TableTypes
<1>1. ASSUME NEW fd \in 0 .. fd_max, Accept(fd) PROVE TableInv'
  BY <1>1, AcceptKeepsTable
<1>2. CASE ReadBad
  <2>1. /\ ioPc = "read" /\ Close(cur) /\ cur' = cur /\ ioPc' \in {"giveBack", "closeAlloc"}
        /\ cur \in open
    BY <1>2 DEF ReadBad, TableInv, ReadsOpen
  <2>2. Conns' = Conns /\ open' = open \ {cur}
    BY <2>1 DEF Close, Conns
  <2>3. ReadsOpen'
    BY <1>0, <2>1, <2>2 DEF ReadsOpen
  <2> QED
    BY <2>1, <2>3, CloseKeepsTable
<1>3. ASSUME NEW c \in open, Event(c) PROVE TableInv'
  <2>1. /\ ioPc = "loop" /\ Close(c)
        /\ (ioPc' = ioPc /\ cur' = cur) \/ (ioPc' = "closeAlloc" /\ cur' = c)
    BY <1>3 DEF Event
  <2>2. Conns' = Conns /\ open' = open \ {c}
    BY <2>1 DEF Close, Conns
  <2>3. ReadsOpen'
    BY <1>0, <2>1, <2>2 DEF ReadsOpen
  <2> QED
    BY <2>1, <2>3, CloseKeepsTable
<1>4. ASSUME UNCHANGED tableVars,
             \/ UNCHANGED <<ioPc, cur>>
             \/ ioPc' \in {"loop", "send", "sendFree", "sendFreeStale"}
             \/ ioPc' \in {"read", "push"} /\ cur' \in open
             \/ ioPc = "closeAlloc" /\ ioPc' = "closePush" /\ cur' = cur
      PROVE  TableInv'
  <2>1. open' = open /\ Conns' = Conns
    BY <1>4 DEF tableVars, Conns
  <2>2. ReadsOpen'
    BY <1>4, <2>1 DEF TableInv, ReadsOpen
  <2> QED
    BY <1>4, <2>2, TableKept
<1>5. ASSUME NEW c \in open, Readable(c) PROVE TableInv'
  BY <1>4, <1>5 DEF Readable
<1>6. CASE ReadStops \/ GiveBack \/ SendFree \/ TickDone \/ Tick
  BY <1>4, <1>6 DEF ReadStops, GiveBack, SendFree, TickDone, Tick
<1>7. CASE ReadFrame
  <2>1. cur \in open
    BY <1>7 DEF ReadFrame, TableInv, ReadsOpen
  <2> QED
    BY <1>4, <1>7, <2>1 DEF ReadFrame
<1>8. CASE Push
  <2>1. ioPc = "push" => cur \in open
    BY DEF TableInv, ReadsOpen
  <2> QED
    BY <1>4, <1>8, <2>1 DEF Push
<1>9. CASE CloseAlloc
  BY <1>4, <1>9 DEF CloseAlloc
<1>10. CASE Logic \/ UNCHANGED vars \/ \E c \in open, bad \in BOOLEAN : PeerSend(c, bad)
  <2>1. UNCHANGED tableVars /\ UNCHANGED <<ioPc, cur>>
    BY <1>10 DEF Logic, HandlePop, HandleFree, ReplyAlloc, NoReply, ReplyPush, PeerSend,
                 vars, ioVars
  <2> QED
    BY <1>4, <2>1
<1> QED
  BY <1>1, <1>2, <1>3, <1>5, <1>6, <1>7, <1>8, <1>9, <1>10
     DEF Next, EventLoop, Reading, Sending

LEMMA TableAlways == Spec => []TableInv
BY InitTable, NextTable, PTL DEF Spec

-----------------------------------------------------------------------------
(* Messages *)

\* A message that names a connection by the descriptor it was given.
Named == {m \in Messages : m.conn \in Conns /\ m.fd = fdOf[m.conn]}

InputTypes ==
    /\ port \in {"admin", "world"}
    /\ input \in [AllConns -> Seq(0 .. MaxFrames)] /\ fresh \subseteq open
    /\ nframes \in 0 .. MaxFrames
    /\ ioPc \in {"loop", "read", "push", "closeAlloc", "closePush", "giveBack",
                 "send", "sendFree", "sendFreeStale"}
    /\ lgPc \in {"loop", "handler", "reply", "replyPush", "free"}

QueueTypes == q_recv \in Seq(Named) /\ q_send \in Seq(Named)

\* What each of the threads has in hand, by where it is.
IoHeld ==
    /\ ioMsg \in Messages
    /\ ioPc \in {"push", "closePush"} => ioMsg \in Named /\ ioMsg.conn = cur
    /\ ioPc = "push" => ioMsg.n # 0
    /\ ioPc = "closePush" => ioMsg.n = 0

LgHeld ==
    /\ lgMsg \in Messages /\ lgOut \in Messages
    /\ lgPc # "loop" => lgMsg \in Named
    /\ lgPc = "replyPush" => lgOut = lgMsg

MsgInv == InputTypes /\ QueueTypes /\ IoHeld /\ LgHeld

LEMMA NoneIsMessage == None \in Messages
BY PortAssumption, FdAssumption DEF None, Messages

LEMMA EndIsNamed ==
    ASSUME TableInv, NEW c \in Conns
    PROVE  End(c) \in Named /\ End(c).conn = c /\ End(c).n = 0
<1>1. c \in 0 .. MaxConns /\ fdOf[c] \in -1 .. fd_max /\ 0 \in 0 .. MaxFrames
  BY PortAssumption, FdAssumption DEF TableInv, TableTypes, Conns
<1> QED
  BY <1>1 DEF End, Named, Messages

\* Connections only come, with the descriptors they keep.
LEMMA ConnsGrow ==
    ASSUME TableInv, [Next]_vars
    PROVE  /\ Conns \subseteq Conns' /\ \A c \in Conns : fdOf'[c] = fdOf[c]
           /\ Named \subseteq Named'
<1>1. fdOf' = fdOf \/ \E fd \in 0 .. fd_max : fdOf' = Append(fdOf, fd)
  <2>1. CASE \E fd \in 0 .. fd_max : Accept(fd)
    BY <2>1 DEF Accept
  <2>2. CASE ReadBad \/ \E c \in open : Event(c)
    BY <2>2 DEF ReadBad, Event, Close
  <2>3. CASE UNCHANGED tableVars
    BY <2>3 DEF tableVars
  <2> QED
    BY <2>1, <2>2, <2>3 DEF Next, EventLoop, Logic, Reading, Sending, PeerSend, Readable,
       ReadStops, ReadFrame, GiveBack, Push, CloseAlloc, Tick, SendFree, TickDone,
       HandlePop, HandleFree, ReplyAlloc, NoReply, ReplyPush, vars
<1>2. fdOf \in Seq(0 .. fd_max)
  BY DEF TableInv, TableTypes
<1>3. Conns \subseteq Conns' /\ \A c \in Conns : fdOf'[c] = fdOf[c]
  <2>1. CASE fdOf' = fdOf
    BY <2>1 DEF Conns
  <2>2. CASE \E fd \in 0 .. fd_max : fdOf' = Append(fdOf, fd)
    BY <1>2, <2>2 DEF Conns
  <2> QED
    BY <1>1, <2>1, <2>2
<1>4. Named \subseteq Named'
  BY <1>3 DEF Named, Messages
<1> QED
  BY <1>3, <1>4

LEMMA PopFacts ==
    ASSUME NEW S, NEW q \in Seq(S), q # <<>>
    PROVE  /\ Head(q) \in S /\ Head(q) = q[1]
           /\ Tail(q) \in Seq(S) /\ Len(Tail(q)) = Len(q) - 1 /\ Len(q) \in Nat \ {0}
           /\ \A i \in 1 .. Len(Tail(q)) : i + 1 \in 1 .. Len(q) /\ Tail(q)[i] = q[i + 1]
OBVIOUS

LEMMA AppendFacts ==
    ASSUME NEW S, NEW q \in Seq(S), NEW m \in S
    PROVE  /\ Append(q, m) \in Seq(S) /\ Len(Append(q, m)) = Len(q) + 1 /\ Len(q) \in Nat
           /\ \A i \in 1 .. Len(Append(q, m)) :
                  Append(q, m)[i] = IF i = Len(q) + 1 THEN m ELSE q[i]
OBVIOUS

LEMMA InitMsg == Init => MsgInv
<1> SUFFICES ASSUME Init PROVE MsgInv
  OBVIOUS
<1>1. InputTypes
  BY PortAssumption DEF Init, InputTypes
<1>2. QueueTypes /\ IoHeld /\ LgHeld
  BY NoneIsMessage DEF Init, QueueTypes, IoHeld, LgHeld
<1> QED
  BY <1>1, <1>2 DEF MsgInv

LEMMA NextMsg == TableInv /\ MsgInv /\ [Next]_vars => MsgInv'
<1> SUFFICES ASSUME TableInv, MsgInv, [Next]_vars PROVE MsgInv'
  OBVIOUS
<1>1. Named \subseteq Named' /\ Named \subseteq Messages /\ Conns \subseteq Conns'
  BY ConnsGrow DEF Named
<1>2. q_recv \in Seq(Named') /\ q_send \in Seq(Named')
  BY <1>1 DEF MsgInv, QueueTypes
<1>3. UNCHANGED lgVars => LgHeld'
  BY <1>1 DEF MsgInv, LgHeld, lgVars
<1>4. UNCHANGED <<ioMsg, ioPc, cur>> => IoHeld'
  BY <1>1 DEF MsgInv, IoHeld
<1>5. UNCHANGED <<q_recv, q_send>> => QueueTypes'
  BY <1>2 DEF QueueTypes
<1>6. UNCHANGED <<port, input, fresh, nframes>> /\ open \subseteq open'
        /\ ioPc' \in {"loop", "read", "push", "closeAlloc", "closePush", "giveBack",
                      "send", "sendFree", "sendFreeStale"}
        /\ lgPc' \in {"loop", "handler", "reply", "replyPush", "free"} => InputTypes'
  BY DEF MsgInv, InputTypes
<1>7. open \subseteq Conns /\ Conns \subseteq AllConns
  BY PortAssumption DEF TableInv, TableTypes, Conns, AllConns
<1>8. ASSUME NEW c \in open, NEW bad \in BOOLEAN, PeerSend(c, bad) PROVE MsgInv'
  <2>1. /\ UNCHANGED <<port, ioPc, cur, ioMsg, q_recv, q_send, lgVars, open>>
        /\ nframes < MaxFrames /\ nframes' = nframes + 1 /\ fresh' = fresh \union {c}
        /\ input' = [input EXCEPT ![c] = Append(@, IF bad THEN Bad ELSE nframes')]
    BY <1>8 DEF PeerSend, ioVars, tableVars
  <2>2. nframes' \in 0 .. MaxFrames /\ 0 \in 0 .. MaxFrames
    BY <2>1, PortAssumption DEF MsgInv, InputTypes
  <2>3. input' \in [AllConns -> Seq(0 .. MaxFrames)]
    <3>1. c \in AllConns /\ input \in [AllConns -> Seq(0 .. MaxFrames)]
      BY <1>7 DEF MsgInv, InputTypes
    <3>2. Append(input[c], IF bad THEN Bad ELSE nframes') \in Seq(0 .. MaxFrames)
      BY <2>2, <3>1 DEF Bad
    <3> QED
      BY <2>1, <3>1, <3>2
  <2>4. InputTypes'
    BY <2>1, <2>2, <2>3 DEF MsgInv, InputTypes, lgVars
  <2> QED
    BY <1>3, <1>4, <1>5, <2>1, <2>4 DEF MsgInv
<1>9. ASSUME NEW fd \in 0 .. fd_max, Accept(fd) PROVE MsgInv'
  <2>1. /\ UNCHANGED <<port, input, fresh, ioPc, cur, ioMsg, q_recv, q_send, lgVars, nframes>>
        /\ open \subseteq open'
    BY <1>9 DEF Accept, ioVars
  <2>2. InputTypes'
    BY <2>1 DEF MsgInv, InputTypes, lgVars
  <2> QED
    BY <1>3, <1>4, <1>5, <2>1, <2>2 DEF MsgInv
<1>10. ASSUME NEW c \in open, Close(c), UNCHANGED <<port, nframes, q_recv, q_send, lgVars>>,
              ioPc' \in {"loop", "giveBack", "closeAlloc"}, ioMsg' \in Messages
       PROVE  MsgInv'
  <2>1. /\ open' = open \ {c} /\ fresh' = fresh \ {c} /\ input' = [input EXCEPT ![c] = <<>>]
    BY <1>10 DEF Close
  <2>2. InputTypes'
    BY <1>7, <1>10, <2>1 DEF MsgInv, InputTypes, lgVars
  <2>3. IoHeld'
    BY <1>10 DEF IoHeld
  <2> QED
    BY <1>3, <1>5, <1>10, <2>2, <2>3 DEF MsgInv
<1>11. CASE ReadBad
  <2>1. /\ cur \in open /\ Close(cur) /\ UNCHANGED <<port, nframes, q_recv, q_send, lgVars>>
        /\ ioPc' \in {"giveBack", "closeAlloc"} /\ ioMsg' \in {End(cur), ioMsg}
    BY <1>11 DEF ReadBad, TableInv, ReadsOpen
  <2>2. ioMsg' \in Messages
    BY <1>1, <1>7, <2>1, EndIsNamed DEF MsgInv, IoHeld
  <2> QED
    BY <1>10, <2>1, <2>2
<1>12. ASSUME NEW c \in open, Event(c) PROVE MsgInv'
  <2>1. /\ Close(c) /\ UNCHANGED <<port, nframes, q_recv, q_send, lgVars, ioMsg>>
        /\ ioPc' \in {"loop", "closeAlloc"}
    BY <1>12 DEF Event
  <2> QED
    BY <1>10, <2>1 DEF MsgInv, IoHeld
<1>13. ASSUME UNCHANGED <<port, tableVars, input, nframes, q_recv, lgVars>>,
              fresh' \subseteq fresh, ioMsg' \in Messages, QueueTypes',
              ioPc' \in {"loop", "read", "send", "sendFree", "sendFreeStale"}
       PROVE  MsgInv'
  <2>1. InputTypes'
    BY <1>13 DEF MsgInv, InputTypes, lgVars, tableVars
  <2>2. IoHeld'
    BY <1>13 DEF IoHeld
  <2> QED
    BY <1>3, <1>13, <2>1, <2>2 DEF MsgInv
<1>14. ASSUME NEW c \in open, Readable(c) PROVE MsgInv'
  BY <1>5, <1>13, <1>14 DEF Readable, MsgInv, IoHeld
<1>15. CASE ReadStops \/ GiveBack \/ SendFree \/ TickDone
  <2>1. /\ UNCHANGED <<port, tableVars, input, nframes, q_recv, q_send, lgVars, fresh>>
        /\ ioMsg' \in {None, ioMsg} /\ ioPc' \in {"loop", "send"}
    BY <1>15 DEF ReadStops, GiveBack, SendFree, TickDone
  <2>2. ioMsg' \in Messages
    BY <2>1, NoneIsMessage DEF MsgInv, IoHeld
  <2> QED
    BY <1>5, <1>13, <2>1, <2>2
<1>16. CASE Tick
  <2>1. /\ UNCHANGED <<port, tableVars, input, nframes, q_recv, lgVars, fresh>>
        /\ ioMsg' = Head(q_send) /\ ioPc' \in {"sendFree", "sendFreeStale"}
        /\ q_send # <<>> /\ q_send' = Tail(q_send)
    BY <1>16 DEF Tick
  <2>2. Head(q_send) \in Named /\ Tail(q_send) \in Seq(Named')
    <3>1. q_send \in Seq(Named)
      BY DEF MsgInv, QueueTypes
    <3> QED
      BY <1>2, <2>1, <3>1, PopFacts
  <2>3. QueueTypes'
    BY <1>2, <2>1, <2>2 DEF QueueTypes
  <2> QED
    BY <1>1, <1>13, <2>1, <2>2, <2>3
<1>17. CASE ReadFrame
  <2>1. /\ ioPc = "read" /\ input[cur] # <<>> /\ Head(input[cur]) # 0
        /\ ioMsg' = [fd |-> fdOf[cur], conn |-> cur, n |-> Head(input[cur])]
        /\ input' = [input EXCEPT ![cur] = Tail(@)] /\ ioPc' = "push" /\ cur' = cur
        /\ UNCHANGED <<port, tableVars, fresh, q_recv, q_send, lgVars, nframes>>
    BY <1>17 DEF ReadFrame, Bad
  <2>2. cur \in open /\ cur \in Conns /\ cur \in AllConns
    BY <1>7, <2>1 DEF TableInv, ReadsOpen
  <2>3. input[cur] \in Seq(0 .. MaxFrames) /\ input \in [AllConns -> Seq(0 .. MaxFrames)]
    BY <2>2 DEF MsgInv, InputTypes
  <2>4. Head(input[cur]) \in 0 .. MaxFrames /\ Tail(input[cur]) \in Seq(0 .. MaxFrames)
    BY <2>1, <2>3, PopFacts
  <2>5. InputTypes'
    <3>1. input' \in [AllConns -> Seq(0 .. MaxFrames)]
      BY <2>1, <2>2, <2>3, <2>4
    <3> QED
      BY <2>1, <3>1 DEF MsgInv, InputTypes, lgVars, tableVars
  <2>6. ioMsg' \in Named /\ ioMsg'.conn = cur /\ ioMsg'.n # 0
    <3>1. fdOf[cur] \in -1 .. fd_max /\ cur \in 0 .. MaxConns
      BY <2>2, PortAssumption, FdAssumption DEF TableInv, TableTypes, Conns
    <3> QED
      BY <2>1, <2>2, <2>4, <3>1 DEF Named, Messages
  <2>7. IoHeld'
    BY <1>1, <2>1, <2>6 DEF IoHeld
  <2> QED
    BY <1>3, <1>5, <2>1, <2>5, <2>7 DEF MsgInv
<1>18. CASE Push
  <2>1. /\ UNCHANGED <<port, tableVars, input, fresh, q_send, lgVars, nframes>>
        /\ ioPc \in {"push", "closePush"} /\ ioMsg' = None /\ ioPc' \in {"read", "loop"}
        /\ q_recv' = q_recv \/ q_recv' = Append(q_recv, ioMsg)
    BY <1>18 DEF Push
  <2>2. ioMsg \in Named'
    BY <1>1, <2>1 DEF MsgInv, IoHeld
  <2>3. QueueTypes'
    <3>1. q_recv \in Seq(Named') /\ q_send \in Seq(Named')
      BY <1>2, <2>1 DEF QueueTypes
    <3>2. Append(q_recv, ioMsg) \in Seq(Named')
      BY <2>2, <3>1, AppendFacts
    <3> QED
      BY <2>1, <3>1, <3>2 DEF QueueTypes
  <2>4. InputTypes'
    BY <1>6, <2>1 DEF tableVars, lgVars, MsgInv, InputTypes
  <2>5. IoHeld'
    BY <2>1, NoneIsMessage DEF IoHeld
  <2> QED
    BY <1>3, <2>1, <2>3, <2>4, <2>5 DEF MsgInv
<1>19. CASE CloseAlloc
  <2>1. /\ UNCHANGED <<port, tableVars, input, fresh, q_recv, q_send, lgVars, nframes>>
        /\ \/ ioPc' = "loop" /\ ioMsg' = ioMsg
           \/ ioPc' = "closePush" /\ ioMsg' = End(cur) /\ cur' = cur
        /\ cur \in Conns
    BY <1>19 DEF CloseAlloc, TableInv, ReadsOpen
  <2>2. InputTypes'
    BY <1>6, <2>1 DEF tableVars, lgVars, MsgInv, InputTypes
  <2>3. IoHeld'
    BY <1>1, <2>1, EndIsNamed DEF MsgInv, IoHeld
  <2> QED
    BY <1>3, <1>5, <2>1, <2>2, <2>3 DEF MsgInv
<1>20. ASSUME UNCHANGED <<port, tableVars, input, fresh, ioVars, nframes>>, QueueTypes', LgHeld',
              lgPc' \in {"loop", "handler", "reply", "replyPush", "free"}
       PROVE  MsgInv'
  <2>1. InputTypes'
    BY <1>6, <1>20 DEF tableVars, ioVars, MsgInv, InputTypes
  <2> QED
    BY <1>4, <1>20, <2>1 DEF MsgInv, ioVars
<1>21. CASE HandlePop
  <2>1. /\ UNCHANGED <<port, tableVars, input, fresh, ioVars, nframes, q_send, lgOut>>
        /\ q_recv # <<>> /\ q_recv' = Tail(q_recv) /\ lgMsg' = Head(q_recv) /\ lgPc' = "handler"
    BY <1>21 DEF HandlePop
  <2>2. Head(q_recv) \in Named /\ Tail(q_recv) \in Seq(Named')
    <3>1. q_recv \in Seq(Named)
      BY DEF MsgInv, QueueTypes
    <3> QED
      BY <1>2, <2>1, <3>1, PopFacts
  <2>3. QueueTypes' /\ LgHeld'
    BY <1>1, <1>2, <2>1, <2>2 DEF QueueTypes, LgHeld, MsgInv
  <2> QED
    BY <1>20, <2>1, <2>3
<1>22. CASE HandleFree \/ ReplyAlloc \/ NoReply
  <2>1. /\ UNCHANGED <<port, tableVars, input, fresh, ioVars, nframes, q_recv, q_send>>
        /\ lgPc \in {"handler", "free", "reply"}
        /\ \/ lgPc' = "loop" /\ lgMsg' \in {None, lgMsg} /\ lgOut' = lgOut
           \/ lgPc' = "reply" /\ lgMsg' = lgMsg /\ lgOut' = lgOut
           \/ lgPc' = "replyPush" /\ lgMsg' = lgMsg /\ lgOut' = lgMsg
    BY <1>22 DEF HandleFree, ReplyAlloc, NoReply
  <2>2. LgHeld'
    BY <1>1, <2>1, NoneIsMessage DEF MsgInv, LgHeld
  <2> QED
    BY <1>5, <1>20, <2>1, <2>2
<1>23. CASE ReplyPush
  <2>1. /\ UNCHANGED <<port, tableVars, input, fresh, ioVars, nframes, q_recv>>
        /\ lgPc = "replyPush" /\ lgOut' = None
        /\ (lgPc' = "loop" /\ lgMsg' = None) \/ (lgPc' = "free" /\ lgMsg' = lgMsg)
        /\ q_send' = q_send \/ q_send' = Append(q_send, lgOut)
    BY <1>23 DEF ReplyPush
  <2>2. lgOut \in Named' /\ lgMsg \in Named'
    BY <1>1, <2>1 DEF MsgInv, LgHeld
  <2>3. QueueTypes'
    BY <1>2, <2>1, <2>2, AppendFacts, SMTT(30) DEF QueueTypes
  <2>4. LgHeld'
    BY <1>1, <2>1, <2>2, NoneIsMessage DEF LgHeld, MsgInv
  <2> QED
    BY <1>20, <2>1, <2>3, <2>4
<1>24. CASE UNCHANGED vars
  BY <1>5, <1>20, <1>24, <1>3 DEF vars, lgVars, MsgInv, InputTypes
<1> QED
  BY <1>8, <1>9, <1>11, <1>12, <1>14, <1>15, <1>16, <1>17, <1>18, <1>19, <1>21, <1>22, <1>23, <1>24
     DEF Next, EventLoop, Reading, Sending, Logic

-----------------------------------------------------------------------------
(* Blocks *)

\* The blocks each thread has in hand: of the messages it reads and writes.
Reads == IF ioPc \in {"push", "closePush", "giveBack"} THEN 1 ELSE 0
Sends == IF ioPc \in {"sendFree", "sendFreeStale"} THEN 1 ELSE 0
Asks == IF lgPc \in {"handler", "free"} THEN 1 ELSE 0
Replies == IF lgPc = "replyPush" THEN 1 ELSE 0

\* Where the others are.
FreeRecv == free["recv"]
FreeSend == free["send"]
InRecv == Len(q_recv)
InSend == Len(q_send)

\* The admin port has a pool for each direction, and rings that hold a whole one.
AdminCount ==
    /\ FreeRecv + InRecv + Reads + Asks + lost = Cap
    /\ FreeSend + InSend + Sends + Replies = Cap
    /\ lost = 0

\* The world has one: its script holds the request while it sends the answer.
WorldCount ==
    /\ FreeRecv + InRecv + InSend + Reads + Sends + Asks + Replies + Replies + lost = Cap
    /\ FreeSend = Cap
    /\ lost <= 1

BlocksInv ==
    /\ free \in [{"recv", "send"} -> Nat] /\ lost \in Nat
    /\ port = "admin" => AdminCount
    /\ port = "world" => WorldCount

LEMMA CountsAgree ==
    ASSUME MsgInv, BlocksInv
    PROVE  BlocksConserved /\ free \in [{"recv", "send"} -> 0 .. Cap]
<1>1. /\ Reads \in Nat /\ Sends \in Nat /\ Asks \in Nat /\ Replies \in Nat
      /\ InRecv \in Nat /\ InSend \in Nat /\ FreeRecv \in Nat /\ FreeSend \in Nat /\ lost \in Nat /\ Cap \in Nat
  BY PortAssumption DEF Reads, Sends, Asks, Replies, FreeRecv, FreeSend, InRecv, InSend,
                        MsgInv, QueueTypes, BlocksInv
<1>2. CASE port = "admin"
  <2>1. /\ Queued("recv") = InRecv /\ Queued("send") = InSend
        /\ InHand("recv") = Reads + Asks /\ InHand("send") = Sends + Replies
    BY <1>1, <1>2 DEF Queued, InHand, SendPool, InRecv, InSend, Reads, Sends, Asks, Replies
  <2>2. AdminCount
    BY <1>2 DEF BlocksInv
  <2>3. /\ FreeRecv + Queued("recv") + InHand("recv") + lost = Cap
        /\ FreeSend + Queued("send") + InHand("send") + 0 = Cap
        /\ lost <= 0 /\ FreeRecv \in 0 .. Cap /\ FreeSend \in 0 .. Cap
    BY <1>1, <2>1, <2>2 DEF AdminCount
  <2> QED
    BY <1>2, <2>3 DEF BlocksConserved, BlocksInv, FreeRecv, FreeSend
<1>3. CASE port = "world"
  <2>1. /\ Queued("recv") = InRecv + InSend /\ Queued("send") = 0
        /\ InHand("recv") = Reads + Sends + Asks + Replies + Replies /\ InHand("send") = 0
    BY <1>1, <1>3 DEF Queued, InHand, SendPool, InRecv, InSend, Reads, Sends, Asks, Replies
  <2>2. WorldCount
    BY <1>3 DEF BlocksInv
  <2>3. /\ FreeRecv + Queued("recv") + InHand("recv") + lost = Cap
        /\ FreeSend + Queued("send") + InHand("send") + 0 = Cap
        /\ lost <= 1 /\ FreeRecv \in 0 .. Cap /\ FreeSend \in 0 .. Cap
    BY <1>1, <2>1, <2>2 DEF WorldCount
  <2> QED
    BY <1>3, <2>3 DEF BlocksConserved, BlocksInv, FreeRecv, FreeSend
<1> QED
  BY <1>2, <1>3 DEF MsgInv, InputTypes

LEMMA TakeFacts ==
    ASSUME free \in [{"recv", "send"} -> Nat], NEW p \in {"recv", "send"}, Take(p)
    PROVE  /\ free' \in [{"recv", "send"} -> Nat] /\ free'[p] = free[p] - 1
           /\ \A o \in {"recv", "send"} : o # p => free'[o] = free[o]
BY DEF Take

LEMMA GiveFacts ==
    ASSUME free \in [{"recv", "send"} -> Nat], NEW p \in {"recv", "send"}, Give(p)
    PROVE  /\ free' \in [{"recv", "send"} -> Nat] /\ free'[p] = free[p] + 1
           /\ \A o \in {"recv", "send"} : o # p => free'[o] = free[o]
BY DEF Give

LEMMA InitBlocks == Init => BlocksInv
<1> SUFFICES ASSUME Init PROVE BlocksInv
  OBVIOUS
<1>1. /\ FreeRecv = Cap /\ FreeSend = Cap /\ InRecv = 0 /\ InSend = 0
      /\ Reads = 0 /\ Sends = 0 /\ Asks = 0 /\ Replies = 0 /\ lost = 0 /\ Cap \in Nat
  BY PortAssumption DEF Init, Reads, Sends, Asks, Replies, FreeRecv, FreeSend, InRecv, InSend
<1>2. free \in [{"recv", "send"} -> Nat]
  BY PortAssumption DEF Init
<1> QED
  BY <1>1, <1>2 DEF BlocksInv, AdminCount, WorldCount

LEMMA NextBlocks == MsgInv /\ BlocksInv /\ [Next]_vars => BlocksInv'
<1> SUFFICES ASSUME MsgInv, BlocksInv, [Next]_vars PROVE BlocksInv'
  OBVIOUS
<1>0. /\ Reads \in Nat /\ Sends \in Nat /\ Asks \in Nat /\ Replies \in Nat
      /\ InRecv \in Nat /\ InSend \in Nat /\ FreeRecv \in Nat /\ FreeSend \in Nat /\ lost \in Nat
      /\ Cap \in Nat \ {0} /\ free \in [{"recv", "send"} -> Nat]
  BY PortAssumption DEF Reads, Sends, Asks, Replies, FreeRecv, FreeSend, InRecv, InSend,
                        MsgInv, QueueTypes, BlocksInv
<1>18. /\ UNCHANGED free => UNCHANGED FreeRecv /\ UNCHANGED FreeSend
       /\ UNCHANGED q_recv => UNCHANGED InRecv
       /\ UNCHANGED q_send => UNCHANGED InSend
  BY DEF FreeRecv, FreeSend, InRecv, InSend
<1>1. SendPool = (IF port = "admin" THEN "send" ELSE "recv") /\ SendPool \in {"recv", "send"}
      /\ port \in {"admin", "world"}
  BY DEF SendPool, MsgInv, InputTypes
<1>2. ASSUME NEW q \in Seq(Named), q # <<>> PROVE Len(Tail(q)) = Len(q) - 1
  BY <1>2, PopFacts
<1>3. ASSUME NEW q \in Seq(Named), NEW m \in Named PROVE Len(Append(q, m)) = Len(q) + 1
  BY <1>3, AppendFacts
<1>4. q_recv \in Seq(Named) /\ q_send \in Seq(Named)
  BY DEF MsgInv, QueueTypes
<1>5. CASE \/ UNCHANGED vars \/ (\E c \in open, bad \in BOOLEAN : PeerSend(c, bad))
           \/ (\E fd \in 0 .. fd_max : Accept(fd))
           \/ (\E c \in open : Readable(c) \/ Event(c))
           \/ ReadStops \/ TickDone \/ NoReply
  <2>1. /\ UNCHANGED <<port, free, lost, q_recv, q_send>>
        /\ Reads' = Reads /\ Sends' = Sends /\ Asks' = Asks /\ Replies' = Replies
    BY <1>5 DEF vars, PeerSend, Accept, Readable, Event, ReadStops, TickDone, NoReply, history,
                ioVars, lgVars, Reads, Sends, Asks, Replies
  <2> QED
    BY <1>18, <2>1 DEF BlocksInv, AdminCount, WorldCount
<1>6. CASE ReadBad
  <2>1. UNCHANGED <<port, lost, q_recv, q_send, lgPc>> /\ ioPc = "read"
    BY <1>6 DEF ReadBad, history, lgVars
  <2>2. CASE port = "admin"
    <3>1. Take("recv") /\ ioPc' = "giveBack"
      BY <1>6, <2>2 DEF ReadBad
    <3>2. /\ Reads = 0 /\ Reads' = 1 /\ Sends' = Sends /\ Asks' = Asks /\ Replies' = Replies
      BY <2>1, <3>1 DEF Reads, Sends, Asks, Replies
    <3>3. FreeRecv' = FreeRecv - 1 /\ FreeSend' = FreeSend /\ free' \in [{"recv", "send"} -> Nat]
      BY <1>0, <3>1, TakeFacts DEF FreeRecv, FreeSend
    <3>4. AdminCount
      BY <2>2 DEF BlocksInv
    <3> QED
      BY <1>18, <1>0, <2>1, <2>2, <3>2, <3>3, <3>4 DEF BlocksInv, AdminCount
  <2>3. CASE port # "admin"
    <3>1. UNCHANGED free /\ ioPc' = "closeAlloc"
      BY <1>6, <2>3 DEF ReadBad
    <3>2. /\ Reads' = Reads /\ Sends' = Sends /\ Asks' = Asks /\ Replies' = Replies
      BY <2>1, <3>1 DEF Reads, Sends, Asks, Replies
    <3> QED
      BY <1>18, <2>1, <3>1, <3>2 DEF BlocksInv, AdminCount, WorldCount
  <2> QED
    BY <2>2, <2>3
<1>7. CASE GiveBack
  <2>1. /\ UNCHANGED <<port, lost, q_recv, q_send, lgPc>> /\ ioPc = "giveBack" /\ ioPc' = "loop"
        /\ Give("recv")
    BY <1>7 DEF GiveBack, history, lgVars
  <2>2. /\ Reads = 1 /\ Reads' = 0 /\ Sends' = Sends /\ Asks' = Asks /\ Replies' = Replies
    BY <2>1 DEF Reads, Sends, Asks, Replies
  <2>3. FreeRecv' = FreeRecv + 1 /\ FreeSend' = FreeSend /\ free' \in [{"recv", "send"} -> Nat]
    BY <1>0, <2>1, GiveFacts DEF FreeRecv, FreeSend
  <2> QED
    BY <1>18, <1>0, <2>1, <2>2, <2>3 DEF BlocksInv, AdminCount, WorldCount
<1>8. ASSUME UNCHANGED <<port, lost, q_recv, q_send, lgPc>>, Take("recv"),
             ioPc \in {"read", "closeAlloc"}, ioPc' \in {"push", "closePush"}
      PROVE  BlocksInv'
  <2>2. /\ Reads = 0 /\ Reads' = 1 /\ Sends' = Sends /\ Asks' = Asks /\ Replies' = Replies
    BY <1>8 DEF Reads, Sends, Asks, Replies
  <2>3. FreeRecv' = FreeRecv - 1 /\ FreeSend' = FreeSend /\ free' \in [{"recv", "send"} -> Nat]
    BY <1>0, <1>8, TakeFacts DEF FreeRecv, FreeSend
  <2> QED
    BY <1>18, <1>0, <1>8, <2>2, <2>3 DEF BlocksInv, AdminCount, WorldCount
<1>9. CASE ReadFrame
  BY <1>8, <1>9 DEF ReadFrame, history, lgVars
<1>10. CASE CloseAlloc
  <2>1. UNCHANGED <<port, lost, q_recv, q_send, lgPc>> /\ ioPc = "closeAlloc"
    BY <1>10 DEF CloseAlloc, lgVars
  <2>2. CASE free["recv"] = 0
    <3>1. UNCHANGED free /\ ioPc' = "loop"
      BY <1>10, <2>2 DEF CloseAlloc
    <3>2. /\ Reads' = Reads /\ Sends' = Sends /\ Asks' = Asks /\ Replies' = Replies
      BY <2>1, <3>1 DEF Reads, Sends, Asks, Replies
    <3> QED
      BY <1>18, <2>1, <3>1, <3>2 DEF BlocksInv, AdminCount, WorldCount
  <2>3. CASE free["recv"] # 0
    BY <1>8, <1>10, <2>1, <2>3 DEF CloseAlloc
  <2> QED
    BY <2>2, <2>3
<1>11. CASE Push
  <2>1. /\ UNCHANGED <<port, free, q_send, lgPc>> /\ ioPc \in {"push", "closePush"}
        /\ ioPc' \in {"read", "loop"} /\ ioMsg \in Named
    BY <1>11 DEF Push, lgVars, MsgInv, IoHeld
  <2>2. /\ Reads = 1 /\ Reads' = 0 /\ Sends' = Sends /\ Asks' = Asks /\ Replies' = Replies
    BY <2>1 DEF Reads, Sends, Asks, Replies
  <2>3. CASE Len(q_recv) < Room
    <3>1. InRecv' = InRecv + 1 /\ lost' = lost
      <4>1. q_recv' = Append(q_recv, ioMsg) /\ lost' = lost
        BY <1>11, <2>3 DEF Push
      <4> QED
        BY <1>3, <1>4, <2>1, <4>1 DEF InRecv, InSend
    <3> QED
      BY <1>18, <1>0, <2>1, <2>2, <3>1 DEF BlocksInv, AdminCount, WorldCount
  <2>4. CASE ~(Len(q_recv) < Room)
    <3>1. InRecv' = InRecv /\ lost' = lost + 1
      BY <1>11, <2>4 DEF Push, InRecv
    <3>2. CASE port = "admin"
      <4>1. AdminCount /\ InRecv >= Cap
        BY <1>0, <2>4, <3>2 DEF BlocksInv, Room, InRecv, InSend
      <4> QED
        BY <1>0, <2>2, <4>1 DEF AdminCount
    <3>3. CASE port # "admin"
      <4>1. WorldCount /\ InRecv >= Cap - 1
        BY <1>0, <1>1, <2>4, <3>3 DEF BlocksInv, Room, InRecv, InSend
      <4>2. lost = 0
        BY <1>18, <1>0, <2>2, <4>1 DEF WorldCount
      <4>3. WorldCount'
        BY <1>18, <1>0, <2>1, <2>2, <3>1, <4>1, <4>2 DEF WorldCount
      <4> QED
        BY <1>0, <2>1, <3>1, <3>3, <4>3 DEF BlocksInv
    <3> QED
      BY <3>2, <3>3
  <2> QED
    BY <2>3, <2>4
<1>12. CASE Tick
  <2>1. /\ UNCHANGED <<port, free, lost, q_recv, lgPc>> /\ ioPc \in {"loop", "send"}
        /\ ioPc' \in {"sendFree", "sendFreeStale"} /\ q_send # <<>> /\ q_send' = Tail(q_send)
    BY <1>12 DEF Tick, lgVars
  <2>2. /\ Sends = 0 /\ Sends' = 1 /\ Reads' = Reads /\ Asks' = Asks /\ Replies' = Replies
    BY <2>1 DEF Reads, Sends, Asks, Replies
  <2>3. InSend' = InSend - 1
    BY <1>2, <1>4, <2>1 DEF InRecv, InSend
  <2> QED
    BY <1>18, <1>0, <2>1, <2>2, <2>3 DEF BlocksInv, AdminCount, WorldCount
<1>13. CASE SendFree
  <2>1. /\ UNCHANGED <<port, lost, q_recv, q_send, lgPc>> /\ ioPc \in {"sendFree", "sendFreeStale"}
        /\ ioPc' \in {"send", "loop"} /\ Give(SendPool)
    BY <1>13 DEF SendFree, lgVars, history
  <2>2. /\ Sends = 1 /\ Sends' = 0 /\ Reads' = Reads /\ Asks' = Asks /\ Replies' = Replies
    BY <2>1 DEF Reads, Sends, Asks, Replies
  <2>3. /\ free' \in [{"recv", "send"} -> Nat]
        /\ port = "admin" => FreeRecv' = FreeRecv /\ FreeSend' = FreeSend + 1
        /\ port = "world" => FreeRecv' = FreeRecv + 1 /\ FreeSend' = FreeSend
    BY <1>0, <1>1, <2>1, GiveFacts DEF FreeRecv, FreeSend
  <2> QED
    BY <1>18, <1>0, <1>1, <2>1, <2>2, <2>3 DEF BlocksInv, AdminCount, WorldCount
<1>14. CASE HandlePop
  <2>1. /\ UNCHANGED <<port, free, lost, q_send, ioPc>> /\ lgPc = "loop" /\ lgPc' = "handler"
        /\ q_recv # <<>> /\ q_recv' = Tail(q_recv)
    BY <1>14 DEF HandlePop, ioVars
  <2>2. /\ Asks = 0 /\ Asks' = 1 /\ Reads' = Reads /\ Sends' = Sends /\ Replies' = Replies
    BY <2>1 DEF Reads, Sends, Asks, Replies
  <2>3. InRecv' = InRecv - 1
    BY <1>2, <1>4, <2>1 DEF InRecv, InSend
  <2> QED
    BY <1>18, <1>0, <2>1, <2>2, <2>3 DEF BlocksInv, AdminCount, WorldCount
<1>15. CASE HandleFree
  <2>1. /\ UNCHANGED <<port, lost, q_recv, q_send, ioPc>> /\ lgPc \in {"handler", "free"}
        /\ lgPc' \in {"reply", "loop"} /\ Give("recv")
    BY <1>15 DEF HandleFree, ioVars, history
  <2>2. /\ Asks = 1 /\ Asks' = 0 /\ Reads' = Reads /\ Sends' = Sends /\ Replies' = Replies
    BY <2>1 DEF Reads, Sends, Asks, Replies
  <2>3. FreeRecv' = FreeRecv + 1 /\ FreeSend' = FreeSend /\ free' \in [{"recv", "send"} -> Nat]
    BY <1>0, <2>1, GiveFacts DEF FreeRecv, FreeSend
  <2> QED
    BY <1>18, <1>0, <2>1, <2>2, <2>3 DEF BlocksInv, AdminCount, WorldCount
<1>16. CASE ReplyAlloc
  <2>1. /\ UNCHANGED <<port, lost, q_recv, q_send, ioPc>> /\ lgPc' = "replyPush" /\ Take(SendPool)
        /\ (port = "admin" /\ lgPc = "reply") \/ (port = "world" /\ lgPc = "handler")
    BY <1>16 DEF ReplyAlloc, ioVars, history
  <2>2. /\ Replies = 0 /\ Replies' = 1 /\ Asks' = 0 /\ Reads' = Reads /\ Sends' = Sends
        /\ Asks = IF port = "admin" THEN 0 ELSE 1
    BY <1>1, <2>1 DEF Reads, Sends, Asks, Replies
  <2>3. /\ free' \in [{"recv", "send"} -> Nat]
        /\ port = "admin" => FreeRecv' = FreeRecv /\ FreeSend' = FreeSend - 1
        /\ port = "world" => FreeRecv' = FreeRecv - 1 /\ FreeSend' = FreeSend
    BY <1>0, <1>1, <2>1, TakeFacts DEF FreeRecv, FreeSend
  <2> QED
    BY <1>18, <1>0, <1>1, <2>1, <2>2, <2>3 DEF BlocksInv, AdminCount, WorldCount
<1>17. CASE ReplyPush
  <2>1. /\ UNCHANGED <<port, free, q_recv, ioPc>> /\ lgPc = "replyPush" /\ lgOut \in Named
        /\ lgPc' = IF port = "admin" THEN "loop" ELSE "free"
    BY <1>17 DEF ReplyPush, ioVars, MsgInv, LgHeld
  <2>2. /\ Replies = 1 /\ Replies' = 0 /\ Asks = 0 /\ Reads' = Reads /\ Sends' = Sends
        /\ Asks' = IF port = "admin" THEN 0 ELSE 1
    BY <1>1, <2>1 DEF Reads, Sends, Asks, Replies
  <2>3. CASE Len(q_send) < Room
    <3>1. InSend' = InSend + 1 /\ lost' = lost
      <4>1. q_send' = Append(q_send, lgOut) /\ lost' = lost
        BY <1>17, <2>3 DEF ReplyPush
      <4> QED
        BY <1>3, <1>4, <2>1, <4>1 DEF InRecv, InSend
    <3> QED
      BY <1>18, <1>0, <1>1, <2>1, <2>2, <3>1 DEF BlocksInv, AdminCount, WorldCount
  <2>4. CASE ~(Len(q_send) < Room)
    <3>1. CASE port = "admin"
      <4>1. AdminCount /\ InSend >= Cap
        BY <1>0, <2>4, <3>1 DEF BlocksInv, Room, InRecv, InSend
      <4> QED
        BY <1>0, <2>2, <4>1 DEF AdminCount
    <3>2. CASE port # "admin"
      <4>1. WorldCount /\ InSend >= Cap - 1
        BY <1>0, <1>1, <2>4, <3>2 DEF BlocksInv, Room, InRecv, InSend
      <4> QED
        BY <1>18, <1>0, <2>2, <4>1 DEF WorldCount
    <3> QED
      BY <3>1, <3>2
  <2> QED
    BY <2>3, <2>4
<1> QED
  BY <1>5, <1>6, <1>7, <1>9, <1>10, <1>11, <1>12, <1>13, <1>14, <1>15, <1>16, <1>17
     DEF Next, EventLoop, Reading, Sending, Logic

-----------------------------------------------------------------------------
(* Answers *)

Requests == {m \in Named : m.n # 0}

(***************************************************************************)
(* Only requests are answered: the news that a connection has ended is of  *)
(* the world alone, whose script answers none to it.                       *)
(***************************************************************************)
AnswerTypes ==
    /\ q_send \in Seq(Requests)
    /\ wrote \in [AllConns -> Seq(Requests)]
    /\ lgPc \in {"reply", "replyPush"} => lgMsg.n # 0
    /\ port = "admin" =>
           /\ q_recv \in Seq(Requests) /\ ioPc \notin {"closeAlloc", "closePush"}
           /\ lgPc # "free" /\ (lgPc = "handler" => lgMsg.n # 0)

\* An answer that another connection got is for one that has closed.
StrayConn ==
    \A c \in AllConns : \A i \in 1 .. Len(wrote[c]) :
        wrote[c][i].conn # c => wrote[c][i].conn \notin open

AnswerInv == AnswerTypes /\ StrayConn

LEMMA InitAnswer == Init => AnswerInv
<1> SUFFICES ASSUME Init PROVE AnswerInv
  OBVIOUS
<1>1. /\ q_send = <<>> /\ q_recv = <<>> /\ wrote = [c \in AllConns |-> <<>>]
      /\ lgPc = "loop" /\ ioPc = "loop"
  BY DEF Init
<1> QED
  BY <1>1 DEF AnswerInv, AnswerTypes, StrayConn

\* Connections that are open were so before, or are new.
LEMMA OpenIsOld ==
    ASSUME TableInv, [Next]_vars
    PROVE  open' \intersect Conns \subseteq open
<1>1. fdOf \in Seq(0 .. fd_max)
  BY DEF TableInv, TableTypes
<1>2. CASE \E fd \in 0 .. fd_max : Accept(fd)
  <2>1. PICK fd \in 0 .. fd_max : Accept(fd)
    BY <1>2
  <2>2. Len(fdOf') = Len(fdOf) + 1 /\ open' \subseteq open \union {Len(fdOf')}
    BY <1>1, <2>1 DEF Accept
  <2> QED
    BY <1>1, <2>2 DEF Conns
<1>3. CASE ReadBad \/ \E c \in open : Event(c)
  BY <1>3 DEF ReadBad, Event, Close
<1>4. CASE UNCHANGED tableVars
  BY <1>4 DEF tableVars
<1> QED
  BY <1>2, <1>3, <1>4 DEF Next, EventLoop, Logic, Reading, Sending, PeerSend, Readable,
     ReadStops, ReadFrame, GiveBack, Push, CloseAlloc, Tick, SendFree, TickDone,
     HandlePop, HandleFree, ReplyAlloc, NoReply, ReplyPush, vars

\* What is written stays, but for the answer that the timer writes.
LEMMA WroteKept ==
    ASSUME [Next]_vars
    PROVE  Tick \/ UNCHANGED wrote
BY DEF Next, EventLoop, Logic, Reading, Sending, PeerSend, Accept, Readable, Event,
   ReadStops, ReadBad, ReadFrame, GiveBack, Push, CloseAlloc, SendFree, TickDone,
   HandlePop, HandleFree, ReplyAlloc, NoReply, ReplyPush, vars, history

LEMMA NextAnswer == TableInv /\ MsgInv /\ AnswerInv /\ [Next]_vars => AnswerInv'
<1> SUFFICES ASSUME TableInv, MsgInv, AnswerInv, [Next]_vars PROVE AnswerInv'
  OBVIOUS
<1>1. Named \subseteq Named' /\ Requests \subseteq Requests' /\ Conns \subseteq Conns'
  BY ConnsGrow DEF Requests
<1>2. /\ q_send \in Seq(Requests) /\ q_send \in Seq(Requests')
      /\ wrote \in [AllConns -> Seq(Requests)] /\ wrote \in [AllConns -> Seq(Requests')]
      /\ port = "admin" => q_recv \in Seq(Requests) /\ q_recv \in Seq(Requests')
  BY <1>1 DEF AnswerInv, AnswerTypes
<1>3. \A m \in Requests : m.conn \in Conns /\ m \in Named /\ m.n # 0
  BY DEF Requests, Named
<1>4. ASSUME UNCHANGED wrote PROVE StrayConn'
  <2> SUFFICES ASSUME NEW c \in AllConns, NEW i \in 1 .. Len(wrote[c]),
                      wrote[c][i].conn # c
               PROVE  wrote[c][i].conn \notin open'
    BY <1>4 DEF StrayConn
  <2>1. wrote[c][i] \in Requests
    BY <1>2
  <2>2. wrote[c][i].conn \notin open
    BY DEF AnswerInv, StrayConn
  <2> QED
    BY <1>3, <2>1, <2>2, OpenIsOld
<1>5. ASSUME q_send' \in Seq(Requests'), UNCHANGED wrote, UNCHANGED port,
             lgPc' \in {"reply", "replyPush"} => lgMsg'.n # 0,
             port = "admin" =>
                 /\ q_recv' \in Seq(Requests') /\ ioPc' \notin {"closeAlloc", "closePush"}
                 /\ lgPc' # "free" /\ (lgPc' = "handler" => lgMsg'.n # 0)
      PROVE  AnswerInv'
  BY <1>2, <1>4, <1>5 DEF AnswerInv, AnswerTypes
<1>6. CASE \/ UNCHANGED vars \/ (\E c \in open, bad \in BOOLEAN : PeerSend(c, bad))
           \/ (\E fd \in 0 .. fd_max : Accept(fd))
           \/ (\E c \in open : Readable(c) \/ Event(c))
           \/ ReadStops \/ TickDone \/ GiveBack \/ ReadFrame \/ ReadBad \/ SendFree
           \/ CloseAlloc
  <2>1. UNCHANGED <<port, q_recv, q_send, lgPc, lgMsg, wrote>>
    BY <1>6 DEF vars, PeerSend, Accept, Readable, Event, ReadStops, TickDone, GiveBack,
                ReadFrame, ReadBad, SendFree, CloseAlloc, history, lgVars
  <2>2. port = "admin" => ioPc' \notin {"closeAlloc", "closePush"}
    <3>1. port = "admin" => ioPc \notin {"closeAlloc", "closePush"}
      BY DEF AnswerInv, AnswerTypes
    <3> QED
      BY <1>6, <3>1 DEF vars, PeerSend, Accept, Readable, Event, ReadStops, TickDone,
            GiveBack, ReadFrame, ReadBad, SendFree, CloseAlloc, ioVars
  <2> QED
    BY <1>2, <1>5, <2>1, <2>2 DEF AnswerInv, AnswerTypes
<1>7. CASE Push
  <2>1. /\ UNCHANGED <<port, q_send, lgPc, lgMsg, wrote>> /\ ioPc \in {"push", "closePush"}
        /\ ioPc' \in {"loop", "read"} /\ (q_recv' = q_recv \/ q_recv' = Append(q_recv, ioMsg))
    BY <1>7 DEF Push, lgVars
  <2>2. port = "admin" => ioMsg \in Requests'
    BY <1>1, <2>1 DEF AnswerInv, AnswerTypes, MsgInv, IoHeld, Requests
  <2>3. port = "admin" => q_recv' \in Seq(Requests')
    BY <1>2, <2>1, <2>2, AppendFacts
  <2> QED
    BY <1>2, <1>5, <2>1, <2>3 DEF AnswerInv, AnswerTypes
<1>8. CASE HandlePop
  <2>1. /\ UNCHANGED <<port, q_send, ioPc, wrote>> /\ lgPc' = "handler"
        /\ q_recv # <<>> /\ q_recv' = Tail(q_recv) /\ lgMsg' = Head(q_recv)
    BY <1>8 DEF HandlePop, ioVars
  <2>2. port = "admin" => Head(q_recv) \in Requests /\ Tail(q_recv) \in Seq(Requests')
    BY <1>2, <2>1, PopFacts
  <2> QED
    BY <1>2, <1>3, <1>5, <2>1, <2>2 DEF AnswerInv, AnswerTypes
<1>9. CASE HandleFree \/ ReplyAlloc \/ NoReply
  <2>1. /\ UNCHANGED <<port, q_recv, q_send, ioPc, wrote>>
        /\ \/ lgPc' = "loop"
           \/ lgPc' = "reply" /\ port = "admin" /\ lgPc \in {"handler", "free"} /\ lgMsg' = lgMsg
           \/ lgPc' = "replyPush" /\ port = "admin" /\ lgPc = "reply" /\ lgMsg' = lgMsg
           \/ lgPc' = "replyPush" /\ port = "world" /\ lgMsg.n # 0 /\ lgMsg' = lgMsg
    BY <1>9 DEF HandleFree, ReplyAlloc, NoReply, ioVars, history, MsgInv, InputTypes
  <2>2. port = "admin" => lgPc # "free"
    BY DEF AnswerInv, AnswerTypes
  <2>3. lgPc' \in {"reply", "replyPush"} => lgMsg'.n # 0
    BY <2>1, <2>2 DEF AnswerInv, AnswerTypes
  <2> QED
    BY <1>2, <1>5, <2>1, <2>3 DEF AnswerInv, AnswerTypes
<1>10. CASE ReplyPush
  <2>1. /\ UNCHANGED <<port, q_recv, ioPc, wrote>> /\ lgPc = "replyPush"
        /\ lgPc' = IF port = "admin" THEN "loop" ELSE "free"
        /\ q_send' = q_send \/ q_send' = Append(q_send, lgOut)
    BY <1>10 DEF ReplyPush, ioVars
  <2>2. lgOut \in Requests'
    BY <1>1, <2>1 DEF MsgInv, LgHeld, AnswerInv, AnswerTypes, Requests
  <2>3. q_send' \in Seq(Requests')
    BY <1>2, <2>1, <2>2, AppendFacts
  <2> QED
    BY <1>2, <1>5, <2>1, <2>3 DEF AnswerInv, AnswerTypes
<1>11. CASE Tick
  <2> DEFINE m == Head(q_send)
             c == fd2be[m.fd]
  <2>1. /\ q_send # <<>> /\ q_send' = Tail(q_send)
        /\ ioPc' \in {"sendFree", "sendFreeStale"}
        /\ UNCHANGED <<port, tableVars, q_recv, lgVars>>
    BY <1>11 DEF Tick
  <2>2. m \in Requests /\ m \in Requests' /\ Tail(q_send) \in Seq(Requests')
    BY <1>1, <1>2, <2>1, PopFacts
  <2>3. CASE ~(m.fd \in Fds /\ fd2be[m.fd] # NoBe)
    <3>1. UNCHANGED wrote
      BY <1>11, <2>3 DEF Tick
    <3> QED
      BY <1>2, <1>5, <2>1, <2>2, <3>1 DEF AnswerInv, AnswerTypes, lgVars
  <2>4. CASE m.fd \in Fds /\ fd2be[m.fd] # NoBe
    <3>1. wrote' = [wrote EXCEPT ![c] = Append(@, m)]
      BY <1>11, <2>4 DEF Tick
    <3>2. c \in AllConns
      BY <2>4, PortAssumption DEF TableInv, TableTypes, NoBe, AllConns
    <3>3. m.conn \in open => m.conn = c
      <4>1. m.fd = fdOf[m.conn]
        BY <2>2 DEF Requests, Named
      <4> QED
        BY <4>1 DEF TableInv, TableOK
    <3> HIDE DEF m, c
    <3>4. wrote[c] \in Seq(Requests')
      BY <1>2, <3>2
    <3>5. /\ Append(wrote[c], m) \in Seq(Requests')
          /\ \A i \in 1 .. Len(Append(wrote[c], m)) :
                 \/ Append(wrote[c], m)[i] = m
                 \/ i \in 1 .. Len(wrote[c]) /\ Append(wrote[c], m)[i] = wrote[c][i]
      BY <2>2, <3>4
    <3>6. wrote' \in [AllConns -> Seq(Requests')]
      BY <1>2, <3>1, <3>2, <3>5
    <3>7. StrayConn'
      <4> SUFFICES ASSUME NEW d \in AllConns, NEW i \in 1 .. Len(wrote'[d]),
                          wrote'[d][i].conn # d
                   PROVE  wrote'[d][i].conn \notin open
        BY <2>1 DEF StrayConn, tableVars
      <4>1. CASE d = c
        <5>1. wrote'[d] = Append(wrote[c], m)
          BY <1>2, <3>1, <3>2, <4>1
        <5> QED
          BY <3>2, <3>3, <3>5, <4>1, <5>1 DEF AnswerInv, StrayConn
      <4>2. CASE d # c
        <5>1. wrote'[d] = wrote[d]
          BY <1>2, <3>1, <4>2
        <5> QED
          BY <5>1 DEF AnswerInv, StrayConn
      <4> QED
        BY <4>1, <4>2
    <3>8. AnswerTypes'
      BY <1>2, <2>1, <2>2, <3>6 DEF AnswerInv, AnswerTypes, lgVars
    <3> QED
      BY <3>7, <3>8 DEF AnswerInv
  <2> QED
    BY <2>3, <2>4
<1> QED
  BY <1>6, <1>7, <1>8, <1>9, <1>10, <1>11 DEF Next, EventLoop, Reading, Sending, Logic

-----------------------------------------------------------------------------
(* The order of requests and answers *)

\* The requests of one connection are in the order of their numbers.
InOrder(q) ==
    \A i, j \in 1 .. Len(q) :
        i < j /\ q[i].conn = q[j].conn /\ q[i].n # 0 /\ q[j].n # 0 => q[i].n < q[j].n

\* Those of c in q come before the number k, or after it.
Before(q, c, k) == \A i \in 1 .. Len(q) : q[i].conn = c => q[i].n < k
After(q, c, k) == \A i \in 1 .. Len(q) : q[i].conn = c /\ q[i].n # 0 => k < q[i].n

\* What the logic still has to answer is its last request from that connection.
InAnswer == lgPc \in {"handler", "reply", "replyPush"} /\ lgMsg.n # 0

(***************************************************************************)
(* A request goes from the buffer of its connection through q_recv to the  *)
(* logic, and its answer through q_send to a connection: along that way    *)
(* the numbers of each asker fall, and handled[c] stands between them.     *)
(***************************************************************************)
Answered ==
    /\ handled \in [AllConns -> 0 .. nframes]
    /\ InOrder(q_send) /\ \A d \in AllConns : InOrder(wrote[d])
    /\ \A c, d \in AllConns : Before(wrote[d], c, handled[c] + 1)
    /\ \A c \in AllConns : Before(q_send, c, handled[c] + 1)
    /\ \A d \in AllConns : \A i \in 1 .. Len(q_send) :
           Before(wrote[d], q_send[i].conn, q_send[i].n)

Answering ==
    InAnswer =>
        /\ lgMsg.n = handled[lgMsg.conn]
        /\ Before(q_send, lgMsg.conn, lgMsg.n)
        /\ \A d \in AllConns : Before(wrote[d], lgMsg.conn, lgMsg.n)

Waiting ==
    /\ InOrder(q_recv)
    /\ \A c \in AllConns : After(q_recv, c, handled[c])
    /\ \A c \in AllConns : Before(q_recv, c, nframes + 1)
    /\ ioPc = "push" =>
           /\ ioMsg.n > handled[ioMsg.conn] /\ ioMsg.n <= nframes
           /\ Before(q_recv, ioMsg.conn, ioMsg.n)

Unread ==
    \A c \in AllConns : \A j \in 1 .. Len(input[c]) :
        LET k == input[c][j] IN
        k # 0 =>
            /\ handled[c] < k /\ k <= nframes /\ Before(q_recv, c, k)
            /\ ioPc = "push" /\ ioMsg.conn = c => ioMsg.n < k
            /\ \A i \in 1 .. (j - 1) : input[c][i] # 0 => input[c][i] < k

OrderInv == Answered /\ Answering /\ Waiting /\ Unread

LEMMA AppendInOrder ==
    ASSUME NEW S, NEW q \in Seq(S), NEW m \in S, InOrder(q), Before(q, m.conn, m.n)
    PROVE  InOrder(Append(q, m))
BY AppendFacts DEF InOrder, Before

LEMMA PopInOrder ==
    ASSUME NEW S, NEW q \in Seq(S), q # <<>>, InOrder(q)
    PROVE  InOrder(Tail(q))
BY PopFacts DEF InOrder

LEMMA PopBefore ==
    ASSUME NEW S, NEW q \in Seq(S), q # <<>>
    PROVE  \A c, k : /\ Before(q, c, k) => Before(Tail(q), c, k)
                     /\ After(q, c, k) => After(Tail(q), c, k)
BY PopFacts DEF Before, After

LEMMA AppendBefore ==
    ASSUME NEW S, NEW q \in Seq(S), NEW m \in S
    PROVE  \A c, k : /\ Before(q, c, k) /\ (m.conn = c => m.n < k) => Before(Append(q, m), c, k)
                     /\ After(q, c, k) /\ (m.conn = c => k < m.n) => After(Append(q, m), c, k)
BY AppendFacts DEF Before, After

\* The first of q that c sent is before all others c sent.
LEMMA HeadFirst ==
    ASSUME NEW q \in Seq(Named), q # <<>>, InOrder(q), Head(q).n # 0
    PROVE  After(Tail(q), Head(q).conn, Head(q).n)
<1>1. /\ Head(q) = q[1] /\ Len(q) \in Nat \ {0} /\ Len(Tail(q)) = Len(q) - 1
      /\ \A i \in 1 .. Len(Tail(q)) : i + 1 \in 1 .. Len(q) /\ Tail(q)[i] = q[i + 1]
  BY PopFacts
<1> QED
  BY <1>1 DEF InOrder, After

LEMMA BeforeTrans ==
    ASSUME NEW S, NEW q \in Seq(S), NEW c, NEW k \in Int, NEW l \in Int, k <= l,
           Before(q, c, k), \A m \in S : m.n \in Int
    PROVE  Before(q, c, l)
BY DEF Before

LEMMA InitOrder == Init => OrderInv
<1> SUFFICES ASSUME Init PROVE OrderInv
  OBVIOUS
<1>1. /\ q_send = <<>> /\ q_recv = <<>> /\ wrote = [c \in AllConns |-> <<>>]
      /\ lgPc = "loop" /\ ioPc = "loop" /\ nframes = 0 /\ handled = [c \in AllConns |-> 0]
      /\ input = [c \in AllConns |-> <<>>]
  BY DEF Init
<1> QED
  BY <1>1 DEF OrderInv, Answered, Answering, Waiting, Unread, InOrder, Before, After, InAnswer

\* What the steps are about that follow.
OrderBase == TableInv /\ MsgInv /\ AnswerInv /\ OrderInv

LEMMA OrderTypes ==
    ASSUME OrderBase
    PROVE  /\ q_send \in Seq(Requests) /\ q_send \in Seq(Named) /\ q_recv \in Seq(Named)
           /\ wrote \in [AllConns -> Seq(Requests)]
           /\ input \in [AllConns -> Seq(0 .. MaxFrames)] /\ nframes \in Nat
           /\ handled \in [AllConns -> 0 .. nframes] /\ handled \in [AllConns -> Nat]
           /\ Conns \subseteq AllConns /\ Requests \subseteq Named
           /\ \A m \in Named : m.conn \in Conns /\ m.conn \in AllConns /\ m.n \in Nat
           /\ \A m \in Requests : m.n # 0
<1>1. Conns \subseteq AllConns
  BY PortAssumption DEF OrderBase, TableInv, TableTypes, Conns, AllConns
<1>2. nframes \in Nat
  BY PortAssumption DEF OrderBase, MsgInv, InputTypes
<1>3. Requests \subseteq Named /\ \A m \in Requests : m.n # 0
  BY DEF Requests
<1>4. \A m \in Named : m.conn \in Conns /\ m.n \in Nat
  BY PortAssumption DEF Named, Messages
<1>5. handled \in [AllConns -> 0 .. nframes]
  BY DEF OrderBase, OrderInv, Answered
<1>6. q_send \in Seq(Requests) /\ wrote \in [AllConns -> Seq(Requests)]
  BY DEF OrderBase, AnswerInv, AnswerTypes
<1>7. q_recv \in Seq(Named) /\ q_send \in Seq(Named)
      /\ input \in [AllConns -> Seq(0 .. MaxFrames)]
  BY DEF OrderBase, MsgInv, QueueTypes, InputTypes
<1> QED
  BY <1>1, <1>2, <1>3, <1>4, <1>5, <1>6, <1>7

\* A connection that closes takes what it has not been read with it.
LEMMA CloseKeepsOrder ==
    ASSUME OrderBase, NEW c \in open, Close(c), ioPc' # "push",
           UNCHANGED <<q_recv, q_send, handled, wrote, nframes>>, UNCHANGED <<lgPc, lgMsg>>
    PROVE  OrderInv'
<1>1. input' = [input EXCEPT ![c] = <<>>] /\ input \in [AllConns -> Seq(0 .. MaxFrames)]
  BY OrderTypes DEF Close
<1>2. Unread'
  <2> SUFFICES ASSUME NEW d \in AllConns, NEW j \in 1 .. Len(input'[d])
               PROVE  d # c /\ input'[d] = input[d]
    BY DEF Unread, OrderBase, OrderInv, Before
  <2> QED
    BY <1>1
<1>3. Answered' /\ Answering' /\ Waiting'
  BY DEF OrderBase, OrderInv, Answered, Answering, InAnswer, Waiting, Before, After, InOrder
<1> QED
  BY <1>2, <1>3 DEF OrderInv

LEMMA PeerKeepsOrder ==
    ASSUME OrderBase, NEW c \in open, NEW bad \in BOOLEAN, PeerSend(c, bad)
    PROVE  OrderInv'
<1>1. /\ nframes' = nframes + 1
      /\ input' = [input EXCEPT ![c] = Append(@, IF bad THEN 0 ELSE nframes + 1)]
      /\ UNCHANGED <<q_recv, q_send, handled, wrote, ioPc, ioMsg, lgPc, lgMsg>>
  BY DEF PeerSend, ioVars, lgVars, history, Bad
<1>2. c \in AllConns /\ nframes \in Nat /\ input[c] \in Seq(0 .. MaxFrames)
      /\ handled \in [AllConns -> 0 .. nframes] /\ input \in [AllConns -> Seq(0 .. MaxFrames)]
  BY OrderTypes DEF OrderBase, TableInv, TableTypes
<1>3. Answered' /\ Answering'
  <2>1. handled' \in [AllConns -> 0 .. nframes']
    BY <1>1, <1>2
  <2> QED
    BY <1>1, <2>1 DEF OrderBase, OrderInv, Answered, Answering, InAnswer, Before, InOrder
<1>4. \A d \in AllConns : Before(q_recv, d, nframes + 1) /\ Before(q_recv, d, nframes' + 1)
  <2>1. \A d \in AllConns : Before(q_recv, d, nframes + 1)
    BY DEF OrderBase, OrderInv, Waiting
  <2>2. q_recv \in Seq(Named) /\ \A m \in Named : m.n \in Int
    BY OrderTypes
  <2> QED
    BY <1>1, <1>2, <2>1, <2>2 DEF Before
<1>5. Waiting'
  <2>1. ioPc = "push" => ioMsg.n \in Nat
    BY OrderTypes DEF OrderBase, MsgInv, IoHeld
  <2>2. Waiting
    BY DEF OrderBase, OrderInv
  <2>3. InOrder(q_recv)'
    BY <1>1, <2>2 DEF Waiting, InOrder
  <2>4. \A d \in AllConns : After(q_recv, d, handled[d])'
    BY <1>1, <2>2 DEF Waiting, After
  <2>5. \A d \in AllConns : Before(q_recv, d, nframes + 1)'
    BY <1>1, <1>4 DEF Before
  <2>6. (ioPc = "push" => /\ ioMsg.n > handled[ioMsg.conn] /\ ioMsg.n <= nframes
                          /\ Before(q_recv, ioMsg.conn, ioMsg.n))'
    <3>1. /\ ioPc' = ioPc /\ ioMsg' = ioMsg /\ handled' = handled
          /\ q_recv' = q_recv /\ nframes' = nframes + 1
      BY <1>1
    <3>2. ioPc = "push" =>
              /\ ioMsg.n > handled[ioMsg.conn] /\ ioMsg.n <= nframes
              /\ Before(q_recv, ioMsg.conn, ioMsg.n)
      BY <2>2 DEF Waiting
    <3>3. ioPc = "push" => ioMsg.n <= nframes + 1
      BY <1>2, <2>1, <3>2
    <3> QED
      BY <3>1, <3>2, <3>3 DEF Before
  <2> QED
    BY <2>3, <2>4, <2>5, <2>6 DEF Waiting
<1>6. Unread'
  <2> SUFFICES ASSUME NEW d \in AllConns, NEW j \in 1 .. Len(input'[d]), input'[d][j] # 0
               PROVE  LET k == input'[d][j]
                      IN  /\ handled[d] < k /\ k <= nframes' /\ Before(q_recv, d, k)
                          /\ ioPc = "push" /\ ioMsg.conn = d => ioMsg.n < k
                          /\ \A i \in 1 .. (j - 1) : input'[d][i] # 0 => input'[d][i] < k
    BY <1>1 DEF Unread, Before
  <2>1. ASSUME NEW i \in 1 .. Len(input[d]), input[d][i] # 0
        PROVE  /\ handled[d] < input[d][i] /\ input[d][i] <= nframes
               /\ Before(q_recv, d, input[d][i]) /\ input[d][i] \in Nat
               /\ ioPc = "push" /\ ioMsg.conn = d => ioMsg.n < input[d][i]
               /\ \A h \in 1 .. (i - 1) : input[d][h] # 0 => input[d][h] < input[d][i]
    BY <1>2, <2>1, PortAssumption DEF OrderBase, OrderInv, Unread
  <2>2. CASE d # c \/ j \in 1 .. Len(input[d])
    <3>1. /\ j \in 1 .. Len(input[d]) /\ input'[d][j] = input[d][j]
          /\ \A i \in 1 .. (j - 1) : input'[d][i] = input[d][i]
      <4>1. CASE d # c
        BY <1>1, <1>2, <4>1
      <4>2. CASE d = c
        <5>1. input'[d] = Append(input[d], IF bad THEN 0 ELSE nframes + 1)
          BY <1>1, <1>2, <4>2
        <5> QED
          BY <1>2, <2>2, <4>2, <5>1
      <4> QED
        BY <4>1, <4>2
    <3> QED
      BY <1>1, <1>2, <2>1, <3>1
  <2>3. CASE ~(d # c \/ j \in 1 .. Len(input[d]))
    <3>1. /\ d = c /\ j = Len(input[d]) + 1 /\ Len(input[d]) \in Nat
          /\ input'[d][j] = (IF bad THEN 0 ELSE nframes + 1)
          /\ \A i \in 1 .. (j - 1) : i \in 1 .. Len(input[d]) /\ input'[d][i] = input[d][i]
      <4>1. input'[d] = Append(input[d], IF bad THEN 0 ELSE nframes + 1) /\ d = c
        BY <1>1, <1>2, <2>3
      <4> QED
        BY <1>2, <2>3, <4>1
    <3>2. input'[d][j] = nframes + 1
      BY <3>1
    <3>3. ioPc = "push" => ioMsg.n <= nframes /\ ioMsg.n \in Nat
      BY OrderTypes DEF OrderBase, OrderInv, Waiting, MsgInv, IoHeld
    <3>4. handled[d] \in Nat /\ handled[d] <= nframes
      BY <1>2
    <3> QED
      BY <1>1, <1>2, <1>4, <2>1, <3>1, <3>2, <3>3, <3>4
  <2> QED
    BY <2>2, <2>3
<1> QED
  BY <1>3, <1>5, <1>6 DEF OrderInv

LEMMA ReadKeepsOrder ==
    ASSUME OrderBase, ReadFrame
    PROVE  OrderInv'
<1> DEFINE k == Head(input[cur])
<1>1. /\ input[cur] # <<>> /\ k # 0 /\ ioPc = "read" /\ ioPc' = "push"
      /\ ioMsg' = [fd |-> fdOf[cur], conn |-> cur, n |-> k]
      /\ input' = [input EXCEPT ![cur] = Tail(@)]
      /\ UNCHANGED <<q_recv, q_send, handled, wrote, nframes, lgPc, lgMsg>>
  BY DEF ReadFrame, lgVars, history, Bad
<1>2. cur \in AllConns /\ input \in [AllConns -> Seq(0 .. MaxFrames)]
  BY <1>1, OrderTypes DEF OrderBase, TableInv, TableTypes, ReadsOpen
<1>3. /\ input[cur] \in Seq(0 .. MaxFrames) /\ k = input[cur][1] /\ 1 \in 1 .. Len(input[cur])
      /\ \A i \in 1 .. Len(Tail(input[cur])) :
             i + 1 \in 1 .. Len(input[cur]) /\ Tail(input[cur])[i] = input[cur][i + 1]
      /\ Len(Tail(input[cur])) \in Nat
  BY <1>1, <1>2, PopFacts
<1> HIDE DEF k
<1>4. /\ handled[cur] < k /\ k <= nframes /\ Before(q_recv, cur, k)
  BY <1>1, <1>2, <1>3 DEF OrderBase, OrderInv, Unread
<1>5. ioMsg'.conn = cur /\ ioMsg'.n = k
  BY <1>1
<1>6. Answered' /\ Answering'
  BY <1>1 DEF OrderBase, OrderInv, Answered, Answering, InAnswer, Before, InOrder
<1>7. Waiting'
  BY <1>1, <1>4, <1>5 DEF OrderBase, OrderInv, Waiting, After, InOrder, Before
<1>8. Unread'
  <2> SUFFICES ASSUME NEW d \in AllConns, NEW j \in 1 .. Len(input'[d]), input'[d][j] # 0
               PROVE  LET l == input'[d][j]
                      IN  /\ handled[d] < l /\ l <= nframes /\ Before(q_recv, d, l)
                          /\ cur = d => k < l
                          /\ \A i \in 1 .. (j - 1) : input'[d][i] # 0 => input'[d][i] < l
    BY <1>1, <1>5 DEF Unread, Before
  <2>1. CASE d # cur
    BY <1>1, <1>2, <2>1 DEF OrderBase, OrderInv, Unread
  <2>2. CASE d = cur
    <3>1. input'[d] = Tail(input[cur])
      BY <1>1, <1>2, <2>2
    <3>2. j \in Nat /\ j + 1 \in 1 .. Len(input[cur]) /\ input'[d][j] = input[cur][j + 1]
          /\ \A i \in 1 .. (j - 1) : i + 1 \in 1 .. j /\ input'[d][i] = input[cur][i + 1]
      BY <1>3, <3>1
    <3>3. 1 \in 1 .. j
      BY <3>2
    <3>4. \A i \in 1 .. j : input[cur][i] # 0 => input[cur][i] < input[cur][j + 1]
      BY <1>2, <3>2 DEF OrderBase, OrderInv, Unread
    <3>5. handled[cur] < input[cur][j + 1] /\ input[cur][j + 1] <= nframes
          /\ Before(q_recv, cur, input[cur][j + 1])
      BY <1>2, <3>2 DEF OrderBase, OrderInv, Unread
    <3>6. k < input[cur][j + 1]
      BY <1>1, <1>3, <3>3, <3>4
    <3>7. \A i \in 1 .. (j - 1) : input'[d][i] # 0 => input'[d][i] < input[cur][j + 1]
      BY <3>2, <3>4
    <3> QED
      BY <2>2, <3>2, <3>5, <3>6, <3>7
  <2> QED
    BY <2>1, <2>2
<1> QED
  BY <1>6, <1>7, <1>8 DEF OrderInv

LEMMA PushKeepsOrder ==
    ASSUME OrderBase, Push
    PROVE  OrderInv'
<1>1. /\ ioPc \in {"push", "closePush"} /\ ioPc' # "push"
      /\ q_recv' = q_recv \/ q_recv' = Append(q_recv, ioMsg)
      /\ UNCHANGED <<q_send, handled, wrote, nframes, input, lgPc, lgMsg>>
  BY DEF Push, lgVars
<1>2. /\ ioMsg \in Named /\ ioMsg.n \in Nat /\ ioMsg.conn \in AllConns /\ q_recv \in Seq(Named)
      /\ nframes \in Nat
      /\ ioPc = "closePush" => ioMsg.n = 0
      /\ handled \in [AllConns -> Nat]
  BY <1>1, OrderTypes DEF OrderBase, MsgInv, IoHeld
<1>3. Answered' /\ Answering'
  BY <1>1 DEF OrderBase, OrderInv, Answered, Answering, InAnswer, Before, InOrder
<1>4. /\ ioPc = "push" => /\ ioMsg.n > handled[ioMsg.conn] /\ ioMsg.n <= nframes
                          /\ Before(q_recv, ioMsg.conn, ioMsg.n)
      /\ InOrder(q_recv) /\ \A c \in AllConns : After(q_recv, c, handled[c])
      /\ \A c \in AllConns : Before(q_recv, c, nframes + 1)
  BY DEF OrderBase, OrderInv, Waiting
<1>5. CASE q_recv' = q_recv
  BY <1>1, <1>3, <1>5 DEF OrderBase, OrderInv, Waiting, Unread, Before, After, InOrder
<1>6. CASE q_recv' = Append(q_recv, ioMsg)
  <2> DEFINE r == Append(q_recv, ioMsg)
  <2>1. /\ Len(q_recv) \in Nat /\ Len(r) = Len(q_recv) + 1
        /\ \A i \in 1 .. Len(r) : r[i] = IF i = Len(q_recv) + 1 THEN ioMsg ELSE q_recv[i]
    BY <1>2, AppendFacts
  <2> HIDE DEF r
  <2>2. InOrder(r)
    <3>1. CASE ioPc = "push"
      BY <1>2, <1>4, <3>1, AppendInOrder DEF r
    <3>2. CASE ioPc = "closePush"
      BY <1>2, <1>4, <2>1, <3>2 DEF InOrder
    <3> QED
      BY <1>1, <3>1, <3>2
  <2>3. \A c \in AllConns : After(r, c, handled[c])
    <3>1. CASE ioPc = "push"
      BY <1>4, <2>1, <3>1 DEF After
    <3>2. CASE ioPc = "closePush"
      BY <1>2, <1>4, <2>1, <3>2 DEF After
    <3> QED
      BY <1>1, <3>1, <3>2
  <2>4. \A c \in AllConns : Before(r, c, nframes + 1)
    <3>1. ioMsg.n < nframes + 1
      BY <1>1, <1>2, <1>4
    <3> QED
      BY <1>4, <2>1, <3>1 DEF Before
  <2>5. ASSUME NEW c \in AllConns, NEW j \in 1 .. Len(input[c]), input[c][j] # 0
        PROVE  Before(r, c, input[c][j])
    <3>1. /\ Before(q_recv, c, input[c][j])
          /\ ioPc = "push" /\ ioMsg.conn = c => ioMsg.n < input[c][j]
          /\ handled[c] < input[c][j]
      BY <2>5 DEF OrderBase, OrderInv, Unread
    <3>2. input[c][j] \in Nat
      BY OrderTypes, PortAssumption
    <3>3. ioMsg.conn = c => ioMsg.n < input[c][j]
      BY <1>1, <1>2, <2>5, <3>1, <3>2
    <3> QED
      BY <2>1, <3>1, <3>3 DEF Before
  <2>6. Unread'
    BY <1>1, <1>6, <2>5 DEF OrderBase, OrderInv, Unread, Before, r
  <2>7. Waiting'
    BY <1>1, <1>6, <2>2, <2>3, <2>4 DEF Waiting, After, Before, InOrder, r
  <2> QED
    BY <1>3, <2>6, <2>7 DEF OrderInv
<1> QED
  BY <1>1, <1>5, <1>6

LEMMA PopKeepsOrder ==
    ASSUME OrderBase, HandlePop
    PROVE  OrderInv'
<1> DEFINE m == Head(q_recv)
<1>1. /\ q_recv # <<>> /\ q_recv' = Tail(q_recv) /\ lgMsg' = m /\ lgPc' = "handler"
      /\ handled' = IF m.n = 0 THEN handled ELSE [handled EXCEPT ![m.conn] = m.n]
      /\ UNCHANGED <<q_send, wrote, nframes, input, ioPc, ioMsg>>
  BY DEF HandlePop, ioVars
<1>2. /\ q_recv \in Seq(Named) /\ handled \in [AllConns -> 0 .. nframes] /\ nframes \in Nat
      /\ q_send \in Seq(Requests) /\ wrote \in [AllConns -> Seq(Requests)]
      /\ \A x \in Requests : x.n \in Nat /\ x.conn \in AllConns
  BY OrderTypes
<1>3. m \in Named /\ m.n \in Nat /\ m.conn \in AllConns /\ m = q_recv[1] /\ 1 \in 1 .. Len(q_recv)
  BY <1>1, <1>2, PopFacts, OrderTypes
<1>4. /\ InOrder(Tail(q_recv))
      /\ \A c \in AllConns : /\ After(Tail(q_recv), c, handled[c])
                             /\ Before(Tail(q_recv), c, nframes + 1)
      /\ \A c, k : Before(q_recv, c, k) => Before(Tail(q_recv), c, k)
      /\ m.n # 0 => After(Tail(q_recv), m.conn, m.n)
  <2>1. /\ InOrder(q_recv) /\ \A c \in AllConns : After(q_recv, c, handled[c])
        /\ \A c \in AllConns : Before(q_recv, c, nframes + 1)
    BY DEF OrderBase, OrderInv, Waiting
  <2>2. InOrder(Tail(q_recv))
    BY <1>1, <1>2, <2>1, PopInOrder
  <2>3. \A c, k : /\ Before(q_recv, c, k) => Before(Tail(q_recv), c, k)
                  /\ After(q_recv, c, k) => After(Tail(q_recv), c, k)
    BY <1>1, <1>2, PopBefore
  <2>4. m.n # 0 => After(Tail(q_recv), m.conn, m.n)
    BY <1>1, <1>2, <2>1, HeadFirst
  <2> HIDE DEF m
  <2>5. \A c \in AllConns : After(Tail(q_recv), c, handled[c])
    BY <2>1, <2>3, Zenon
  <2>6. \A c \in AllConns : Before(Tail(q_recv), c, nframes + 1)
    BY <2>1, <2>3, Zenon
  <2>7. \A c, k : Before(q_recv, c, k) => Before(Tail(q_recv), c, k)
    BY <2>3, Zenon
  <2> QED
    BY <2>2, <2>4, <2>5, <2>6, <2>7, Zenon
<1>5. m.n # 0 => handled[m.conn] < m.n /\ m.n <= nframes
  BY <1>2, <1>3 DEF OrderBase, OrderInv, Waiting, After, Before
<1> HIDE DEF m
<1>6. /\ handled' \in [AllConns -> 0 .. nframes]
      /\ \A c \in AllConns : handled'[c] = IF m.n # 0 /\ c = m.conn THEN m.n ELSE handled[c]
      /\ \A c \in AllConns : handled[c] <= handled'[c]
  BY <1>1, <1>2, <1>3, <1>5
<1>7. Answered'
  <2>1. ASSUME NEW q \in Seq(Requests), NEW c \in AllConns, Before(q, c, handled[c] + 1)
        PROVE  Before(q, c, handled'[c] + 1)
    <3>1. handled[c] + 1 \in Int /\ handled'[c] + 1 \in Int /\ handled[c] + 1 <= handled'[c] + 1
      BY <1>2, <1>6
    <3> QED
      BY <1>2, <2>1, <3>1, BeforeTrans
  <2>2. \A c, d \in AllConns : Before(wrote[d], c, handled'[c] + 1)
    BY <1>2, <2>1 DEF OrderBase, OrderInv, Answered
  <2>3. \A c \in AllConns : Before(q_send, c, handled'[c] + 1)
    BY <1>2, <2>1 DEF OrderBase, OrderInv, Answered
  <2> QED
    BY <1>1, <1>6, <2>2, <2>3 DEF OrderBase, OrderInv, Answered, Before, InOrder
<1>8. Answering'
  <2> SUFFICES ASSUME m.n # 0
               PROVE  /\ m.n = handled'[m.conn] /\ Before(q_send, m.conn, m.n)
                      /\ \A d \in AllConns : Before(wrote[d], m.conn, m.n)
    BY <1>1 DEF Answering, InAnswer, Before
  <2>1. ASSUME NEW q \in Seq(Requests), Before(q, m.conn, handled[m.conn] + 1)
        PROVE  Before(q, m.conn, m.n)
    <3>1. handled[m.conn] \in Nat /\ handled[m.conn] < m.n
      BY <1>2, <1>3, <1>5
    <3>2. \A i \in 1 .. Len(q) : q[i].n \in Nat
      BY <1>2
    <3> QED
      BY <1>3, <2>1, <3>1, <3>2, SMTT(30) DEF Before
  <2> QED
    BY <1>2, <1>3, <1>6, <2>1 DEF OrderBase, OrderInv, Answered
<1>9. Waiting'
  <2>1. \A c \in AllConns : After(Tail(q_recv), c, handled'[c])
    BY <1>4, <1>6
  <2>2. ioPc = "push" => /\ ioMsg.n > handled'[ioMsg.conn] /\ ioMsg.n <= nframes
                         /\ Before(q_recv, ioMsg.conn, ioMsg.n)
    <3> SUFFICES ASSUME ioPc = "push"
                 PROVE  ioMsg.n > handled'[ioMsg.conn] /\ ioMsg.n <= nframes
                        /\ Before(q_recv, ioMsg.conn, ioMsg.n)
      OBVIOUS
    <3>1. ioMsg.n > handled[ioMsg.conn] /\ ioMsg.n <= nframes
          /\ Before(q_recv, ioMsg.conn, ioMsg.n)
      BY DEF OrderBase, OrderInv, Waiting
    <3>2. ioMsg.conn \in AllConns
      BY OrderTypes DEF OrderBase, MsgInv, IoHeld
    <3>3. m.conn = ioMsg.conn => m.n < ioMsg.n
      BY <1>3, <3>1 DEF Before
    <3> QED
      BY <1>6, <3>1, <3>2, <3>3
  <2> QED
    BY <1>1, <1>4, <2>1, <2>2 DEF Waiting, After, Before, InOrder
<1>10. Unread'
  <2> SUFFICES ASSUME NEW c \in AllConns, NEW j \in 1 .. Len(input[c]), input[c][j] # 0
               PROVE  handled'[c] < input[c][j] /\ Before(Tail(q_recv), c, input[c][j])
    BY <1>1 DEF OrderBase, OrderInv, Unread, Before
  <2>1. handled[c] < input[c][j] /\ Before(q_recv, c, input[c][j])
    BY DEF OrderBase, OrderInv, Unread
  <2>2. m.conn = c => m.n < input[c][j]
    BY <1>3, <2>1 DEF Before
  <2> QED
    BY <1>4, <1>6, <2>1, <2>2
<1> QED
  BY <1>7, <1>8, <1>9, <1>10 DEF OrderInv

LEMMA ReplyKeepsOrder ==
    ASSUME OrderBase, ReplyPush
    PROVE  OrderInv'
<1>1. /\ lgPc = "replyPush" /\ lgPc' \in {"loop", "free"}
      /\ q_send' = q_send \/ q_send' = Append(q_send, lgOut)
      /\ UNCHANGED <<q_recv, handled, wrote, nframes, input, ioPc, ioMsg>>
  BY DEF ReplyPush, ioVars
<1>2. lgOut = lgMsg /\ lgMsg \in Requests /\ lgMsg.conn \in AllConns /\ lgMsg.n \in Nat
      /\ q_send \in Seq(Requests) /\ handled \in [AllConns -> Nat]
      /\ \A x \in Requests : x.n \in Nat
  <2>1. lgOut = lgMsg /\ lgMsg \in Requests
    BY <1>1 DEF OrderBase, MsgInv, LgHeld, AnswerInv, AnswerTypes, Requests
  <2> QED
    BY <2>1, OrderTypes
<1>3. Waiting' /\ Unread'
  BY <1>1 DEF OrderBase, OrderInv, Waiting, Unread, Before, After, InOrder
<1>4. Answering'
  BY <1>1 DEF Answering, InAnswer
<1>5. /\ lgMsg.n = handled[lgMsg.conn] /\ Before(q_send, lgMsg.conn, lgMsg.n)
      /\ \A d \in AllConns : Before(wrote[d], lgMsg.conn, lgMsg.n)
  BY <1>1, <1>2 DEF OrderBase, OrderInv, Answering, InAnswer, Requests
<1>6. Answered'
  <2>1. CASE q_send' = q_send
    BY <1>1, <2>1 DEF OrderBase, OrderInv, Answered, Before, InOrder
  <2>2. CASE q_send' = Append(q_send, lgOut)
    <3> DEFINE q == Append(q_send, lgMsg)
    <3>1. InOrder(q)
      BY <1>2, <1>5, AppendInOrder DEF OrderBase, OrderInv, Answered
    <3>2. \A c \in AllConns : Before(q, c, handled[c] + 1)
      <4>1. \A c \in AllConns : lgMsg.conn = c => lgMsg.n < handled[c] + 1
        BY <1>2, <1>5
      <4>2. \A c \in AllConns : Before(q_send, c, handled[c] + 1)
        BY DEF OrderBase, OrderInv, Answered
      <4>3. \A c, k : Before(q_send, c, k) /\ (lgMsg.conn = c => lgMsg.n < k)
                         => Before(q, c, k)
        BY <1>2 DEF Before
      <4> QED
        BY <4>1, <4>2, <4>3
    <3>3. \A d \in AllConns : \A i \in 1 .. Len(q) : Before(wrote[d], q[i].conn, q[i].n)
      BY <1>2, <1>5, AppendFacts DEF OrderBase, OrderInv, Answered
    <3> HIDE DEF q
    <3>4. q_send' = q
      BY <1>2, <2>2 DEF q
    <3> QED
      BY <1>1, <3>1, <3>2, <3>3, <3>4 DEF OrderBase, OrderInv, Answered, Before, InOrder
  <2> QED
    BY <1>1, <2>1, <2>2
<1> QED
  BY <1>3, <1>4, <1>6 DEF OrderInv

LEMMA TickKeepsOrder ==
    ASSUME OrderBase, Tick
    PROVE  OrderInv'
<1> DEFINE m == Head(q_send)
           b == fd2be[m.fd]
<1>1. /\ q_send # <<>> /\ q_send' = Tail(q_send) /\ ioPc' \in {"sendFree", "sendFreeStale"}
      /\ UNCHANGED <<q_recv, handled, nframes, input, lgPc, lgMsg>>
      /\ \/ m.fd \in Fds /\ b # NoBe /\ wrote' = [wrote EXCEPT ![b] = Append(@, m)]
         \/ wrote' = wrote
  BY DEF Tick, lgVars
<1>2. /\ q_send \in Seq(Requests) /\ q_send \in Seq(Named)
      /\ wrote \in [AllConns -> Seq(Requests)]
      /\ handled \in [AllConns -> Nat] /\ \A x \in Requests : x.n \in Nat /\ x.n # 0
  BY OrderTypes
<1>3. m \in Requests /\ m.n \in Nat /\ m.n # 0 /\ m = q_send[1] /\ 1 \in 1 .. Len(q_send)
      /\ m.conn \in AllConns /\ Tail(q_send) \in Seq(Requests)
      /\ \A i \in 1 .. Len(Tail(q_send)) :
             i + 1 \in 1 .. Len(q_send) /\ Tail(q_send)[i] = q_send[i + 1]
  BY <1>1, <1>2, PopFacts, OrderTypes
<1>4. /\ InOrder(q_send) /\ \A d \in AllConns : InOrder(wrote[d])
      /\ \A c, d \in AllConns : Before(wrote[d], c, handled[c] + 1)
      /\ \A c \in AllConns : Before(q_send, c, handled[c] + 1)
      /\ \A d \in AllConns : \A i \in 1 .. Len(q_send) :
             Before(wrote[d], q_send[i].conn, q_send[i].n)
  BY DEF OrderBase, OrderInv, Answered
<1>5. /\ InOrder(Tail(q_send)) /\ After(Tail(q_send), m.conn, m.n)
      /\ \A c \in AllConns : Before(Tail(q_send), c, handled[c] + 1)
  <2>1. InOrder(Tail(q_send))
    BY <1>1, <1>2, <1>4, PopInOrder
  <2>2. After(Tail(q_send), m.conn, m.n)
    BY <1>1, <1>2, <1>3, <1>4, HeadFirst
  <2>3. \A c \in AllConns : Before(Tail(q_send), c, handled[c] + 1)
    <3>1. \A c, k : Before(q_send, c, k) => Before(Tail(q_send), c, k)
      BY <1>3 DEF Before
    <3> HIDE DEF m
    <3> QED
      BY <1>4, <3>1, Zenon
  <2> QED
    BY <2>1, <2>2, <2>3
<1>6. /\ \A d \in AllConns : Before(wrote[d], m.conn, m.n)
      /\ \A d \in AllConns : \A i \in 1 .. Len(Tail(q_send)) :
             Before(wrote[d], Tail(q_send)[i].conn, Tail(q_send)[i].n)
      /\ m.n < handled[m.conn] + 1
  BY <1>3, <1>4 DEF Before
<1>7. \A d \in AllConns : wrote'[d] = wrote[d] \/ wrote'[d] = Append(wrote[d], m)
  BY <1>1, <1>2
<1> HIDE DEF m, b
\* What comes before a number still does when m does, too.
<1>8. ASSUME NEW d \in AllConns, NEW c, NEW k, Before(wrote[d], c, k), m.conn = c => m.n < k
      PROVE  Before(wrote'[d], c, k)
  <2>1. CASE wrote'[d] = wrote[d]
    BY <1>8, <2>1
  <2>2. CASE wrote'[d] = Append(wrote[d], m)
    <3>1. wrote[d] \in Seq(Requests)
      BY <1>2
    <3>2. Before(Append(wrote[d], m), c, k)
      BY <1>3, <1>8, <3>1, AppendBefore
    <3> QED
      BY <2>2, <3>2
  <2> QED
    BY <1>7, <2>1, <2>2
<1>9. Answered'
  <2>1. ASSUME NEW d \in AllConns PROVE InOrder(wrote'[d])
    <3>1. wrote[d] \in Seq(Requests)
      BY <1>2
    <3>2. InOrder(Append(wrote[d], m))
      BY <1>3, <1>4, <1>6, <3>1, AppendInOrder
    <3> QED
      BY <1>4, <1>7, <3>2
  <2>2. ASSUME NEW c \in AllConns, NEW d \in AllConns
        PROVE  Before(wrote'[d], c, handled[c] + 1)
    BY <1>4, <1>6, <1>8
  <2>3. ASSUME NEW d \in AllConns, NEW i \in 1 .. Len(Tail(q_send))
        PROVE  Before(wrote'[d], Tail(q_send)[i].conn, Tail(q_send)[i].n)
    <3>1. Tail(q_send)[i] \in Requests
      BY <1>3
    <3>2. m.conn = Tail(q_send)[i].conn => m.n < Tail(q_send)[i].n
      BY <1>2, <1>5, <3>1 DEF After
    <3> QED
      BY <1>6, <1>8, <3>2
  <2> QED
    BY <1>1, <1>5, <2>1, <2>2, <2>3 DEF OrderBase, OrderInv, Answered, Before, InOrder
<1>10. Answering'
  <2> SUFFICES ASSUME InAnswer
               PROVE  /\ lgMsg.n = handled[lgMsg.conn]
                      /\ Before(Tail(q_send), lgMsg.conn, lgMsg.n)
                      /\ \A d \in AllConns : Before(wrote'[d], lgMsg.conn, lgMsg.n)
    BY <1>1 DEF Answering, InAnswer, Before
  <2>1. /\ lgMsg.n = handled[lgMsg.conn] /\ Before(q_send, lgMsg.conn, lgMsg.n)
        /\ \A d \in AllConns : Before(wrote[d], lgMsg.conn, lgMsg.n)
    BY DEF OrderBase, OrderInv, Answering
  <2>2. m.conn = lgMsg.conn => m.n < lgMsg.n
    BY <1>3, <2>1 DEF Before
  <2>3. Before(Tail(q_send), lgMsg.conn, lgMsg.n)
    BY <1>3, <2>1 DEF Before
  <2> QED
    BY <1>8, <2>1, <2>2, <2>3
<1>11. Waiting' /\ Unread'
  BY <1>1 DEF OrderBase, OrderInv, Waiting, Unread, Before, After, InOrder
<1> QED
  BY <1>9, <1>10, <1>11 DEF OrderInv

LEMMA NextOrder == OrderBase /\ [Next]_vars => OrderInv'
<1> SUFFICES ASSUME OrderBase, [Next]_vars PROVE OrderInv'
  OBVIOUS
<1> DEFINE Same == UNCHANGED <<q_recv, q_send, handled, wrote, nframes, input>>
<1>1. ASSUME Same, ioPc' # "push" \/ UNCHANGED <<ioPc, ioMsg>>,
             lgMsg' = lgMsg \/ lgPc' \in {"loop", "free"},
             lgPc' \in {"loop", "free"} \/ lgPc \in {"handler", "reply", "replyPush"}
      PROVE  OrderInv'
  <2>1. Answered' /\ Unread'
    BY <1>1 DEF OrderBase, OrderInv, Answered, Unread, Before, InOrder
  <2>2. Waiting'
    BY <1>1 DEF OrderBase, OrderInv, Waiting, Before, After, InOrder
  <2>3. Answering'
    BY <1>1 DEF OrderBase, OrderInv, Answering, InAnswer, Before
  <2> QED
    BY <2>1, <2>2, <2>3 DEF OrderInv
<1>2. ASSUME Same, UNCHANGED <<lgPc, lgMsg>>, ioPc' # "push" \/ UNCHANGED <<ioPc, ioMsg>>
      PROVE  OrderInv'
  <2>1. Answered' /\ Unread' /\ Answering'
    BY <1>2 DEF OrderBase, OrderInv, Answered, Unread, Answering, InAnswer, Before, InOrder
  <2>2. Waiting'
    BY <1>2 DEF OrderBase, OrderInv, Waiting, Before, After, InOrder
  <2> QED
    BY <2>1, <2>2 DEF OrderInv
<1>3. ASSUME NEW c \in open, NEW bad \in BOOLEAN, PeerSend(c, bad) PROVE OrderInv'
  BY <1>3, PeerKeepsOrder
<1>4. ASSUME NEW fd \in 0 .. fd_max, Accept(fd) PROVE OrderInv'
  BY <1>2, <1>4 DEF Accept, ioVars, lgVars, history
<1>5. ASSUME NEW c \in open, Readable(c) PROVE OrderInv'
  BY <1>2, <1>5 DEF Readable, lgVars, history
<1>6. ASSUME NEW c \in open, Event(c) PROVE OrderInv'
  <2>1. /\ Close(c) /\ UNCHANGED <<q_recv, q_send, handled, wrote, nframes, lgPc, lgMsg>>
        /\ ioPc = "loop" /\ ioPc' \in {"loop", "closeAlloc"}
    BY <1>6 DEF Event, lgVars, history
  <2> QED
    BY <2>1, CloseKeepsOrder
<1>7. CASE ReadBad
  <2>1. /\ Close(cur) /\ UNCHANGED <<q_recv, q_send, handled, wrote, nframes, lgPc, lgMsg>>
        /\ ioPc = "read" /\ ioPc' \in {"giveBack", "closeAlloc"}
    BY <1>7 DEF ReadBad, lgVars, history
  <2>2. cur \in open
    BY <2>1 DEF OrderBase, TableInv, ReadsOpen
  <2> QED
    BY <2>1, <2>2, CloseKeepsOrder
<1>8. CASE ReadStops \/ GiveBack \/ CloseAlloc \/ SendFree \/ TickDone \/ UNCHANGED vars
  <2>1. Same /\ UNCHANGED <<lgPc, lgMsg>> /\ (ioPc' # "push" \/ UNCHANGED <<ioPc, ioMsg>>)
    BY <1>8 DEF ReadStops, GiveBack, CloseAlloc, SendFree, TickDone, vars, lgVars, ioVars, history
  <2> QED
    BY <1>2, <2>1
<1>9. CASE HandleFree \/ ReplyAlloc \/ NoReply
  <2>1. /\ Same /\ UNCHANGED <<ioPc, ioMsg>>
        /\ lgMsg' = lgMsg \/ lgPc' \in {"loop", "free"}
        /\ lgPc' \in {"loop", "free"} \/ lgPc \in {"handler", "reply", "replyPush"}
    <3>1. port = "admin" => lgPc # "free"
      BY DEF OrderBase, AnswerInv, AnswerTypes
    <3> QED
      BY <1>9, <3>1 DEF HandleFree, ReplyAlloc, NoReply, ioVars, history
  <2> QED
    BY <1>1, <2>1
<1>10. CASE ReadFrame \/ Push \/ HandlePop \/ ReplyPush \/ Tick
  BY <1>10, ReadKeepsOrder, PushKeepsOrder, PopKeepsOrder, ReplyKeepsOrder, TickKeepsOrder
<1> QED
  BY <1>3, <1>4, <1>5, <1>6, <1>7, <1>8, <1>9, <1>10
     DEF Next, EventLoop, Reading, Sending, Logic

-----------------------------------------------------------------------------
(* The users of a descriptor, one after the other *)

\* The news that c has ended waits among the first n messages of q.
EndQueued(q, c, n) == \E i \in 1 .. n : q[i].conn = c /\ q[i].n = 0

\* An open connection has a descriptor that may be given away again.
NotOrphan == \A c \in open : fdOf[c] \notin orphans

\* The world's connections that ended: the logic knows, or will, or cannot.
EndsOnTheWay ==
    port = "world" =>
        \A c \in Conns \ open :
            \/ fdOf[c] \in orphans \/ c \in ended \union unreported
            \/ EndQueued(q_recv, c, Len(q_recv))
            \/ ioPc \in {"closeAlloc", "closePush"} /\ cur = c

\* A request is behind the end of each earlier connection of its descriptor.
RequestBehind ==
    port = "world" =>
        \A i \in 1 .. Len(q_recv) : q_recv[i].n # 0 =>
            \A d \in 1 .. (q_recv[i].conn - 1) :
                fdOf[d] = fdOf[q_recv[i].conn] =>
                    d \in ended \union unreported \/ EndQueued(q_recv, d, i - 1)

\* Nothing was handled for a connection there has not been.
NotYet == \A c \in AllConns \ Conns : handled[c] = 0

NewsInv == NotOrphan /\ NotYet /\ EndsOnTheWay /\ RequestBehind /\ EndAnnounced

LEMMA InitNews == Init => NewsInv
<1> SUFFICES ASSUME Init PROVE NewsInv
  OBVIOUS
<1>1. /\ fdOf = <<>> /\ open = {} /\ q_recv = <<>> /\ handled = [c \in AllConns |-> 0]
  BY DEF Init
<1>2. Conns = {}
  BY <1>1 DEF Conns
<1> QED
  BY <1>1, <1>2 DEF NewsInv, NotOrphan, NotYet, EndsOnTheWay, RequestBehind, EndAnnounced

\* Steps that leave the table, the queue and what was handled alone.
LEMMA NewsKept ==
    ASSUME NewsInv, UNCHANGED tableVars, UNCHANGED <<port, q_recv, handled>>,
           ended \union unreported \subseteq ended' \union unreported',
           ioPc \in {"closeAlloc", "closePush"} =>
               \/ ioPc' \in {"closeAlloc", "closePush"} /\ cur' = cur
               \/ cur \in ended' \union unreported'
    PROVE  NewsInv'
<1>1. UNCHANGED <<fdOf, open, orphans>> /\ Conns' = Conns
  BY DEF tableVars, Conns
<1>2. NotOrphan' /\ NotYet'
  BY <1>1 DEF NewsInv, NotOrphan, NotYet
<1>3. EndsOnTheWay'
  BY <1>1 DEF NewsInv, EndsOnTheWay, EndQueued
<1>4. RequestBehind'
  BY <1>1 DEF NewsInv, RequestBehind, EndQueued
<1>5. EndAnnounced'
  BY <1>1 DEF NewsInv, EndAnnounced
<1> QED
  BY <1>2, <1>3, <1>4, <1>5 DEF NewsInv

\* A connection closes; in the world the logic is to be told.
LEMMA CloseKeepsNews ==
    ASSUME NewsInv, NEW c \in open, Close(c), ioPc \notin {"closeAlloc", "closePush"},
           UNCHANGED <<port, q_recv, handled, ended, unreported>>,
           port = "world" => ioPc' = "closeAlloc" /\ cur' = c
    PROVE  NewsInv'
<1>1. UNCHANGED <<fdOf, orphans>> /\ open' = open \ {c} /\ Conns' = Conns
  BY DEF Close, Conns
<1>2. NotOrphan' /\ NotYet'
  BY <1>1 DEF NewsInv, NotOrphan, NotYet
<1>3. EndsOnTheWay'
  BY <1>1 DEF NewsInv, EndsOnTheWay, EndQueued
<1>4. RequestBehind' /\ EndAnnounced'
  BY <1>1 DEF NewsInv, RequestBehind, EndQueued, EndAnnounced
<1> QED
  BY <1>2, <1>3, <1>4 DEF NewsInv

LEMMA AcceptKeepsNews ==
    ASSUME OrderBase, NewsInv, NEW fd \in 0 .. fd_max, Accept(fd)
    PROVE  NewsInv'
<1> DEFINE n == Len(fdOf)
<1>1. /\ ioPc = "loop" /\ fd \notin orphans /\ (\A c \in open : fdOf[c] # fd)
      /\ fdOf' = Append(fdOf, fd) /\ n < MaxConns
      /\ UNCHANGED <<port, q_recv, handled, ended, unreported>>
      /\ \/ open' = open \union {n + 1} /\ orphans' = orphans
         \/ open' = open /\ orphans' = orphans \union {fd}
  <2>1. fdOf \in Seq(0 .. fd_max)
    BY DEF OrderBase, TableInv, TableTypes
  <2>2. Len(Append(fdOf, fd)) = n + 1
    BY <2>1
  <2> QED
    BY <2>2 DEF Accept, history
<1>2. /\ n \in Nat /\ Conns = 1 .. n /\ Conns' = 1 .. (n + 1) /\ n + 1 \in AllConns
      /\ fdOf'[n + 1] = fd /\ \A c \in Conns : c # n + 1 /\ fdOf'[c] = fdOf[c]
      /\ open \subseteq Conns /\ Conns \subseteq AllConns
  BY <1>1, PortAssumption DEF OrderBase, TableInv, TableTypes, Conns, AllConns
<1>3. NotYet'
  BY <1>1, <1>2 DEF NewsInv, NotYet
<1>4. NotOrphan'
  BY <1>1, <1>2 DEF NewsInv, NotOrphan
<1>5. EndsOnTheWay'
  BY <1>1, <1>2 DEF NewsInv, EndsOnTheWay, EndQueued
<1>6. RequestBehind'
  <2>3. /\ port' = port /\ q_recv' = q_recv
        /\ ended' \union unreported' = ended \union unreported
    BY <1>1
  <2> SUFFICES ASSUME port = "world", NEW i \in 1 .. Len(q_recv), q_recv[i].n # 0,
                      NEW d \in 1 .. (q_recv[i].conn - 1), fdOf'[d] = fdOf'[q_recv[i].conn]
               PROVE  d \in ended \union unreported \/ EndQueued(q_recv, d, i - 1)
    BY <2>3 DEF RequestBehind, EndQueued
  <2>1. q_recv[i].conn \in Conns
    BY OrderTypes
  <2>2. d \in Conns
    BY <1>2, <2>1
  <2> QED
    BY <1>2, <2>1, <2>2 DEF NewsInv, RequestBehind
<1>7. EndAnnounced'
  <2> SUFFICES ASSUME NEW c \in Conns', NEW d \in 1 .. (c - 1), port = "world",
                      handled[c] # 0, fdOf'[d] = fdOf'[c]
               PROVE  d \in ended \union unreported
    BY <1>1 DEF EndAnnounced
  <2>1. c \in Conns
    BY <1>2 DEF NewsInv, NotYet
  <2>2. d \in Conns
    BY <1>2, <2>1
  <2> QED
    BY <1>2, <2>1, <2>2 DEF NewsInv, EndAnnounced
<1> QED
  BY <1>3, <1>4, <1>5, <1>6, <1>7 DEF NewsInv

LEMMA PushKeepsNews ==
    ASSUME OrderBase, NewsInv, Push
    PROVE  NewsInv'
<1>1. /\ ioPc \in {"push", "closePush"} /\ ioPc' \in {"read", "loop"}
      /\ UNCHANGED tableVars /\ UNCHANGED <<port, handled, ended>>
      /\ \/ q_recv' = Append(q_recv, ioMsg) /\ unreported' = unreported
         \/ q_recv' = q_recv /\ unreported' = unreported \union ({ioMsg.conn} \ open)
  BY DEF Push
<1>2. /\ ioMsg \in Named /\ ioMsg.conn = cur
      /\ ioPc = "push" => ioMsg.n # 0 /\ cur \in open
      /\ ioPc = "closePush" => ioMsg.n = 0 /\ cur \in Conns \ open
      /\ q_recv \in Seq(Named)
  BY <1>1, OrderTypes DEF OrderBase, MsgInv, IoHeld, TableInv, ReadsOpen
<1>3. CASE q_recv' = q_recv /\ unreported' = unreported \union ({ioMsg.conn} \ open)
  BY <1>1, <1>2, <1>3, NewsKept
<1>4. CASE q_recv' = Append(q_recv, ioMsg) /\ unreported' = unreported
  <2>0. UNCHANGED <<fdOf, open, orphans>> /\ Conns' = Conns
    BY <1>1 DEF tableVars, Conns
  <2> DEFINE l == Len(q_recv)
  <2>1. /\ l \in Nat /\ Len(q_recv') = l + 1
        /\ \A i \in 1 .. l : q_recv'[i] = q_recv[i]
        /\ q_recv'[l + 1] = ioMsg
    BY <1>2, <1>4, AppendFacts
  <2>2. \A c : \A n \in 0 .. l : EndQueued(q_recv, c, n) => EndQueued(q_recv', c, n)
    BY <2>1 DEF EndQueued
  <2>3. \A c : EndQueued(q_recv, c, l) => EndQueued(q_recv', c, l + 1)
    BY <2>1 DEF EndQueued
  <2>4. ioPc = "closePush" => EndQueued(q_recv', cur, l + 1)
    BY <1>2, <2>1 DEF EndQueued
  <2>5. EndsOnTheWay'
    BY <1>1, <1>2, <1>4, <2>0, <2>1, <2>3, <2>4 DEF NewsInv, EndsOnTheWay
  <2>6. RequestBehind'
    <3> SUFFICES ASSUME port = "world", NEW i \in 1 .. (l + 1), q_recv'[i].n # 0,
                        NEW d \in 1 .. (q_recv'[i].conn - 1), fdOf[d] = fdOf[q_recv'[i].conn]
                 PROVE  d \in ended \union unreported \/ EndQueued(q_recv', d, i - 1)
      BY <1>1, <1>4, <2>0, <2>1 DEF RequestBehind
    <3>1. CASE i \in 1 .. l
      <4>1. q_recv'[i] = q_recv[i] /\ i - 1 \in 0 .. l
        BY <2>1, <3>1
      <4>2. d \in ended \union unreported \/ EndQueued(q_recv, d, i - 1)
        BY <3>1, <4>1 DEF NewsInv, RequestBehind
      <4> QED
        BY <2>2, <4>1, <4>2
    <3>2. CASE i = l + 1
      <4>1. ioPc = "push" /\ cur \in open /\ q_recv'[i] = ioMsg /\ ioMsg.conn = cur
        BY <1>1, <1>2, <2>1, <3>2
      <4>2. d \in Conns /\ d # cur /\ fdOf[d] = fdOf[cur]
        BY <4>1 DEF OrderBase, TableInv, TableTypes, Conns
      <4>3. d \notin open
        BY <4>1, <4>2 DEF OrderBase, TableInv, TableOK
      <4>4. fdOf[d] \notin orphans
        BY <4>1, <4>2 DEF NewsInv, NotOrphan
      <4>5. d \in ended \union unreported \/ EndQueued(q_recv, d, l)
        BY <4>1, <4>2, <4>3, <4>4 DEF NewsInv, EndsOnTheWay
      <4>6. l \in 0 .. l /\ i - 1 = l
        BY <2>1, <3>2
      <4> QED
        BY <2>2, <4>5, <4>6
    <3> QED
      BY <2>1, <3>1, <3>2
  <2>7. NotOrphan' /\ NotYet' /\ EndAnnounced'
    BY <1>1, <1>4, <2>0 DEF NewsInv, NotOrphan, NotYet, EndAnnounced
  <2> QED
    BY <2>5, <2>6, <2>7 DEF NewsInv
<1> QED
  BY <1>1, <1>3, <1>4

LEMMA PopKeepsNews ==
    ASSUME OrderBase, NewsInv, HandlePop
    PROVE  NewsInv'
<1> DEFINE m == Head(q_recv)
<1>1. /\ q_recv # <<>> /\ q_recv' = Tail(q_recv)
      /\ UNCHANGED tableVars /\ UNCHANGED <<port, ioPc, cur, unreported>>
      /\ handled' = IF m.n = 0 THEN handled ELSE [handled EXCEPT ![m.conn] = m.n]
      /\ ended' = IF m.n = 0 THEN ended \union {m.conn} ELSE ended
  BY DEF HandlePop, ioVars
<1>2. UNCHANGED <<fdOf, open, orphans>> /\ Conns' = Conns
  BY <1>1 DEF tableVars, Conns
<1>3. /\ m \in Named /\ m.conn \in Conns /\ m = q_recv[1] /\ 1 \in 1 .. Len(q_recv)
      /\ Len(q_recv) \in Nat /\ Len(q_recv') = Len(q_recv) - 1
      /\ \A i \in 1 .. Len(q_recv') : i + 1 \in 1 .. Len(q_recv) /\ q_recv'[i] = q_recv[i + 1]
      /\ handled \in [AllConns -> Nat] /\ Conns \subseteq AllConns
  BY <1>1, OrderTypes, PopFacts
<1> HIDE DEF m
<1>4. \A c : \A n \in 0 .. Len(q_recv') :
          EndQueued(q_recv, c, n + 1) => EndQueued(q_recv', c, n) \/ c \in ended'
  <2> SUFFICES ASSUME NEW c, NEW n \in 0 .. Len(q_recv'), NEW i \in 1 .. (n + 1),
                      q_recv[i].conn = c, q_recv[i].n = 0
               PROVE  EndQueued(q_recv', c, n) \/ c \in ended'
    BY DEF EndQueued
  <2>1. CASE i = 1
    BY <1>1, <1>3, <2>1
  <2>2. CASE i # 1
    <3>1. i - 1 \in 1 .. n /\ i - 1 \in 1 .. Len(q_recv') /\ q_recv'[i - 1] = q_recv[i]
      <4>1. i - 1 \in 1 .. n /\ i - 1 \in 1 .. Len(q_recv') /\ (i - 1) + 1 = i
        BY <1>3, <2>2
      <4> QED
        BY <1>3, <4>1
    <3> QED
      BY <3>1 DEF EndQueued
  <2> QED
    BY <2>1, <2>2
<1>5. ended \subseteq ended'
  BY <1>1
<1>6. EndsOnTheWay'
  <2> SUFFICES ASSUME port = "world", NEW c \in Conns \ open
               PROVE  \/ fdOf[c] \in orphans \/ c \in ended' \union unreported
                      \/ EndQueued(q_recv', c, Len(q_recv'))
                      \/ ioPc \in {"closeAlloc", "closePush"} /\ cur = c
    BY <1>1, <1>2 DEF EndsOnTheWay
  <2>1. Len(q_recv') \in 0 .. Len(q_recv') /\ Len(q_recv') + 1 = Len(q_recv)
    BY <1>3
  <2>2. \/ fdOf[c] \in orphans \/ c \in ended \union unreported
        \/ EndQueued(q_recv, c, Len(q_recv))
        \/ ioPc \in {"closeAlloc", "closePush"} /\ cur = c
    BY DEF NewsInv, EndsOnTheWay
  <2> QED
    BY <1>4, <1>5, <2>1, <2>2
<1>7. RequestBehind'
  <2> SUFFICES ASSUME port = "world", NEW i \in 1 .. Len(q_recv'), q_recv'[i].n # 0,
                      NEW d \in 1 .. (q_recv'[i].conn - 1), fdOf[d] = fdOf[q_recv'[i].conn]
               PROVE  d \in ended' \union unreported \/ EndQueued(q_recv', d, i - 1)
    BY <1>1, <1>2 DEF RequestBehind
  <2>1. /\ i + 1 \in 1 .. Len(q_recv) /\ q_recv'[i] = q_recv[i + 1]
        /\ i - 1 \in 0 .. Len(q_recv') /\ (i - 1) + 1 = i /\ (i + 1) - 1 = i
    BY <1>3
  <2>2. d \in ended \union unreported \/ EndQueued(q_recv, d, i)
    BY <2>1 DEF NewsInv, RequestBehind
  <2> QED
    BY <1>4, <1>5, <2>1, <2>2
<1>8. EndAnnounced'
  <2> SUFFICES ASSUME NEW c \in Conns, NEW d \in 1 .. (c - 1), port = "world",
                      handled'[c] # 0, fdOf[d] = fdOf[c]
               PROVE  d \in ended' \union unreported
    BY <1>1, <1>2 DEF EndAnnounced
  <2>1. CASE handled[c] # 0
    BY <1>5, <2>1 DEF NewsInv, EndAnnounced
  <2>2. CASE handled[c] = 0
    <3>1. m.n # 0 /\ m.conn = c
      BY <1>1, <1>3, <2>2
    <3>2. d \in ended \union unreported \/ EndQueued(q_recv, d, 1 - 1)
      BY <1>3, <3>1 DEF NewsInv, RequestBehind
    <3>3. ~EndQueued(q_recv, d, 1 - 1)
      BY DEF EndQueued
    <3> QED
      BY <1>5, <3>2, <3>3
  <2> QED
    BY <2>1, <2>2
<1>9. NotOrphan' /\ NotYet'
  BY <1>1, <1>2, <1>3 DEF NewsInv, NotOrphan, NotYet
<1> QED
  BY <1>6, <1>7, <1>8, <1>9 DEF NewsInv

LEMMA NextNews == OrderBase /\ NewsInv /\ [Next]_vars => NewsInv'
<1> SUFFICES ASSUME OrderBase, NewsInv, [Next]_vars PROVE NewsInv'
  OBVIOUS
<1>1. ASSUME NEW fd \in 0 .. fd_max, Accept(fd) PROVE NewsInv'
  BY <1>1, AcceptKeepsNews
<1>2. ASSUME NEW c \in open, Event(c) PROVE NewsInv'
  <2>1. /\ Close(c) /\ UNCHANGED <<port, q_recv, handled, ended, unreported>> /\ ioPc = "loop"
        /\ port = "admin" \/ (ioPc' = "closeAlloc" /\ cur' = c)
    BY <1>2 DEF Event, history
  <2> QED
    BY <2>1, CloseKeepsNews
<1>3. CASE ReadBad
  <2>1. /\ Close(cur) /\ UNCHANGED <<port, q_recv, handled, ended, unreported>> /\ ioPc = "read"
        /\ port = "admin" \/ (ioPc' = "closeAlloc" /\ cur' = cur)
    BY <1>3 DEF ReadBad, history
  <2>2. cur \in open
    BY <2>1 DEF OrderBase, TableInv, ReadsOpen
  <2> QED
    BY <2>1, <2>2, CloseKeepsNews
<1>4. CASE \/ UNCHANGED vars \/ (\E c \in open, bad \in BOOLEAN : PeerSend(c, bad))
           \/ (\E c \in open : Readable(c)) \/ ReadStops \/ GiveBack \/ ReadFrame
           \/ CloseAlloc \/ Sending \/ HandleFree \/ ReplyAlloc \/ NoReply \/ ReplyPush
  <2>1. /\ UNCHANGED tableVars /\ UNCHANGED <<port, q_recv, handled, ended>>
        /\ unreported \subseteq unreported'
    BY <1>4 DEF vars, PeerSend, Readable, ReadStops, GiveBack, ReadFrame, CloseAlloc, Sending,
                Tick, SendFree, TickDone, HandleFree, ReplyAlloc, NoReply, ReplyPush, history
  <2>2. ioPc \in {"closeAlloc", "closePush"} =>
            \/ ioPc' \in {"closeAlloc", "closePush"} /\ cur' = cur
            \/ cur \in ended' \union unreported'
    BY <1>4 DEF vars, PeerSend, Readable, ReadStops, GiveBack, ReadFrame, CloseAlloc, Sending,
                Tick, SendFree, TickDone, HandleFree, ReplyAlloc, NoReply, ReplyPush, ioVars
  <2> QED
    BY <2>1, <2>2, NewsKept
<1>5. CASE Push \/ HandlePop
  BY <1>5, PushKeepsNews, PopKeepsNews
<1> QED
  BY <1>1, <1>2, <1>3, <1>4, <1>5 DEF Next, EventLoop, Reading, Logic

-----------------------------------------------------------------------------
(* What follows *)

PortInv == TableInv /\ MsgInv /\ BlocksInv /\ AnswerInv /\ OrderInv /\ NewsInv

LEMMA PortAlways == Spec => []PortInv
<1>1. Init => PortInv
  BY InitTable, InitMsg, InitBlocks, InitAnswer, InitOrder, InitNews DEF PortInv
<1>2. PortInv /\ [Next]_vars => PortInv'
  BY NextTable, NextMsg, NextBlocks, NextAnswer, NextOrder, NextNews DEF PortInv, OrderBase
<1> QED
  BY <1>1, <1>2, PTL DEF Spec

(***************************************************************************)
(* The table names the connections there are, and no block is lost on any  *)
(* path of the admin port; the world loses one at most (thread_admin.h:36, *)
(* thread_inner.h:82 and :146).                                            *)
(***************************************************************************)
THEOREM PortSafe == Spec => []PortSound
<1>1. ASSUME PortInv PROVE PortSound
  <2>1. BlocksConserved /\ free \in [{"recv", "send"} -> 0 .. Cap]
    BY <1>1, CountsAgree DEF PortInv
  <2>2. q_recv \in Seq(Messages) /\ q_send \in Seq(Messages)
    BY <1>1 DEF PortInv, MsgInv, QueueTypes, Named
  <2>3. TypeOK
    BY <1>1, <2>1, <2>2 DEF PortInv, TableInv, TableTypes, MsgInv, InputTypes, IoHeld, LgHeld,
                            TypeOK
  <2> QED
    BY <1>1, <2>1, <2>3 DEF PortSound, PortInv, TableInv
<1> QED
  BY <1>1, PortAlways, PTL

(***************************************************************************)
(* An answer reaches another connection only when the one that asked is    *)
(* closed, and the answers to one asker keep the order of its requests     *)
(* (thread_admin.h:69, thread_inner.h:134).                                *)
(***************************************************************************)
THEOREM AnswersReachAsker == Spec => []StrayOnlyAfterClose
<1>1. ASSUME PortInv PROVE StrayOnlyAfterClose
  <2> SUFFICES ASSUME NEW c \in AllConns, NEW i \in 1 .. Len(wrote[c])
               PROVE  /\ wrote[c][i].conn # c => wrote[c][i].conn \notin open
                      /\ \A j \in 1 .. (i - 1) :
                             wrote[c][i].conn = wrote[c][j].conn => wrote[c][j].n < wrote[c][i].n
    BY DEF StrayOnlyAfterClose
  <2>1. wrote[c][i].conn # c => wrote[c][i].conn \notin open
    BY <1>1 DEF PortInv, AnswerInv, StrayConn
  <2>2. wrote[c] \in Seq(Requests)
    BY <1>1 DEF PortInv, AnswerInv, AnswerTypes
  <2>3. \A k \in 1 .. Len(wrote[c]) : wrote[c][k].n # 0
    BY <2>2 DEF Requests
  <2>4. InOrder(wrote[c])
    BY <1>1 DEF PortInv, OrderInv, Answered
  <2>5. \A j \in 1 .. (i - 1) : j \in 1 .. Len(wrote[c]) /\ j < i
    BY <2>2
  <2> QED
    BY <2>1, <2>3, <2>4, <2>5 DEF InOrder
<1> QED
  BY <1>1, PortAlways, PTL

(***************************************************************************)
(* The world's logic has been told the end of each earlier connection with *)
(* a descriptor, or could not be, before it meets the next                 *)
(* (thread_inner.h:146).                                                   *)
(***************************************************************************)
THEOREM EndsComeFirst == Spec => []EndAnnounced
<1>1. PortInv => EndAnnounced
  BY DEF PortInv, NewsInv
<1> QED
  BY <1>1, PortAlways, PTL
=============================================================================
