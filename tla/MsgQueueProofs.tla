--------------------------- MODULE MsgQueueProofs ---------------------------
(***************************************************************************)
(* Proofs about MsgQueue for every number of slots, producers and          *)
(* messages.  RingInv is the inductive invariant: what each thread knows   *)
(* of the ring between its test of the indices and its store to one.       *)
(***************************************************************************)
EXTENDS MsgQueue, TLAPS

\* The step of a ring index, without the modulus.
LEMMA NextSlotValue ==
    ASSUME NEW i \in Slots
    PROVE  NextSlot(i) = IF i + 1 = cap THEN 0 ELSE i + 1
BY QueueAssumption DEF Slots, NextSlot

\* A ring index stays inside the ring.
LEMMA NextSlotType ==
    ASSUME NEW i \in Slots
    PROVE  NextSlot(i) \in Slots
BY NextSlotValue, QueueAssumption DEF Slots

-----------------------------------------------------------------------------
\* Every step keeps the indices inside the ring and the slots, locks and
\* locals of push, pop and getfront in their ranges.
THEOREM TypeCorrect == Spec => []TypeOK
<1>1. Init => TypeOK
  BY QueueAssumption DEF Init, TypeOK, Slots
<1>2. TypeOK /\ [Next]_vars => TypeOK'
  <2> SUFFICES ASSUME TypeOK, [Next]_vars PROVE TypeOK'
    OBVIOUS
  <2> USE DEF TypeOK, pushVars, popVars
  <2>1. ASSUME NEW p \in Producers, NEW m \in Msgs, PushCall(p, m) PROVE TypeOK'
    BY <2>1 DEF PushCall
  <2>2. ASSUME NEW p \in Producers, PushLock(p) PROVE TypeOK'
    BY <2>2 DEF PushLock
  <2>3. ASSUME NEW p \in Producers, PushCheck(p) PROVE TypeOK'
    BY <2>3 DEF PushCheck, PushReturn
  <2>4. ASSUME NEW p \in Producers, PushStore(p) PROVE TypeOK'
    BY <2>4 DEF PushStore
  <2>5. ASSUME NEW p \in Producers, PushAdvance(p) PROVE TypeOK'
    BY <2>5, NextSlotType DEF PushAdvance, PushReturn
  <2>6. ASSUME NEW p \in Producers, PushUnlock(p) PROVE TypeOK'
    BY <2>6 DEF PushUnlock
  <2>7. CASE PopCheck
    BY <2>7 DEF PopCheck
  <2>8. CASE PopRead
    BY <2>8 DEF PopRead
  <2>9. CASE PopClear
    BY <2>9 DEF PopClear
  <2>10. CASE PopAdvance
    BY <2>10, NextSlotType DEF PopAdvance
  <2>11. CASE GetFrontCheck
    BY <2>11 DEF GetFrontCheck
  <2>12. CASE GetFrontRead
    BY <2>12 DEF GetFrontRead
  <2>13. CASE UNCHANGED vars
    BY <2>13 DEF vars
  <2>14. QED
    BY <2>1, <2>2, <2>3, <2>4, <2>5, <2>6, <2>7, <2>8, <2>9, <2>10, <2>11,
       <2>12, <2>13 DEF Next, Push, PushInLock, Pop, PopStep, GetFront
<1>3. QED
  BY <1>1, <1>2, PTL DEF Spec

-----------------------------------------------------------------------------
(* The inductive invariant *)

\* The slots from front up to back, as inequalities on the indices.
Between(i) ==
    IF front <= back THEN front <= i /\ i < back ELSE front <= i \/ i < back

LockInv ==
    /\ \A p1, p2 \in Producers : InCritical(p1) /\ InCritical(p2) => p1 = p2
    /\ \A p \in Producers : multi_push /\ InCritical(p) => push_lock = 1
    /\ \A p \in Producers : pushPc[p] \in {"lock", "unlock"} => multi_push

PushInv ==
    \A p \in Producers :
        /\ arg[p] # NULL <=> pushPc[p] \in {"lock", "check", "store", "advance"}
        /\ pushPc[p] \in {"store", "advance"} => ~Full
        /\ pushPc[p] = "advance" => q[back] = arg[p]

PopInv ==
    /\ popPc # "idle" => front # back
    /\ popPc = "clear" => ret = q[front]
    /\ popPc = "advance" => ret # NULL /\ q[front] = NULL

SlotInv ==
    \A i \in Slots :
        IF Between(i)
        THEN q[i] # NULL \/ (i = front /\ popPc = "advance")
        ELSE q[i] = NULL \/ (i = back /\ \E p \in Producers : pushPc[p] = "advance")

RingInv ==
    /\ TypeOK
    /\ LockInv
    /\ PushInv
    /\ PopInv
    /\ SlotInv

\* The first half of the induction: an empty ring satisfies the invariant.
LEMMA InitRing == Init => RingInv
BY QueueAssumption DEF Init, RingInv, TypeOK, LockInv, PushInv, PopInv,
   SlotInv, Slots, InCritical, Between

\* The second half: every step of push, pop and getfront preserves it.
LEMMA StepRing == RingInv /\ TypeOK' /\ [Next]_vars => RingInv'
<1> SUFFICES ASSUME RingInv, TypeOK', [Next]_vars
             PROVE  LockInv' /\ PushInv' /\ PopInv' /\ SlotInv'
  BY DEF RingInv
<1> USE QueueAssumption DEF RingInv, TypeOK, pushVars, popVars, Slots
<1>1. ASSUME NEW p \in Producers, NEW m \in Msgs, PushCall(p, m)
      PROVE  LockInv' /\ PushInv' /\ PopInv' /\ SlotInv'
  <2>1. LockInv'
    BY <1>1 DEF PushCall, LockInv, InCritical
  <2>2. PushInv'
    BY <1>1 DEF PushCall, PushInv, Full
  <2>3. PopInv'
    BY <1>1 DEF PushCall, PopInv
  <2>4. SlotInv'
    BY <1>1 DEF PushCall, SlotInv, Between
  <2>5. QED
    BY <2>1, <2>2, <2>3, <2>4
<1>2. ASSUME NEW p \in Producers, PushLock(p)
      PROVE  LockInv' /\ PushInv' /\ PopInv' /\ SlotInv'
  <2>1. LockInv'
    BY <1>2 DEF PushLock, LockInv, InCritical
  <2>2. PushInv'
    BY <1>2 DEF PushLock, PushInv, LockInv, InCritical
  <2>3. PopInv'
    BY <1>2 DEF PushLock, PopInv
  <2>4. SlotInv'
    BY <1>2 DEF PushLock, SlotInv, Between
  <2>5. QED
    BY <2>1, <2>2, <2>3, <2>4
<1>3. ASSUME NEW p \in Producers, PushCheck(p)
      PROVE  LockInv' /\ PushInv' /\ PopInv' /\ SlotInv'
  <2>1. LockInv'
    BY <1>3 DEF PushCheck, PushReturn, LockInv, InCritical
  <2>2. PushInv'
    BY <1>3 DEF PushCheck, PushReturn, PushInv, Full
  <2>3. PopInv'
    BY <1>3 DEF PushCheck, PopInv
  <2>4. SlotInv'
    BY <1>3 DEF PushCheck, SlotInv, Between
  <2>5. QED
    BY <2>1, <2>2, <2>3, <2>4
<1>4. ASSUME NEW p \in Producers, PushStore(p)
      PROVE  LockInv' /\ PushInv' /\ PopInv' /\ SlotInv'
  <2>1. LockInv'
    BY <1>4 DEF PushStore, LockInv, InCritical
  <2>2. PushInv'
    BY <1>4 DEF PushStore, PushInv, Full, LockInv, InCritical
  <2>3. PopInv'
    BY <1>4 DEF PushStore, PopInv
  <2>4. SlotInv'
    BY <1>4 DEF PushStore, SlotInv, Between
  <2>5. QED
    BY <2>1, <2>2, <2>3, <2>4
<1>5. ASSUME NEW p \in Producers, PushAdvance(p)
      PROVE  LockInv' /\ PushInv' /\ PopInv' /\ SlotInv'
  <2>1. LockInv'
    BY <1>5 DEF PushAdvance, PushReturn, LockInv, InCritical
  <2>2. PushInv'
    BY <1>5 DEF PushAdvance, PushReturn, PushInv, LockInv, InCritical
  <2>3. PopInv'
    BY <1>5 DEF PushAdvance, PopInv, PushInv, Full
  <2>4. SlotInv'
    BY <1>5, NextSlotValue, SMTT(30) DEF PushAdvance, SlotInv, Between, PushInv, Full
  <2>5. QED
    BY <2>1, <2>2, <2>3, <2>4
<1>6. ASSUME NEW p \in Producers, PushUnlock(p)
      PROVE  LockInv' /\ PushInv' /\ PopInv' /\ SlotInv'
  <2>1. LockInv'
    BY <1>6 DEF PushUnlock, LockInv, InCritical
  <2>2. PushInv'
    BY <1>6 DEF PushUnlock, PushInv, LockInv, InCritical
  <2>3. PopInv'
    BY <1>6 DEF PushUnlock, PopInv
  <2>4. SlotInv'
    BY <1>6 DEF PushUnlock, SlotInv, Between
  <2>5. QED
    BY <2>1, <2>2, <2>3, <2>4
<1>7. CASE PopCheck
  <2>1. LockInv'
    BY <1>7 DEF PopCheck, LockInv, InCritical
  <2>2. PushInv'
    BY <1>7 DEF PopCheck, PushInv, Full
  <2>3. PopInv'
    BY <1>7 DEF PopCheck, PopInv
  <2>4. SlotInv'
    BY <1>7 DEF PopCheck, SlotInv, Between
  <2>5. QED
    BY <2>1, <2>2, <2>3, <2>4
<1>8. CASE PopRead
  <2>1. LockInv'
    BY <1>8 DEF PopRead, LockInv, InCritical
  <2>2. PushInv'
    BY <1>8 DEF PopRead, PushInv, Full
  <2>3. PopInv'
    BY <1>8 DEF PopRead, PopInv
  <2>4. SlotInv'
    BY <1>8 DEF PopRead, SlotInv, Between
  <2>5. QED
    BY <2>1, <2>2, <2>3, <2>4
<1>9. CASE PopClear
  <2>1. LockInv'
    BY <1>9 DEF PopClear, LockInv, InCritical
  <2>2. PushInv'
    BY <1>9 DEF PopClear, PushInv, Full, PopInv
  <2>3. PopInv'
    BY <1>9 DEF PopClear, PopInv, SlotInv, Between
  <2>4. SlotInv'
    BY <1>9 DEF PopClear, SlotInv, Between
  <2>5. QED
    BY <2>1, <2>2, <2>3, <2>4
<1>10. CASE PopAdvance
  <2>1. LockInv'
    BY <1>10 DEF PopAdvance, LockInv, InCritical
  <2>2. PushInv'
    BY <1>10, NextSlotValue DEF PopAdvance, PushInv, Full, PopInv
  <2>3. PopInv'
    BY <1>10 DEF PopAdvance, PopInv
  <2>4. SlotInv'
    BY <1>10, NextSlotValue DEF PopAdvance, SlotInv, Between, PopInv
  <2>5. QED
    BY <2>1, <2>2, <2>3, <2>4
<1>11. CASE GetFrontCheck
  <2>1. LockInv'
    BY <1>11 DEF GetFrontCheck, LockInv, InCritical
  <2>2. PushInv'
    BY <1>11 DEF GetFrontCheck, PushInv, Full
  <2>3. PopInv'
    BY <1>11 DEF GetFrontCheck, PopInv
  <2>4. SlotInv'
    BY <1>11 DEF GetFrontCheck, SlotInv, Between
  <2>5. QED
    BY <2>1, <2>2, <2>3, <2>4
<1>12. CASE GetFrontRead
  <2>1. LockInv'
    BY <1>12 DEF GetFrontRead, LockInv, InCritical
  <2>2. PushInv'
    BY <1>12 DEF GetFrontRead, PushInv, Full
  <2>3. PopInv'
    BY <1>12 DEF GetFrontRead, PopInv
  <2>4. SlotInv'
    BY <1>12 DEF GetFrontRead, SlotInv, Between
  <2>5. QED
    BY <2>1, <2>2, <2>3, <2>4
<1>13. CASE UNCHANGED vars
  BY <1>13 DEF vars, LockInv, PushInv, PopInv, SlotInv, InCritical, Full,
     Between
<1>14. QED
  BY <1>1, <1>2, <1>3, <1>4, <1>5, <1>6, <1>7, <1>8, <1>9, <1>10, <1>11,
     <1>12, <1>13 DEF Next, Push, PushInLock, Pop, PopStep, GetFront

\* In every reachable state a thread that has tested the indices may rely on
\* what it saw: the invariant that msg_queue's lock-free design rests on.
THEOREM RingCorrect == Spec => []RingInv
BY InitRing, StepRing, TypeCorrect, PTL DEF Spec

-----------------------------------------------------------------------------
(* The contents of the ring *)

\* Size and SlotOf enumerate the slots between front and back, each once.
LEMMA SizeFacts ==
    ASSUME TypeOK
    PROVE  /\ Size \in 0 .. (cap - 1)
           /\ Size = 0 <=> front = back
           /\ Size = cap - 1 <=> Full
           /\ \A k \in 1 .. Size : SlotOf(k) \in Slots
           /\ \A k \in 1 .. Size : k # 1 => SlotOf(k) # front
           /\ \A k \in 1 .. Size : SlotOf(k) # back
           /\ Size # 0 => SlotOf(1) = front
           /\ \A i \in Slots : Between(i) <=> Occupied(i)
<1> USE QueueAssumption DEF TypeOK, Slots, Size, SlotOf
<1>1. Full <=> IF back + 1 = cap THEN front = 0 ELSE front = back + 1
  BY NextSlotValue DEF Full
<1>2. ASSUME NEW i \in Slots PROVE Between(i) <=> Occupied(i)
  <2>1. ASSUME Between(i) PROVE Occupied(i)
    <3>1. CASE front <= i
      BY <2>1, <3>1, i - front + 1 \in 1 .. Size, i = SlotOf(i - front + 1)
         DEF Between, Occupied
    <3>2. CASE ~(front <= i)
      BY <2>1, <3>2, i + cap - front + 1 \in 1 .. Size,
         i = SlotOf(i + cap - front + 1) DEF Between, Occupied
    <3>3. QED BY <3>1, <3>2
  <2>2. ASSUME Occupied(i) PROVE Between(i)
    BY <2>2 DEF Between, Occupied
  <2>3. QED BY <2>1, <2>2
<1>3. QED
  BY <1>1, <1>2

\* A slot holds a message exactly while it lies between front and back, and a
\* pushing thread is alone with the slot it fills.
THEOREM RingSafe == Spec => []RingSound
<1>1. RingInv => SlotsMatchIndices
  <2> SUFFICES ASSUME RingInv PROVE SlotsMatchIndices
    OBVIOUS
  <2>1. \A i \in Slots : Between(i) <=> Occupied(i)
    BY SizeFacts DEF RingInv
  <2>2. QED
    BY <2>1 DEF RingInv, SlotInv, PopInv, SlotsMatchIndices
<1>2. RingInv => PushExclusive
  <2> SUFFICES ASSUME RingInv PROVE PushExclusive
    OBVIOUS
  <2>1. ASSUME NEW p \in Producers, pushPc[p] = "store"
        PROVE q[back] = NULL
    BY <2>1 DEF RingInv, TypeOK, Slots, SlotInv, Between, LockInv, InCritical
  <2>2. QED
   BY <2>1 DEF RingInv, LockInv, PushInv, PushExclusive
<1>3. RingInv => RingSound
  BY <1>1, <1>2 DEF RingInv, RingSound
<1>4. QED
  BY <1>3, RingCorrect, PTL

\* Contents is a sequence of messages, empty exactly when pop says so.
LEMMA ContentsSeq ==
    TypeOK => /\ Contents \in Seq(Msgs \union {NULL})
              /\ Len(Contents) = Size
              /\ Contents = <<>> <=> front = back
<1> SUFFICES ASSUME TypeOK
             PROVE  /\ Contents \in Seq(Msgs \union {NULL})
                    /\ Len(Contents) = Size
                    /\ Contents = <<>> <=> front = back
  OBVIOUS
<1> DEFINE elt(k) == IF k = 1 /\ popPc = "advance" THEN ret ELSE q[SlotOf(k)]
<1>1. Size \in Nat
  BY SizeFacts
<1>2. \A k \in 1 .. Size : elt(k) \in Msgs \union {NULL}
  BY SizeFacts DEF TypeOK
<1>3. Contents = [k \in 1 .. Size |-> elt(k)]
  BY DEF Contents
<1> HIDE DEF elt
<1>4. Contents \in Seq(Msgs \union {NULL}) /\ Len(Contents) = Size
  BY <1>1, <1>2, <1>3
<1>5. QED
  BY <1>4, SizeFacts

\* push publishes its message behind all others (msg_queue.h:64).
LEMMA PushAppends ==
    ASSUME RingInv, NEW p \in Producers, PushAdvance(p)
    PROVE  Contents' = Append(Contents, arg[p])
<1> USE QueueAssumption DEF RingInv
<1>1. TypeOK'
  BY NextSlotType DEF TypeOK, PushAdvance, PushReturn, popVars
<1>2. (Contents \in Seq(Msgs \union {NULL}) /\ Len(Contents) = Size)'
  BY <1>1, ContentsSeq, PTL
<1>3. /\ Size' = Size + 1
      /\ SlotOf(Size + 1) = back
      /\ \A k \in 1 .. Size + 1 : SlotOf(k)' = SlotOf(k)
  <2>1. /\ front' = front
        /\ front \in Slots /\ back \in Slots
        /\ back' = IF back + 1 = cap THEN 0 ELSE back + 1
        /\ back' # front
    BY NextSlotValue DEF PushAdvance, TypeOK, PushInv, Full, popVars
  <2>2. Size' = Size + 1 /\ SlotOf(Size + 1) = back
    BY <2>1 DEF Size, SlotOf, Slots
  <2>3. QED
    BY <2>1, <2>2 DEF SlotOf
<1>4. Contents'[Size + 1] = arg[p]
  <2>1. Size + 1 \in 1 .. Size'
    BY <1>3, SizeFacts
  <2>2. ~(Size + 1 = 1 /\ popPc' = "advance")
    BY SizeFacts DEF PushAdvance, popVars, PopInv
  <2>3. q'[SlotOf(Size + 1)] = arg[p]
    BY <1>3 DEF PushAdvance, PushInv
  <2>4. \A k \in 1 .. Size + 1 : q'[SlotOf(k)'] = q'[SlotOf(k)]
    BY <1>3
  <2>5. QED
    BY <2>1, <2>2, <2>3, <1>3 DEF Contents
<1>5. \A k \in 1 .. Size : Contents'[k] = Contents[k]
  BY <1>3, SizeFacts DEF PushAdvance, Contents, popVars
<1>6. QED
  BY <1>2, <1>3, <1>4, <1>5, ContentsSeq

\* pop removes the oldest message and returns it (msg_queue.h:32-35).
LEMMA PopTakesHead ==
    ASSUME RingInv, PopAdvance
    PROVE  /\ Contents # <<>>
           /\ ret = Head(Contents)
           /\ Contents' = Tail(Contents)
<1> USE QueueAssumption DEF RingInv
<1>1. TypeOK'
  BY NextSlotType DEF TypeOK, PopAdvance, pushVars
<1>2. (Contents \in Seq(Msgs \union {NULL}) /\ Len(Contents) = Size)'
  BY <1>1, ContentsSeq, PTL
<1>3. front # back
  BY DEF PopAdvance, PopInv
<1>4. /\ Size' = Size - 1
      /\ \A k \in 1 .. Size' : SlotOf(k)' = SlotOf(k + 1)
  BY <1>3, NextSlotValue DEF PopAdvance, Size, SlotOf, TypeOK, Slots, pushVars
<1>5. Contents # <<>> /\ ret = Contents[1]
  BY <1>3, SizeFacts DEF Contents, PopAdvance
<1>6. \A k \in 1 .. Size' : Contents'[k] = Contents[k + 1]
  BY <1>4, SizeFacts DEF PopAdvance, Contents
<1>7. QED
  BY <1>2, <1>4, <1>5, <1>6, ContentsSeq

\* The ring implements the bounded FIFO channel of cap - 1 messages.
THEOREM RefinesFifoCorrect == Spec => RefinesFifo
<1>1. Init => Fifo!Init
  <2> SUFFICES ASSUME Init PROVE Fifo!Init
    OBVIOUS
  <2>1. TypeOK /\ front = back
    BY QueueAssumption DEF Init, TypeOK, Slots
  <2>2. QED
    BY <2>1, ContentsSeq DEF Init, Fifo!Init
<1>2. RingInv /\ TypeOK' /\ [Next]_vars => [Fifo!Next]_(Fifo!vars)
  <2> SUFFICES ASSUME RingInv, TypeOK', [Next]_vars
               PROVE  Fifo!Next \/ UNCHANGED <<Contents, arg, got>>
    BY DEF Fifo!vars
  <2> USE QueueAssumption DEF RingInv
  <2>0. /\ Contents \in Seq(Msgs \union {NULL})
        /\ Len(Contents) = Size
        /\ Contents = <<>> <=> front = back
    BY ContentsSeq
  <2>1. ASSUME NEW p \in Producers, NEW m \in Msgs, PushCall(p, m)
        PROVE  Fifo!Call(p, m)
    BY <2>1 DEF PushCall, PushInv, Fifo!Call, Contents, Size, SlotOf, popVars
  <2>2. ASSUME NEW p \in Producers, PushLock(p) \/ PushUnlock(p)
        PROVE  UNCHANGED <<Contents, arg, got>>
    BY <2>2 DEF PushLock, PushUnlock, Contents, Size, SlotOf, popVars
  <2>3. ASSUME NEW p \in Producers, PushCheck(p)
        PROVE  Fifo!Reject(p) \/ UNCHANGED <<Contents, arg, got>>
    <3>1. UNCHANGED <<Contents, got>>
      BY <2>3 DEF PushCheck, Contents, Size, SlotOf, popVars
    <3>2. CASE Full
      BY <2>0, <2>3, <3>1, SizeFacts DEF PushCheck, PushInv, Fifo!Reject
    <3>3. CASE ~Full
      BY <2>3, <3>1, <3>3 DEF PushCheck
    <3>4. QED
      BY <3>2, <3>3
  <2>4. ASSUME NEW p \in Producers, PushStore(p)
        PROVE  UNCHANGED <<Contents, arg, got>>
    <3>1. UNCHANGED <<Size, arg, got, popPc, ret>> /\ \A k : SlotOf(k)' = SlotOf(k)
      BY <2>4 DEF PushStore, Size, SlotOf, popVars
    <3>2. \A k \in 1 .. Size : q'[SlotOf(k)] = q[SlotOf(k)]
      BY <2>4, SizeFacts DEF PushStore
    <3>3. QED
      BY <3>1, <3>2 DEF Contents
  <2>5. ASSUME NEW p \in Producers, PushAdvance(p)
        PROVE  Fifo!Accept(p)
    <3>1. Len(Contents) < cap - 1
      BY <2>0, <2>5, SizeFacts DEF PushAdvance, PushInv
    <3>2. QED
      BY <2>5, <3>1, PushAppends DEF PushAdvance, PushInv, popVars,
         Fifo!Accept
  <2>6. CASE PopCheck \/ GetFrontCheck
    <3>1. UNCHANGED <<Contents, arg>>
      BY <2>6 DEF PopCheck, GetFrontCheck, Contents, Size, SlotOf, pushVars
    <3>2. Fifo!Empty \/ UNCHANGED got
      BY <2>0, <2>6, <3>1 DEF PopCheck, GetFrontCheck, Fifo!Empty
    <3>3. QED
      BY <3>1, <3>2 DEF Fifo!Next
  <2>7. CASE PopRead
    BY <2>7 DEF PopRead, Contents, Size, SlotOf, pushVars
  <2>8. CASE PopClear
    <3>1. UNCHANGED <<Size, arg, got, ret>> /\ \A k : SlotOf(k)' = SlotOf(k)
      BY <2>8 DEF PopClear, Size, SlotOf, pushVars
    <3>2. \A k \in 1 .. Size : k # 1 => q'[SlotOf(k)] = q[SlotOf(k)]
      BY <2>8, SizeFacts DEF PopClear
    <3>3. popPc = "clear" /\ popPc' = "advance" /\ \A k \in 1 .. Size : k = 1 => ret = q[SlotOf(k)]
      BY <2>8, SizeFacts DEF PopClear, PopInv
    <3>4. QED
      BY <3>1, <3>2, <3>3 DEF Contents
  <2>9. CASE PopAdvance
    BY <2>9, PopTakesHead DEF PopAdvance, pushVars, Fifo!Pop, Fifo!Next
  <2>10. CASE GetFrontRead
    <3>1. UNCHANGED <<Contents, arg>>
      BY <2>10 DEF GetFrontRead, Contents, Size, SlotOf, pushVars
    <3>2. Contents # <<>> /\ got' = Contents[1]
      BY <2>10, SizeFacts DEF GetFrontRead, PopInv, Contents
    <3>3. QED
      BY <3>1, <3>2 DEF Fifo!Peek, Fifo!Next
  <2>11. CASE UNCHANGED vars
    BY <2>11 DEF vars, Contents, Size, SlotOf
  <2>12. QED
    BY <2>1, <2>2, <2>3, <2>4, <2>5, <2>6, <2>7, <2>8, <2>9, <2>10, <2>11
       DEF Next, Push, PushInLock, Pop, PopStep, GetFront, Fifo!Next
<1>3. QED
  BY <1>1, <1>2, TypeCorrect, RingCorrect, PTL DEF Spec, RefinesFifo, Fifo!Spec
=============================================================================
