------------------------------ MODULE MsgQueue ------------------------------
(***************************************************************************)
(* msg_queue<tt> of src/common/msg_queue.h: the ring of message pointers   *)
(* through which every two threads of the engine talk.  One action is one  *)
(* access to memory that another thread also accesses; the accesses of a   *)
(* thread take effect in program order (x86-64, built without optimiser).  *)
(* back is written by the pushing thread only, front by the popping one.   *)
(***************************************************************************)
EXTENDS Naturals, Sequences

CONSTANTS Producers,   \* threads that push
          Msgs,        \* non-null message pointers
          NULL,        \* the null pointer
          cap,         \* number of slots of the ring
          multi_push   \* the second argument of init: push takes push_lock

ASSUME QueueAssumption ==
    /\ cap \in Nat \ {0}
    /\ multi_push \in BOOLEAN
    /\ NULL \notin Msgs
    \* every queue of the engine is initialised with multi_push = false and
    \* has a single pushing thread
    /\ multi_push \/ \A p1, p2 \in Producers : p1 = p2

VARIABLES back,       \* next slot to fill
          front,      \* next slot to empty
          q,          \* the slots
          push_lock,  \* 0 free, 1 taken
          pushPc,     \* where each producer is in push
          arg,        \* the pointer each producer is pushing, NULL if none
          popPc,      \* where the consumer is in pop or getfront
          ret,        \* pop's local variable ret
          got         \* what the consumer's last pop or getfront returned

vars == <<back, front, q, push_lock, pushPc, arg, popPc, ret, got>>
pushVars == <<back, push_lock, pushPc, arg>>
popVars == <<front, popPc, ret, got>>

Slots == 0 .. (cap - 1)

Init ==
    /\ back = 0
    /\ front = 0
    /\ q = [i \in Slots |-> NULL]
    /\ push_lock = 0
    /\ pushPc = [p \in Producers |-> "idle"]
    /\ arg = [p \in Producers |-> NULL]
    /\ popPc = "idle"
    /\ ret = NULL
    /\ got = NULL

\* Seeded bug: the ring index without its wrap.
NextSlotNoWrap(i) == i + 1

NextSlot(i) == (i + 1) % cap

\* Seeded bug: the test for a full ring compares back itself.
FullAtBack == back = front

Full == NextSlot(back) = front

-----------------------------------------------------------------------------
(* push *)

PushCall(p, m) ==
    /\ pushPc[p] = "idle"
    /\ arg' = [arg EXCEPT ![p] = m]
    /\ pushPc' = [pushPc EXCEPT ![p] = IF multi_push THEN "lock" ELSE "check"]
    /\ UNCHANGED <<back, q, push_lock, popVars>>

\* Seeded bug: the spin lock is entered without being free.
PushLockNoWait(p) ==
    /\ pushPc[p] = "lock"
    /\ push_lock' = 1
    /\ pushPc' = [pushPc EXCEPT ![p] = "check"]
    /\ UNCHANGED <<back, q, arg, popVars>>

PushLock(p) ==
    /\ pushPc[p] = "lock"
    /\ push_lock = 0
    /\ push_lock' = 1
    /\ pushPc' = [pushPc EXCEPT ![p] = "check"]
    /\ UNCHANGED <<back, q, arg, popVars>>

\* What a push that has finished does next: release the lock it took.
PushReturn == IF multi_push THEN "unlock" ELSE "idle"

PushCheck(p) ==
    /\ pushPc[p] = "check"
    /\ IF Full
       THEN /\ pushPc' = [pushPc EXCEPT ![p] = PushReturn]
            /\ arg' = [arg EXCEPT ![p] = NULL]
       ELSE /\ pushPc' = [pushPc EXCEPT ![p] = "store"]
            /\ UNCHANGED arg
    /\ UNCHANGED <<back, q, push_lock, popVars>>

PushStore(p) ==
    /\ pushPc[p] = "store"
    /\ q' = [q EXCEPT ![back] = arg[p]]
    /\ pushPc' = [pushPc EXCEPT ![p] = "advance"]
    /\ UNCHANGED <<back, push_lock, arg, popVars>>

PushAdvance(p) ==
    /\ pushPc[p] = "advance"
    /\ back' = NextSlot(back)
    /\ pushPc' = [pushPc EXCEPT ![p] = PushReturn]
    /\ arg' = [arg EXCEPT ![p] = NULL]
    /\ UNCHANGED <<q, push_lock, popVars>>

\* Seeded bug: a finished push keeps the lock.
PushUnlockForgotten(p) ==
    /\ pushPc[p] = "unlock"
    /\ pushPc' = [pushPc EXCEPT ![p] = "idle"]
    /\ UNCHANGED <<back, q, push_lock, arg, popVars>>

PushUnlock(p) ==
    /\ pushPc[p] = "unlock"
    /\ push_lock' = 0
    /\ pushPc' = [pushPc EXCEPT ![p] = "idle"]
    /\ UNCHANGED <<back, q, arg, popVars>>

-----------------------------------------------------------------------------
(* pop and getfront *)

\* Seeded bug: a ring that holds one message is taken for an empty one.
PopCheckLeavesOne ==
    /\ popPc = "idle"
    /\ IF front = back \/ NextSlot(front) = back
       THEN got' = NULL /\ UNCHANGED popPc
       ELSE popPc' = "read" /\ UNCHANGED got
    /\ UNCHANGED <<front, ret, q, pushVars>>

\* front == back: reading back is the access to the producer's memory.
PopCheck ==
    /\ popPc = "idle"
    /\ IF front = back
       THEN got' = NULL /\ UNCHANGED popPc
       ELSE popPc' = "read" /\ UNCHANGED got
    /\ UNCHANGED <<front, ret, q, pushVars>>

PopRead ==
    /\ popPc = "read"
    /\ ret' = q[front]
    /\ popPc' = "clear"
    /\ UNCHANGED <<front, got, q, pushVars>>

\* Seeded bug: front moves before the slot has been cleared.
PopClearLate ==
    /\ popPc = "clear"
    /\ q' = [q EXCEPT ![NextSlot(front)] = NULL]
    /\ popPc' = "advance"
    /\ UNCHANGED <<front, ret, got, pushVars>>

PopClear ==
    /\ popPc = "clear"
    /\ q' = [q EXCEPT ![front] = NULL]
    /\ popPc' = "advance"
    /\ UNCHANGED <<front, ret, got, pushVars>>

PopAdvance ==
    /\ popPc = "advance"
    /\ front' = NextSlot(front)
    /\ got' = ret
    /\ popPc' = "idle"
    /\ ret' = NULL
    /\ UNCHANGED <<q, pushVars>>

GetFrontCheck ==
    /\ popPc = "idle"
    /\ IF front = back
       THEN got' = NULL /\ UNCHANGED popPc
       ELSE popPc' = "peek" /\ UNCHANGED got
    /\ UNCHANGED <<front, ret, q, pushVars>>

GetFrontRead ==
    /\ popPc = "peek"
    /\ got' = q[front]
    /\ popPc' = "idle"
    /\ UNCHANGED <<front, ret, q, pushVars>>

-----------------------------------------------------------------------------
\* The steps of push after the lock, if there is one, has been taken.
PushInLock(p) ==
    \/ PushCheck(p)
    \/ PushStore(p)
    \/ PushAdvance(p)
    \/ PushUnlock(p)

Push(p) == PushLock(p) \/ PushInLock(p)

PopStep == PopRead \/ PopClear \/ PopAdvance

Pop == PopCheck \/ PopStep

GetFront == GetFrontCheck \/ GetFrontRead

Next ==
    \/ \E p \in Producers : \/ \E m \in Msgs : PushCall(p, m)
                            \/ Push(p)
    \/ Pop
    \/ GetFront

Spec == Init /\ [][Next]_vars

(***************************************************************************)
(* Every thread of the engine keeps running, and the consumer of a queue   *)
(* pops it from a periodic timer or from its main loop, so a step of pop   *)
(* that stays enabled is taken.  getfront never empties a queue and        *)
(* nothing obliges a thread to call push, but one that is inside push runs *)
(* on.  The spin lock is fair to nobody: PushLock has no fairness.         *)
(***************************************************************************)
Fairness ==
    /\ \A p \in Producers : WF_vars(PushInLock(p))
    /\ SF_vars(PopCheck /\ front # back)
    /\ WF_vars(PopStep)
    /\ WF_vars(GetFrontRead)

FairSpec == Spec /\ Fairness

-----------------------------------------------------------------------------
(* Properties *)

TypeOK ==
    /\ back \in Slots
    /\ front \in Slots
    /\ q \in [Slots -> Msgs \union {NULL}]
    /\ push_lock \in {0, 1}
    /\ pushPc \in [Producers -> {"idle", "lock", "check", "store", "advance", "unlock"}]
    /\ arg \in [Producers -> Msgs \union {NULL}]
    /\ popPc \in {"idle", "read", "clear", "advance", "peek"}
    /\ ret \in Msgs \union {NULL}
    /\ got \in Msgs \union {NULL}

Size == IF front <= back THEN back - front ELSE back + cap - front

\* The slot of the k-th oldest message.
SlotOf(k) == IF front + k <= cap THEN front + k - 1 ELSE front + k - 1 - cap

\* The messages in the ring, oldest first.  Between clearing the front slot
\* and moving front the oldest message is only in the consumer's hand.
Contents ==
    [k \in 1 .. Size |-> IF k = 1 /\ popPc = "advance" THEN ret ELSE q[SlotOf(k)]]

Occupied(i) == \E k \in 1 .. Size : i = SlotOf(k)

InCritical(p) == pushPc[p] \in {"check", "store", "advance", "unlock"}

(***************************************************************************)
(* A slot holds a message exactly while it lies between front and back,    *)
(* up to the one slot the pushing thread has filled and not yet published  *)
(* and the one slot the popping thread has cleared and not yet released.   *)
(* So push (msg_queue.h:37) never overwrites a message that has not been   *)
(* popped, and pop (msg_queue.h:27) never hands out the NULL that its      *)
(* callers read as an empty queue.                                         *)
(***************************************************************************)
SlotsMatchIndices ==
    \A i \in Slots :
        IF Occupied(i)
        THEN q[i] # NULL \/ (i = front /\ popPc = "advance" /\ ret # NULL)
        ELSE q[i] = NULL \/ (i = back /\ \E p \in Producers : pushPc[p] = "advance")

(***************************************************************************)
(* Between its test for a full ring and its store to back a pushing thread *)
(* is alone, and the slot it was promised stays free whatever the popping  *)
(* thread does meanwhile (msg_queue.h:43-65).                              *)
(***************************************************************************)
PushExclusive ==
    /\ \A p1, p2 \in Producers : InCritical(p1) /\ InCritical(p2) => p1 = p2
    /\ \A p \in Producers :
          /\ pushPc[p] \in {"store", "advance"} => ~Full
          /\ pushPc[p] = "store" => q[back] = NULL

(***************************************************************************)
(* The ring as a whole: its indices and its slots agree, whatever push,    *)
(* pop and getfront (msg_queue.h:27-76) are interleaved.                   *)
(***************************************************************************)
RingSound == TypeOK /\ SlotsMatchIndices /\ PushExclusive

Fifo == INSTANCE BoundedFifo WITH
            fifo <- Contents, Capacity <- cap - 1

(***************************************************************************)
(* The ring implements a first-in first-out channel of cap - 1 messages:   *)
(* nothing is lost, duplicated or reordered, push fails only when cap - 1  *)
(* messages are waiting, pop returns NULL only when none is, and getfront  *)
(* returns what the next pop returns (msg_queue.h:27-76).                  *)
(***************************************************************************)
RefinesFifo == Fifo!Spec

\* A message that has been pushed is eventually handed to the consumer, as
\* long as the consumer keeps calling pop (msg_queue.h:27).
PushedIsPopped ==
    \A m \in Msgs : (\E k \in 1 .. Size : Contents[k] = m) ~> (got = m)

\* No path through push keeps the lock: not the one of a full ring either
\* (msg_queue.h:48), so the other pushing threads do not spin for ever.
LockIsReleased == (push_lock = 1) ~> (push_lock = 0)
=============================================================================
