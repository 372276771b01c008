----------------------------- MODULE BlockPool -----------------------------
(***************************************************************************)
(* What a message pool promises the threads that share it: alloc hands out *)
(* a free block, to one thread only, and fails only when no block is free; *)
(* free always takes its block back.  MsgPool shows that the stack of      *)
(* src/common/msg_pool.h implements it.                                    *)
(***************************************************************************)
EXTENDS Naturals

CONSTANTS Threads,  \* the threads that call alloc and free
          Blocks,   \* the blocks of the pool
          NULL      \* the null pointer

VARIABLES free,  \* the blocks nobody holds
          out,   \* the blocks the program holds: in use or in some queue
          hand,  \* hand[t]: the block t is being given or is giving back
          call   \* call[t]: the call t is in

vars == <<free, out, hand, call>>

Init ==
    /\ free = Blocks
    /\ out = {}
    /\ hand = [t \in Threads |-> NULL]
    /\ call = [t \in Threads |-> "none"]

AllocCall(t) ==
    /\ call[t] = "none"
    /\ call' = [call EXCEPT ![t] = "alloc"]
    /\ UNCHANGED <<free, out, hand>>

AllocTake(t, b) ==
    /\ call[t] = "alloc"
    /\ free' = free \ {b}
    /\ hand' = [hand EXCEPT ![t] = b]
    /\ call' = [call EXCEPT ![t] = "return"]
    /\ UNCHANGED out

AllocFail(t) ==
    /\ call[t] = "alloc"
    /\ free = {}
    /\ call' = [call EXCEPT ![t] = "return"]
    /\ UNCHANGED <<free, out, hand>>

FreeCall(t, b) ==
    /\ call[t] = "none"
    /\ call' = [call EXCEPT ![t] = "free"]
    /\ hand' = [hand EXCEPT ![t] = b]
    /\ out' = out \ {b}
    /\ UNCHANGED free

FreePut(t) ==
    /\ call[t] = "free"
    /\ free' = free \union {hand[t]}
    /\ hand' = [hand EXCEPT ![t] = NULL]
    /\ call' = [call EXCEPT ![t] = "return"]
    /\ UNCHANGED out

Return(t) ==
    /\ call[t] = "return"
    /\ out' = out \union ({hand[t]} \ {NULL})
    /\ hand' = [hand EXCEPT ![t] = NULL]
    /\ call' = [call EXCEPT ![t] = "none"]
    /\ UNCHANGED free

Next ==
    \E t \in Threads :
        \/ AllocCall(t)
        \/ \E b \in free : AllocTake(t, b)
        \/ AllocFail(t)
        \/ \E b \in out : FreeCall(t, b)
        \/ FreePut(t)
        \/ Return(t)

Spec == Init /\ [][Next]_vars
=============================================================================
