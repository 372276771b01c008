------------------------------ MODULE MsgPool ------------------------------
(***************************************************************************)
(* msg_stack_pool<tt> of src/common/msg_pool.h: the stack of free message  *)
(* blocks that two threads share, under a spin lock.  One action is one    *)
(* access to a field of the pool.  The callers give back only blocks they  *)
(* were given, each once: every path of the engine frees a message where   *)
(* it pops it, or where it failed to push it.                              *)
(***************************************************************************)
EXTENDS Naturals, FiniteSets

CONSTANTS Threads,  \* threads that call alloc and free
          NULL,     \* the null pointer
          cap       \* number of blocks of the pool

Blocks == 0 .. (cap - 1)  \* the elements of the array list

ASSUME PoolAssumption ==
    /\ cap \in Nat
    /\ NULL \notin Blocks

VARIABLES free_list,  \* the stack, its first top entries are in use
          top,
          min_top,
          lock,       \* 0 free, 1 taken
          pc,         \* where each thread is in alloc or free
          r,          \* r of alloc or p of free, NULL if none
          out         \* the blocks the callers hold

vars == <<free_list, top, min_top, lock, pc, r, out>>

Init ==
    /\ free_list = [i \in Blocks |-> i]
    /\ top = cap
    /\ min_top = cap
    /\ lock = 0
    /\ pc = [t \in Threads |-> "idle"]
    /\ r = [t \in Threads |-> NULL]
    /\ out = {}

Goto(t, l) == pc' = [pc EXCEPT ![t] = l]

\* Seeded bug: alloc enters the spin lock without waiting.
AllocLockNoWait(t) ==
    /\ pc[t] = "allocLock"
    /\ lock' = 1
    /\ Goto(t, "allocCheck")
    /\ UNCHANGED <<free_list, top, min_top, r, out>>

-----------------------------------------------------------------------------
(* alloc *)

AllocCall(t) ==
    /\ pc[t] = "idle"
    /\ Goto(t, "allocLock")
    /\ UNCHANGED <<free_list, top, min_top, lock, r, out>>

AllocLock(t) ==
    /\ pc[t] = "allocLock"
    /\ lock = 0
    /\ lock' = 1
    /\ Goto(t, "allocCheck")
    /\ UNCHANGED <<free_list, top, min_top, r, out>>

\* Seeded bug: the last block is never handed out.
AllocCheckOffByOne(t) ==
    /\ pc[t] = "allocCheck"
    /\ Goto(t, IF top <= 1 THEN "unlock" ELSE "allocDec")
    /\ UNCHANGED <<free_list, top, min_top, lock, r, out>>

\* Seeded bug: alloc does not test for an empty stack.
AllocCheckNoTest(t) ==
    /\ pc[t] = "allocCheck"
    /\ Goto(t, "allocDec")
    /\ UNCHANGED <<free_list, top, min_top, lock, r, out>>

AllocCheck(t) ==
    /\ pc[t] = "allocCheck"
    /\ Goto(t, IF top = 0 THEN "unlock" ELSE "allocDec")
    /\ UNCHANGED <<free_list, top, min_top, lock, r, out>>

AllocDec(t) ==
    /\ pc[t] = "allocDec"
    /\ top' = top - 1
    /\ Goto(t, "allocRead")
    /\ UNCHANGED <<free_list, min_top, lock, r, out>>

AllocRead(t) ==
    /\ pc[t] = "allocRead"
    /\ r' = [r EXCEPT ![t] = free_list[top]]
    /\ Goto(t, "allocMin")
    /\ UNCHANGED <<free_list, top, min_top, lock, out>>

\* Seeded bug: the low-water mark follows top up again.
AllocMinAlways(t) ==
    /\ pc[t] = "allocMin"
    /\ min_top' = top
    /\ Goto(t, "unlock")
    /\ UNCHANGED <<free_list, top, lock, r, out>>

AllocMin(t) ==
    /\ pc[t] = "allocMin"
    /\ min_top' = IF top < min_top THEN top ELSE min_top
    /\ Goto(t, "unlock")
    /\ UNCHANGED <<free_list, top, lock, r, out>>

-----------------------------------------------------------------------------
(* free *)

\* Seeded bug: the caller keeps using, and freeing, the block it gave back.
FreeCallTwice(t, b) ==
    /\ pc[t] = "idle"
    /\ r' = [r EXCEPT ![t] = b]
    /\ Goto(t, "freeLock")
    /\ UNCHANGED <<free_list, top, min_top, lock, out>>

FreeCall(t, b) ==
    /\ pc[t] = "idle"
    /\ r' = [r EXCEPT ![t] = b]
    /\ out' = out \ {b}
    /\ Goto(t, "freeLock")
    /\ UNCHANGED <<free_list, top, min_top, lock>>

FreeLock(t) ==
    /\ pc[t] = "freeLock"
    /\ lock = 0
    /\ lock' = 1
    /\ Goto(t, "freeCheck")
    /\ UNCHANGED <<free_list, top, min_top, r, out>>

\* top == cap: the block is not taken back, and the caller forgets it.
FreeCheck(t) ==
    /\ pc[t] = "freeCheck"
    /\ IF top = cap
       THEN Goto(t, "unlock") /\ r' = [r EXCEPT ![t] = NULL]
       ELSE Goto(t, "freeInc") /\ UNCHANGED r
    /\ UNCHANGED <<free_list, top, min_top, lock, out>>

FreeInc(t) ==
    /\ pc[t] = "freeInc"
    /\ top' = top + 1
    /\ Goto(t, "freePut")
    /\ UNCHANGED <<free_list, min_top, lock, r, out>>

FreePut(t) ==
    /\ pc[t] = "freePut"
    /\ free_list' = [free_list EXCEPT ![top - 1] = r[t]]
    /\ r' = [r EXCEPT ![t] = NULL]
    /\ Goto(t, "unlock")
    /\ UNCHANGED <<top, min_top, lock, out>>

\* UNLOCK and return: the block alloc found, if any, is the caller's.
Unlock(t) ==
    /\ pc[t] = "unlock"
    /\ lock' = 0
    /\ out' = out \union ({r[t]} \ {NULL})
    /\ r' = [r EXCEPT ![t] = NULL]
    /\ Goto(t, "idle")
    /\ UNCHANGED <<free_list, top, min_top>>

-----------------------------------------------------------------------------
Alloc(t) ==
    \/ AllocCall(t)
    \/ AllocLock(t)
    \/ AllocCheck(t)
    \/ AllocDec(t)
    \/ AllocRead(t)
    \/ AllocMin(t)

Free(t) ==
    \/ \E b \in out : FreeCall(t, b)
    \/ FreeLock(t)
    \/ FreeCheck(t)
    \/ FreeInc(t)
    \/ FreePut(t)

Next == \E t \in Threads : Alloc(t) \/ Free(t) \/ Unlock(t)

Spec == Init /\ [][Next]_vars

-----------------------------------------------------------------------------
(* Properties *)

TypeOK ==
    /\ free_list \in [Blocks -> Blocks]
    /\ top \in 0 .. cap
    /\ min_top \in 0 .. cap
    /\ lock \in {0, 1}
    /\ pc \in [Threads -> {"idle", "allocLock", "allocCheck", "allocDec",
                           "allocRead", "allocMin", "freeLock", "freeCheck",
                           "freeInc", "freePut", "unlock"}]
    /\ r \in [Threads -> Blocks \union {NULL}]
    /\ out \subseteq Blocks

InLock(t) == pc[t] \notin {"idle", "allocLock", "freeLock"}

\* The entries of the stack that hold a block: the one top++ has just made
\* room for is still to be written.
FreeIndices == {i \in 0 .. (top - 1) :
                    i = top - 1 => \A t \in Threads : pc[t] # "freePut"}

FreeBlocks == {free_list[i] : i \in FreeIndices}

\* The block a thread holds inside alloc or free.
InHand(t) == IF pc[t] = "allocRead" THEN free_list[top] ELSE r[t]

(***************************************************************************)
(* A block is in exactly one place: once in the free list, or with one     *)
(* thread inside alloc or free, or with the callers.  So two allocs never  *)
(* return the same block while both use it, and none is lost               *)
(* (msg_pool.h:34-61).                                                     *)
(***************************************************************************)
BlocksConserved ==
    /\ \A i, j \in FreeIndices : free_list[i] = free_list[j] => i = j
    /\ \A t \in Threads : InHand(t) \notin FreeBlocks \union out
    /\ \A t, u \in Threads : InHand(t) # NULL /\ InHand(t) = InHand(u) => t = u
    /\ FreeBlocks \intersect out = {}
    /\ Blocks = FreeBlocks \union out \union ({InHand(t) : t \in Threads} \ {NULL})

\* The free list never overflows: the assert(0) of free (msg_pool.h:55) is
\* not reached, so the result that every caller of free ignores is true.
FreeNeverFull == \A t \in Threads : pc[t] = "freeCheck" => top < cap

(***************************************************************************)
(* The pool as a whole: no block is lost or in two places, and free always *)
(* has room, however alloc and free are interleaved (msg_pool.h:34-61).    *)
(***************************************************************************)
PoolSound == TypeOK /\ FreeNeverFull /\ BlocksConserved

\* min_top, which get_state reports for each pool (thread_logic.h:38), is the
\* lowest value top has had whenever no thread is inside the pool: it moves
\* only down, only to the current top, and is never above it.
MinTopIsLowWater ==
    /\ [](lock = 0 => min_top <= top)
    /\ [][min_top' # min_top => min_top' < min_top /\ min_top' = top']_vars

CallOf(t) ==
    CASE pc[t] = "idle" -> "none"
      [] pc[t] \in {"allocLock", "allocCheck", "allocDec"} -> "alloc"
      [] pc[t] \in {"freeLock", "freeCheck", "freeInc", "freePut"} -> "free"
      [] pc[t] \in {"allocRead", "allocMin", "unlock"} -> "return"

Pool == INSTANCE BlockPool WITH
            free <- FreeBlocks,
            hand <- [t \in Threads |-> InHand(t)],
            call <- [t \in Threads |-> CallOf(t)]

\* The locked stack implements the pool of blocks: alloc fails only when no
\* block is free and free never fails (msg_pool.h:34-61).
RefinesPool == Pool!Spec
=============================================================================
