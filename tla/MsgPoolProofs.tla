--------------------------- MODULE MsgPoolProofs ----------------------------
(***************************************************************************)
(* Proofs about MsgPool for every number of blocks and threads.  PoolInv   *)
(* is the inductive invariant: one thread at a time works on the stack,    *)
(* knows the range of top at each step, and no block is in two places.     *)
(***************************************************************************)
EXTENDS MsgPool, FiniteSetTheorems, TLAPS

-----------------------------------------------------------------------------
(* The inductive invariant *)

Exclusive ==
    /\ \A t, u \in Threads : InLock(t) /\ InLock(u) => t = u
    /\ \A t \in Threads : InLock(t) => lock = 1

\* What a thread holds at each step.
Local ==
    \A t \in Threads :
        /\ pc[t] \in {"idle", "allocLock", "allocCheck", "allocDec", "allocRead"}
               => r[t] = NULL
        /\ pc[t] \in {"allocMin", "freeLock", "freeCheck", "freeInc", "freePut"}
               => r[t] # NULL

\* What a thread knows of top at each step.
TopRange ==
    \A t \in Threads :
        /\ pc[t] \in {"allocDec", "freePut"} => top > 0
        /\ pc[t] \in {"allocRead", "freeInc"} => top < cap

PoolInv ==
    /\ TypeOK
    /\ Exclusive
    /\ Local
    /\ TopRange
    /\ BlocksConserved

LEMMA InitPool == Init => PoolInv
<1> SUFFICES ASSUME Init PROVE PoolInv
  OBVIOUS
<1> USE PoolAssumption DEF Init, Blocks
<1>1. TypeOK /\ Exclusive /\ Local /\ TopRange
  BY DEF TypeOK, Exclusive, Local, TopRange, InLock
<1>2. FreeIndices = Blocks
  BY DEF FreeIndices
<1>3. FreeBlocks = Blocks
  BY <1>2 DEF FreeBlocks
<1>4. \A t \in Threads : InHand(t) = NULL
  BY DEF InHand
<1>5. BlocksConserved
  BY <1>2, <1>3, <1>4 DEF BlocksConserved
<1>6. QED
  BY <1>1, <1>5 DEF PoolInv

\* free finds room: otherwise the stack would hold cap blocks, all distinct and
\* none of them the one that is being given back.
LEMMA NeverFull == PoolInv => FreeNeverFull
<1> SUFFICES ASSUME PoolInv, NEW t \in Threads, pc[t] = "freeCheck", top = cap
             PROVE  FALSE
  BY PoolAssumption DEF FreeNeverFull, PoolInv, TypeOK
<1> USE PoolAssumption DEF PoolInv
<1>1. FreeIndices = Blocks
  BY DEF FreeIndices, Exclusive, InLock, Blocks
<1>2. r[t] \in Blocks /\ InHand(t) = r[t]
  BY DEF Local, TypeOK, InHand
<1> DEFINE S == Blocks \ {r[t]}
<1>3. \A i \in Blocks : free_list[i] # r[t]
  BY <1>1, <1>2 DEF BlocksConserved, FreeBlocks
<1>4. free_list \in [Blocks -> S]
  BY <1>3 DEF TypeOK
<1>5. IsFiniteSet(Blocks) /\ Cardinality(Blocks) = cap
  BY FS_Interval DEF Blocks
<1>6. IsFiniteSet(S) /\ Cardinality(S) = cap - 1
  BY <1>2, <1>5, FS_RemoveElement
<1>7. PICK i, j \in Blocks : i # j /\ free_list[i] = free_list[j]
  BY <1>4, <1>5, <1>6, FS_PigeonHole
<1>8. QED
  BY <1>1, <1>7 DEF BlocksConserved

-----------------------------------------------------------------------------
(* The steps *)

LEMMA StepType == PoolInv /\ [Next]_vars => TypeOK'
<1> SUFFICES ASSUME PoolInv, [Next]_vars PROVE TypeOK'
  OBVIOUS
<1> USE PoolAssumption DEF PoolInv, TypeOK
<1>1. ASSUME NEW t \in Threads, AllocCall(t) PROVE TypeOK'
  BY SMTT(30), <1>1 DEF AllocCall, Goto, TopRange, Local, Blocks
<1>2. ASSUME NEW t \in Threads, AllocLock(t) PROVE TypeOK'
  BY SMTT(30), <1>2 DEF AllocLock, Goto, TopRange, Local, Blocks
<1>3. ASSUME NEW t \in Threads, AllocCheck(t) PROVE TypeOK'
  BY SMTT(30), <1>3 DEF AllocCheck, Goto, TopRange, Local, Blocks
<1>4. ASSUME NEW t \in Threads, AllocDec(t) PROVE TypeOK'
  BY SMTT(30), <1>4 DEF AllocDec, Goto, TopRange, Local, Blocks
<1>5. ASSUME NEW t \in Threads, AllocRead(t) PROVE TypeOK'
  BY SMTT(30), <1>5 DEF AllocRead, Goto, TopRange, Local, Blocks
<1>6. ASSUME NEW t \in Threads, AllocMin(t) PROVE TypeOK'
  BY SMTT(30), <1>6 DEF AllocMin, Goto, TopRange, Local, Blocks
<1>7. ASSUME NEW t \in Threads, NEW b \in out, FreeCall(t, b) PROVE TypeOK'
  BY SMTT(30), <1>7 DEF FreeCall, Goto, TopRange, Local, Blocks
<1>8. ASSUME NEW t \in Threads, FreeLock(t) PROVE TypeOK'
  BY SMTT(30), <1>8 DEF FreeLock, Goto, TopRange, Local, Blocks
<1>9. ASSUME NEW t \in Threads, FreeCheck(t) PROVE TypeOK'
  BY SMTT(30), <1>9 DEF FreeCheck, Goto, TopRange, Local, Blocks
<1>10. ASSUME NEW t \in Threads, FreeInc(t) PROVE TypeOK'
  BY SMTT(30), <1>10 DEF FreeInc, Goto, TopRange, Local, Blocks
<1>11. ASSUME NEW t \in Threads, FreePut(t) PROVE TypeOK'
  <2>1. pc[t] = "freePut" /\ pc' = [pc EXCEPT ![t] = "unlock"]
        /\ free_list' = [free_list EXCEPT ![top - 1] = r[t]] /\ r' = [r EXCEPT ![t] = NULL]
        /\ UNCHANGED <<top, min_top, lock, out>>
    BY <1>11 DEF FreePut, Goto
  <2>2. r[t] \in Blocks
    BY <2>1 DEF Local
  <2>3. free_list' \in [Blocks -> Blocks]
    BY <2>1, <2>2
  <2>4. r' \in [Threads -> Blocks \union {NULL}]
    BY <2>1
  <2>5. /\ pc' \in [Threads -> {"idle", "allocLock", "allocCheck", "allocDec",
                                "allocRead", "allocMin", "freeLock", "freeCheck",
                                "freeInc", "freePut", "unlock"}]
        /\ top' \in 0 .. cap /\ min_top' \in 0 .. cap /\ lock' \in {0, 1}
        /\ out' \subseteq Blocks
    BY <2>1
  <2> QED
    BY <2>3, <2>4, <2>5
<1>12. ASSUME NEW t \in Threads, Unlock(t) PROVE TypeOK'
  BY <1>12 DEF Unlock, Goto, TopRange, Local, Blocks
<1>13. CASE UNCHANGED vars
  BY <1>13 DEF vars, TopRange, Local, Blocks
<1>14. QED
  BY <1>1, <1>2, <1>3, <1>4, <1>5, <1>6, <1>7, <1>8, <1>9, <1>10, <1>11,
     <1>12, <1>13 DEF Next, Alloc, Free

LEMMA StepExclusive == PoolInv /\ [Next]_vars => Exclusive'
<1> SUFFICES ASSUME PoolInv, [Next]_vars PROVE Exclusive'
  OBVIOUS
<1> USE PoolAssumption DEF PoolInv, TypeOK
<1>1. ASSUME NEW t \in Threads, AllocCall(t) PROVE Exclusive'
  BY <1>1 DEF AllocCall, Goto, Exclusive, InLock
<1>2. ASSUME NEW t \in Threads, AllocLock(t) PROVE Exclusive'
  BY <1>2 DEF AllocLock, Goto, Exclusive, InLock
<1>3. ASSUME NEW t \in Threads, AllocCheck(t) PROVE Exclusive'
  BY <1>3 DEF AllocCheck, Goto, Exclusive, InLock
<1>4. ASSUME NEW t \in Threads, AllocDec(t) PROVE Exclusive'
  BY <1>4 DEF AllocDec, Goto, Exclusive, InLock
<1>5. ASSUME NEW t \in Threads, AllocRead(t) PROVE Exclusive'
  BY <1>5 DEF AllocRead, Goto, Exclusive, InLock
<1>6. ASSUME NEW t \in Threads, AllocMin(t) PROVE Exclusive'
  BY <1>6 DEF AllocMin, Goto, Exclusive, InLock
<1>7. ASSUME NEW t \in Threads, NEW b \in out, FreeCall(t, b) PROVE Exclusive'
  BY <1>7 DEF FreeCall, Goto, Exclusive, InLock
<1>8. ASSUME NEW t \in Threads, FreeLock(t) PROVE Exclusive'
  BY <1>8 DEF FreeLock, Goto, Exclusive, InLock
<1>9. ASSUME NEW t \in Threads, FreeCheck(t) PROVE Exclusive'
  BY <1>9 DEF FreeCheck, Goto, Exclusive, InLock
<1>10. ASSUME NEW t \in Threads, FreeInc(t) PROVE Exclusive'
  BY <1>10 DEF FreeInc, Goto, Exclusive, InLock
<1>11. ASSUME NEW t \in Threads, FreePut(t) PROVE Exclusive'
  BY <1>11 DEF FreePut, Goto, Exclusive, InLock
<1>12. ASSUME NEW t \in Threads, Unlock(t) PROVE Exclusive'
  BY <1>12 DEF Unlock, Goto, Exclusive, InLock
<1>13. CASE UNCHANGED vars
  BY <1>13 DEF vars, Exclusive, InLock
<1>14. QED
  BY <1>1, <1>2, <1>3, <1>4, <1>5, <1>6, <1>7, <1>8, <1>9, <1>10, <1>11,
     <1>12, <1>13 DEF Next, Alloc, Free

LEMMA StepLocal == PoolInv /\ [Next]_vars => Local'
<1> SUFFICES ASSUME PoolInv, [Next]_vars PROVE Local'
  OBVIOUS
<1> USE PoolAssumption DEF PoolInv, TypeOK
<1>1. ASSUME NEW t \in Threads, AllocCall(t) PROVE Local'
  BY <1>1 DEF AllocCall, Goto, Local, Blocks
<1>2. ASSUME NEW t \in Threads, AllocLock(t) PROVE Local'
  BY <1>2 DEF AllocLock, Goto, Local, Blocks
<1>3. ASSUME NEW t \in Threads, AllocCheck(t) PROVE Local'
  BY <1>3 DEF AllocCheck, Goto, Local, Blocks
<1>4. ASSUME NEW t \in Threads, AllocDec(t) PROVE Local'
  BY <1>4 DEF AllocDec, Goto, Local, Blocks
<1>5. ASSUME NEW t \in Threads, AllocRead(t) PROVE Local'
  <2>1. free_list[top] \in Blocks
    BY <1>5 DEF AllocRead, TopRange, Blocks
  <2>2. QED
    BY <1>5, <2>1 DEF AllocRead, Goto, Local, Blocks
<1>6. ASSUME NEW t \in Threads, AllocMin(t) PROVE Local'
  BY <1>6 DEF AllocMin, Goto, Local, Blocks
<1>7. ASSUME NEW t \in Threads, NEW b \in out, FreeCall(t, b) PROVE Local'
  BY <1>7 DEF FreeCall, Goto, Local, Blocks
<1>8. ASSUME NEW t \in Threads, FreeLock(t) PROVE Local'
  BY <1>8 DEF FreeLock, Goto, Local, Blocks
<1>9. ASSUME NEW t \in Threads, FreeCheck(t) PROVE Local'
  BY <1>9 DEF FreeCheck, Goto, Local, Blocks
<1>10. ASSUME NEW t \in Threads, FreeInc(t) PROVE Local'
  BY <1>10 DEF FreeInc, Goto, Local, Blocks
<1>11. ASSUME NEW t \in Threads, FreePut(t) PROVE Local'
  BY <1>11 DEF FreePut, Goto, Local, Blocks
<1>12. ASSUME NEW t \in Threads, Unlock(t) PROVE Local'
  BY <1>12 DEF Unlock, Goto, Local, Blocks
<1>13. CASE UNCHANGED vars
  BY <1>13 DEF vars, Local, Blocks
<1>14. QED
  BY <1>1, <1>2, <1>3, <1>4, <1>5, <1>6, <1>7, <1>8, <1>9, <1>10, <1>11,
     <1>12, <1>13 DEF Next, Alloc, Free

LEMMA StepTopRange == PoolInv /\ [Next]_vars => TopRange'
<1> SUFFICES ASSUME PoolInv, [Next]_vars PROVE TopRange'
  OBVIOUS
<1> USE PoolAssumption DEF PoolInv, TypeOK
<1>1. ASSUME NEW t \in Threads, AllocCall(t) PROVE TopRange'
  BY <1>1 DEF AllocCall, Goto, TopRange, Exclusive, InLock
<1>2. ASSUME NEW t \in Threads, AllocLock(t) PROVE TopRange'
  BY <1>2 DEF AllocLock, Goto, TopRange, Exclusive, InLock
<1>3. ASSUME NEW t \in Threads, AllocCheck(t) PROVE TopRange'
  BY <1>3 DEF AllocCheck, Goto, TopRange, Exclusive, InLock
<1>4. ASSUME NEW t \in Threads, AllocDec(t) PROVE TopRange'
  BY <1>4 DEF AllocDec, Goto, TopRange, Exclusive, InLock
<1>5. ASSUME NEW t \in Threads, AllocRead(t) PROVE TopRange'
  BY <1>5 DEF AllocRead, Goto, TopRange, Exclusive, InLock
<1>6. ASSUME NEW t \in Threads, AllocMin(t) PROVE TopRange'
  BY <1>6 DEF AllocMin, Goto, TopRange, Exclusive, InLock
<1>7. ASSUME NEW t \in Threads, NEW b \in out, FreeCall(t, b) PROVE TopRange'
  BY <1>7 DEF FreeCall, Goto, TopRange, Exclusive, InLock
<1>8. ASSUME NEW t \in Threads, FreeLock(t) PROVE TopRange'
  BY <1>8 DEF FreeLock, Goto, TopRange, Exclusive, InLock
<1>9. ASSUME NEW t \in Threads, FreeCheck(t) PROVE TopRange'
  BY <1>9, NeverFull DEF FreeNeverFull, FreeCheck, Goto, TopRange, Exclusive, InLock
<1>10. ASSUME NEW t \in Threads, FreeInc(t) PROVE TopRange'
  BY <1>10 DEF FreeInc, Goto, TopRange, Exclusive, InLock
<1>11. ASSUME NEW t \in Threads, FreePut(t) PROVE TopRange'
  BY <1>11 DEF FreePut, Goto, TopRange, Exclusive, InLock
<1>12. ASSUME NEW t \in Threads, Unlock(t) PROVE TopRange'
  BY <1>12 DEF Unlock, Goto, TopRange, Exclusive, InLock
<1>13. CASE UNCHANGED vars
  BY <1>13 DEF vars, TopRange, Exclusive, InLock
<1>14. QED
  BY <1>1, <1>2, <1>3, <1>4, <1>5, <1>6, <1>7, <1>8, <1>9, <1>10, <1>11,
     <1>12, <1>13 DEF Next, Alloc, Free

\* alloc takes one block out of the free list: the one it will return.
LEMMA DecTakes ==
    ASSUME PoolInv, NEW t \in Threads, AllocDec(t)
    PROVE  /\ FreeBlocks' = FreeBlocks \ {free_list[top - 1]}
           /\ free_list[top - 1] \in FreeBlocks \intersect Blocks
           /\ \A i, j \in FreeIndices' : free_list'[i] = free_list'[j] => i = j
<1> USE PoolAssumption DEF PoolInv
<1>0. \A u \in Threads : pc[u] # "freePut"
  BY DEF AllocDec, Exclusive, InLock
<1>1. FreeIndices = 0 .. (top - 1) /\ top - 1 \in FreeIndices /\ top - 1 \in Blocks
  <2>1. top \in 1 .. cap
    BY DEF AllocDec, TopRange, TypeOK
  <2>2. FreeIndices = 0 .. (top - 1)
    BY <1>0 DEF FreeIndices
  <2>3. QED
    BY <2>1, <2>2 DEF Blocks
<1>2. FreeIndices' = FreeIndices \ {top - 1}
  BY <1>1 DEF AllocDec, FreeIndices, Exclusive, InLock, TypeOK, Goto
<1>3. free_list' = free_list
  BY DEF AllocDec
<1>4. \A i \in FreeIndices : free_list[i] = free_list[top - 1] => i = top - 1
  BY <1>1 DEF BlocksConserved
<1>5. FreeBlocks' = FreeBlocks \ {free_list[top - 1]}
  BY <1>1, <1>2, <1>3, <1>4 DEF FreeBlocks
<1>6. free_list[top - 1] \in FreeBlocks \intersect Blocks
  BY <1>1 DEF FreeBlocks, TypeOK
<1>7. \A i, j \in FreeIndices' : free_list'[i] = free_list'[j] => i = j
  BY <1>2, <1>3 DEF BlocksConserved
<1>8. QED
  BY <1>5, <1>6, <1>7

\* free puts its block, which was nowhere in the free list, into it.
LEMMA PutReturns ==
    ASSUME PoolInv, NEW t \in Threads, FreePut(t)
    PROVE  /\ FreeBlocks' = FreeBlocks \union {r[t]}
           /\ \A i, j \in FreeIndices' : free_list'[i] = free_list'[j] => i = j
<1> USE PoolAssumption DEF PoolInv
<1>1. FreeIndices = 0 .. (top - 2) /\ top - 1 \in Blocks
  <2>1. top \in 1 .. cap
    BY DEF FreePut, TopRange, TypeOK
  <2>2. FreeIndices = {i \in 0 .. (top - 1) : i # top - 1}
    BY DEF FreePut, FreeIndices
  <2>3. QED
    BY <2>1, <2>2 DEF Blocks
<1>2. FreeIndices' = FreeIndices \union {top - 1}
  BY <1>1 DEF FreePut, FreeIndices, Exclusive, InLock, TopRange, TypeOK, Goto
<1>3. \A i \in FreeIndices : free_list'[i] = free_list[i] /\ i # top - 1
  BY <1>1 DEF FreePut, TypeOK
<1>4. free_list'[top - 1] = r[t]
  BY <1>1 DEF FreePut, TypeOK
<1>5. r[t] \notin FreeBlocks
  BY DEF FreePut, InHand, BlocksConserved
<1>6. QED
  BY <1>2, <1>3, <1>4, <1>5 DEF FreeBlocks, BlocksConserved

\* Every step moves at most one block, from one place to another.
LEMMA StepConserves == PoolInv /\ [Next]_vars => BlocksConserved'
<1> SUFFICES ASSUME PoolInv, [Next]_vars PROVE BlocksConserved'
  OBVIOUS
<1> USE PoolAssumption DEF PoolInv
<1>1. ASSUME NEW t \in Threads,
             AllocCall(t) \/ AllocLock(t) \/ AllocCheck(t) \/ AllocMin(t) \/ FreeLock(t) \/ FreeCheck(t)
      PROVE  BlocksConserved'
  <2>1. r' = r
    BY <1>1, NeverFull DEF AllocCall, AllocLock, AllocCheck, AllocMin, FreeLock, FreeCheck, FreeNeverFull
  <2>2. /\ UNCHANGED <<free_list, top, out>>
        /\ pc[t] \notin {"allocRead", "freePut"}
        /\ \E l : l \notin {"allocRead", "freePut"} /\ pc' = [pc EXCEPT ![t] = l]
    BY <1>1 DEF AllocCall, AllocLock, AllocCheck, AllocMin, FreeLock, FreeCheck, Goto
  <2>3. FreeIndices' = FreeIndices /\ FreeBlocks' = FreeBlocks
    BY <2>2 DEF FreeIndices, FreeBlocks, TypeOK
  <2>4. \A u \in Threads : InHand(u)' = InHand(u)
    BY <2>1, <2>2 DEF InHand, TypeOK
  <2>5. QED
    BY <2>2, <2>3, <2>4 DEF BlocksConserved
<1>2. ASSUME NEW t \in Threads, AllocDec(t) PROVE BlocksConserved'
  <2>1. InHand(t) = NULL /\ InHand(t)' = free_list[top - 1]
    BY <1>2 DEF AllocDec, InHand, Local, TypeOK, Goto
  <2>2. \A u \in Threads : u # t => InHand(u)' = InHand(u)
    BY <1>2 DEF AllocDec, InHand, Exclusive, InLock, TypeOK, Goto
  <2>3. QED
    BY <1>2, <2>1, <2>2, DecTakes DEF AllocDec, BlocksConserved
<1>3. ASSUME NEW t \in Threads, AllocRead(t) PROVE BlocksConserved'
  <2>1. FreeIndices' = FreeIndices /\ FreeBlocks' = FreeBlocks
    BY <1>3 DEF AllocRead, FreeIndices, FreeBlocks, TypeOK, Goto
  <2>2. \A u \in Threads : InHand(u)' = InHand(u)
    BY <1>3 DEF AllocRead, InHand, Exclusive, InLock, TypeOK, Goto
  <2>3. QED
    BY <1>3, <2>1, <2>2 DEF AllocRead, BlocksConserved
<1>4. ASSUME NEW t \in Threads, NEW b \in out, FreeCall(t, b) PROVE BlocksConserved'
  <2>1. FreeIndices' = FreeIndices /\ FreeBlocks' = FreeBlocks
    BY <1>4 DEF FreeCall, FreeIndices, FreeBlocks, TypeOK, Goto
  <2>2. InHand(t) = NULL /\ InHand(t)' = b /\ b # NULL
    BY <1>4 DEF FreeCall, InHand, Local, TypeOK, Goto
  <2>3. \A u \in Threads : u # t => InHand(u)' = InHand(u)
    BY <1>4 DEF FreeCall, InHand, TypeOK, Goto
  <2>4. QED
    BY <1>4, <2>1, <2>2, <2>3 DEF FreeCall, BlocksConserved
<1>5. ASSUME NEW t \in Threads, FreeInc(t) PROVE BlocksConserved'
  <2>1. FreeIndices' = FreeIndices /\ FreeBlocks' = FreeBlocks
    BY <1>5 DEF FreeInc, FreeIndices, FreeBlocks, Exclusive, InLock, TypeOK, Goto
  <2>2. \A u \in Threads : InHand(u)' = InHand(u)
    BY <1>5 DEF FreeInc, InHand, Exclusive, InLock, TypeOK, Goto
  <2>3. QED
    BY <1>5, <2>1, <2>2 DEF FreeInc, BlocksConserved
<1>6. ASSUME NEW t \in Threads, FreePut(t) PROVE BlocksConserved'
  <2>1. InHand(t) = r[t] /\ r[t] # NULL /\ InHand(t)' = NULL
    BY <1>6 DEF FreePut, InHand, Local, TypeOK, Goto
  <2>2. \A u \in Threads : u # t => InHand(u)' = InHand(u)
    BY <1>6 DEF FreePut, InHand, Exclusive, InLock, TypeOK, Goto
  <2>3. out' = out
    BY <1>6 DEF FreePut
  <2>4. {InHand(u)' : u \in Threads} \ {NULL}
            = ({InHand(u) : u \in Threads} \ {NULL}) \ {r[t]}
    BY <2>1, <2>2 DEF BlocksConserved
  <2>5. QED
    BY <1>6, <2>1, <2>2, <2>3, <2>4, PutReturns DEF BlocksConserved
<1>7. ASSUME NEW t \in Threads, Unlock(t) PROVE BlocksConserved'
  <2>1. FreeIndices' = FreeIndices /\ FreeBlocks' = FreeBlocks
    BY <1>7 DEF Unlock, FreeIndices, FreeBlocks, TypeOK, Goto
  <2>2. InHand(t) = r[t] /\ InHand(t)' = NULL
    BY <1>7 DEF Unlock, InHand, TypeOK, Goto
  <2>3. \A u \in Threads : u # t => InHand(u)' = InHand(u)
    BY <1>7 DEF Unlock, InHand, TypeOK, Goto
  <2>4. QED
    BY <1>7, <2>1, <2>2, <2>3 DEF Unlock, BlocksConserved
<1>8. CASE UNCHANGED vars
  BY <1>8 DEF vars, BlocksConserved, FreeIndices, FreeBlocks, InHand
<1>9. QED
  BY <1>1, <1>2, <1>3, <1>4, <1>5, <1>6, <1>7, <1>8 DEF Next, Alloc, Free

-----------------------------------------------------------------------------
(* The theorems *)

THEOREM PoolCorrect == Spec => []PoolInv
<1>1. PoolInv /\ [Next]_vars => PoolInv'
  BY StepType, StepExclusive, StepLocal, StepTopRange, StepConserves DEF PoolInv
<1>2. QED
  BY InitPool, <1>1, PTL DEF Spec

\* No block is ever in two places, none is lost, and the result of free that
\* the engine ignores is always true.
THEOREM PoolSafe == Spec => []PoolSound
<1>1. PoolInv => PoolSound
  BY NeverFull DEF PoolInv, PoolSound
<1>2. QED
  BY PoolCorrect, <1>1, PTL

\* While no thread is between top-- and its update of min_top, min_top is not
\* above top; while one is, it is at most one above.
MinTopInv ==
    /\ min_top <= top + 1
    /\ (\A t \in Threads : pc[t] \notin {"allocRead", "allocMin"}) => min_top <= top

LEMMA StepMinTop == PoolInv /\ MinTopInv /\ [Next]_vars => MinTopInv'
<1> SUFFICES ASSUME PoolInv, MinTopInv, [Next]_vars PROVE MinTopInv'
  OBVIOUS
<1> USE PoolAssumption DEF PoolInv, TypeOK, MinTopInv, Goto
<1>1. ASSUME NEW t \in Threads, AllocCall(t) \/ AllocLock(t) \/ AllocCheck(t)
      PROVE  MinTopInv'
  BY <1>1 DEF AllocCall, AllocLock, AllocCheck
<1>2. ASSUME NEW t \in Threads, AllocDec(t) PROVE MinTopInv'
  <2>1. \A u \in Threads : pc[u] \notin {"allocRead", "allocMin"}
    BY <1>2 DEF AllocDec, Exclusive, InLock
  <2>2. pc'[t] = "allocRead" /\ top' = top - 1 /\ min_top' = min_top
    BY <1>2 DEF AllocDec
  <2>3. QED
    BY <2>1, <2>2
<1>3. ASSUME NEW t \in Threads, AllocRead(t) PROVE MinTopInv'
  BY <1>3 DEF AllocRead
<1>4. ASSUME NEW t \in Threads, AllocMin(t) PROVE MinTopInv'
  BY <1>4 DEF AllocMin
<1>5. ASSUME NEW t \in Threads, NEW b \in out, FreeCall(t, b) PROVE MinTopInv'
  BY <1>5 DEF FreeCall
<1>6. ASSUME NEW t \in Threads, FreeLock(t) \/ FreeCheck(t) \/ FreePut(t)
      PROVE  MinTopInv'
  BY <1>6 DEF FreeLock, FreeCheck, FreePut
<1>7. ASSUME NEW t \in Threads, FreeInc(t) PROVE MinTopInv'
  BY <1>7 DEF FreeInc
<1>8. ASSUME NEW t \in Threads, Unlock(t) PROVE MinTopInv'
  BY <1>8 DEF Unlock
<1>9. CASE UNCHANGED vars
  BY <1>9 DEF vars
<1>10. QED
  BY <1>1, <1>2, <1>3, <1>4, <1>5, <1>6, <1>7, <1>8, <1>9 DEF Next, Alloc, Free

\* What get_state reports as the low-water mark of a pool is one.
THEOREM LowWaterCorrect == Spec => MinTopIsLowWater
<1>1. Init => MinTopInv
  BY PoolAssumption DEF Init, MinTopInv
<1>2. PoolInv /\ MinTopInv => (lock = 0 => min_top <= top)
  BY DEF PoolInv, Exclusive, InLock, MinTopInv
<1>3. PoolInv /\ [Next]_vars
        => [min_top' # min_top => min_top' < min_top /\ min_top' = top']_vars
  <2> SUFFICES ASSUME PoolInv, Next, min_top' # min_top
               PROVE  min_top' < min_top /\ min_top' = top'
    OBVIOUS
  <2>1. PICK t \in Threads : AllocMin(t)
    BY DEF Next, Alloc, Free, AllocCall, AllocLock, AllocCheck, AllocDec,
           AllocRead, FreeCall, FreeLock, FreeCheck, FreeInc, FreePut, Unlock
  <2>2. QED
    BY <2>1 DEF AllocMin, PoolInv, TypeOK
<1>4. QED
  BY <1>1, <1>2, <1>3, StepMinTop, PoolCorrect, PTL DEF Spec, MinTopIsLowWater

\* The locked stack implements the abstract pool of blocks.
THEOREM RefinesPoolCorrect == Spec => RefinesPool
<1>1. Init => Pool!Init
  <2> SUFFICES ASSUME Init PROVE Pool!Init
    OBVIOUS
  <2>1. FreeIndices = Blocks
    BY PoolAssumption DEF Init, FreeIndices, Blocks
  <2>2. FreeBlocks = Blocks
    BY <2>1 DEF Init, FreeBlocks
  <2>3. QED
    BY <2>2 DEF Init, Pool!Init, InHand, CallOf
<1>2. PoolInv /\ [Next]_vars => [Pool!Next]_(Pool!vars)
  <2> DEFINE hand == [u \in Threads |-> InHand(u)]
             call == [u \in Threads |-> CallOf(u)]
  <2> SUFFICES ASSUME PoolInv, [Next]_vars
               PROVE  Pool!Next \/ UNCHANGED <<FreeBlocks, out, hand, call>>
    BY DEF Pool!vars
  <2> USE PoolAssumption DEF PoolInv
  <2>1. ASSUME NEW t \in Threads, AllocCall(t) PROVE Pool!AllocCall(t)
    <3>1. FreeBlocks' = FreeBlocks
      BY <2>1 DEF AllocCall, FreeIndices, FreeBlocks, TypeOK, Goto
    <3>2. \A u \in Threads : InHand(u)' = InHand(u)
      BY <2>1 DEF AllocCall, InHand, TypeOK, Goto
    <3>3. /\ CallOf(t) = "none" /\ CallOf(t)' = "alloc"
          /\ \A u \in Threads : u # t => CallOf(u)' = CallOf(u)
      BY <2>1 DEF AllocCall, CallOf, TypeOK, Goto
    <3>4. QED
      BY <2>1, <3>1, <3>2, <3>3 DEF AllocCall, Pool!AllocCall
  <2>2. ASSUME NEW t \in Threads,
               AllocLock(t) \/ AllocMin(t) \/ FreeLock(t) \/ (AllocCheck(t) /\ top # 0) \/ FreeCheck(t)
        PROVE  UNCHANGED <<FreeBlocks, out, hand, call>>
    <3>1. UNCHANGED <<free_list, top, r, out>>
      BY <2>2, NeverFull DEF AllocLock, AllocMin, FreeLock, AllocCheck, FreeCheck, FreeNeverFull
    <3>2. \E l : /\ pc' = [pc EXCEPT ![t] = l]
                 /\ \/ pc[t] = "allocLock" /\ l = "allocCheck"
                    \/ pc[t] = "allocMin" /\ l = "unlock"
                    \/ pc[t] = "allocCheck" /\ l = "allocDec"
                    \/ pc[t] = "freeLock" /\ l = "freeCheck"
                    \/ pc[t] = "freeCheck" /\ l = "freeInc"
      BY <2>2, NeverFull DEF AllocLock, AllocMin, FreeLock, AllocCheck, FreeCheck, FreeNeverFull, Goto
    <3>3. FreeIndices' = FreeIndices /\ FreeBlocks' = FreeBlocks
      BY <3>1, <3>2 DEF FreeIndices, FreeBlocks, TypeOK
    <3>4. \A u \in Threads : InHand(u)' = InHand(u) /\ CallOf(u)' = CallOf(u)
      BY <3>1, <3>2 DEF InHand, CallOf, TypeOK
    <3>5. QED
      BY <3>1, <3>3, <3>4
  <2>3. ASSUME NEW t \in Threads, AllocCheck(t), top = 0 PROVE Pool!AllocFail(t)
    <3>1. FreeBlocks = {}
      BY <2>3 DEF FreeIndices, FreeBlocks
    <3>2. FreeBlocks' = {}
      BY <2>3 DEF AllocCheck, FreeIndices, FreeBlocks
    <3>3. \A u \in Threads : InHand(u)' = InHand(u)
      BY <2>3 DEF AllocCheck, InHand, TypeOK, Goto
    <3>4. /\ CallOf(t) = "alloc" /\ CallOf(t)' = "return"
          /\ \A u \in Threads : u # t => CallOf(u)' = CallOf(u)
      BY <2>3 DEF AllocCheck, CallOf, TypeOK, Goto
    <3>5. QED
      BY <2>3, <3>1, <3>2, <3>3, <3>4 DEF AllocCheck, Pool!AllocFail
  <2>4. ASSUME NEW t \in Threads, AllocDec(t)
        PROVE  \E b \in FreeBlocks : Pool!AllocTake(t, b)
    <3>1. InHand(t)' = free_list[top - 1]
      BY <2>4 DEF AllocDec, InHand, TypeOK, Goto
    <3>2. PICK b : /\ b \in FreeBlocks /\ FreeBlocks' = FreeBlocks \ {b}
                   /\ InHand(t)' = b
      BY <2>4, <3>1, DecTakes
    <3>3. \A u \in Threads : u # t => InHand(u)' = InHand(u)
      BY <2>4 DEF AllocDec, InHand, Exclusive, InLock, TypeOK, Goto
    <3>4. /\ CallOf(t) = "alloc" /\ CallOf(t)' = "return"
          /\ \A u \in Threads : u # t => CallOf(u)' = CallOf(u)
      BY <2>4 DEF AllocDec, CallOf, TypeOK, Goto
    <3>5. QED
      BY <2>4, <3>2, <3>3, <3>4 DEF AllocDec, Pool!AllocTake
  <2>5. ASSUME NEW t \in Threads, AllocRead(t)
        PROVE  UNCHANGED <<FreeBlocks, out, hand, call>>
    <3>1. FreeIndices' = FreeIndices /\ FreeBlocks' = FreeBlocks
      BY <2>5 DEF AllocRead, FreeIndices, FreeBlocks, TypeOK, Goto
    <3>2. \A u \in Threads : InHand(u)' = InHand(u) /\ CallOf(u)' = CallOf(u)
      BY <2>5 DEF AllocRead, InHand, CallOf, Exclusive, InLock, TypeOK, Goto
    <3>3. QED
      BY <2>5, <3>1, <3>2 DEF AllocRead
  <2>6. ASSUME NEW t \in Threads, NEW b \in out, FreeCall(t, b) PROVE Pool!FreeCall(t, b)
    <3>1. FreeBlocks' = FreeBlocks
      BY <2>6 DEF FreeCall, FreeIndices, FreeBlocks, TypeOK, Goto
    <3>2. /\ InHand(t)' = b
          /\ \A u \in Threads : u # t => InHand(u)' = InHand(u)
      BY <2>6 DEF FreeCall, InHand, TypeOK, Goto
    <3>3. /\ CallOf(t) = "none" /\ CallOf(t)' = "free"
          /\ \A u \in Threads : u # t => CallOf(u)' = CallOf(u)
      BY <2>6 DEF FreeCall, CallOf, TypeOK, Goto
    <3>4. QED
      BY <2>6, <3>1, <3>2, <3>3 DEF FreeCall, Pool!FreeCall
  <2>7. ASSUME NEW t \in Threads, FreeInc(t)
        PROVE  UNCHANGED <<FreeBlocks, out, hand, call>>
    <3>1. FreeIndices' = FreeIndices /\ FreeBlocks' = FreeBlocks
      BY <2>7 DEF FreeInc, FreeIndices, FreeBlocks, Exclusive, InLock, TypeOK, Goto
    <3>2. \A u \in Threads : InHand(u)' = InHand(u) /\ CallOf(u)' = CallOf(u)
      BY <2>7 DEF FreeInc, InHand, CallOf, Exclusive, InLock, TypeOK, Goto
    <3>3. QED
      BY <2>7, <3>1, <3>2 DEF FreeInc
  <2>8. ASSUME NEW t \in Threads, FreePut(t) PROVE Pool!FreePut(t)
    <3>1. FreeBlocks' = FreeBlocks \union {r[t]}
      BY <2>8, PutReturns
    <3>2. /\ InHand(t) = r[t] /\ InHand(t)' = NULL
          /\ \A u \in Threads : u # t => InHand(u)' = InHand(u)
      BY <2>8 DEF FreePut, InHand, Exclusive, InLock, TypeOK, Goto
    <3>3. /\ CallOf(t) = "free" /\ CallOf(t)' = "return"
          /\ \A u \in Threads : u # t => CallOf(u)' = CallOf(u)
      BY <2>8 DEF FreePut, CallOf, TypeOK, Goto
    <3>4. QED
      BY <2>8, <3>1, <3>2, <3>3 DEF FreePut, Pool!FreePut
  <2>9. ASSUME NEW t \in Threads, Unlock(t) PROVE Pool!Return(t)
    <3>1. FreeBlocks' = FreeBlocks
      BY <2>9 DEF Unlock, FreeIndices, FreeBlocks, TypeOK, Goto
    <3>2. /\ InHand(t) = r[t] /\ InHand(t)' = NULL
          /\ \A u \in Threads : u # t => InHand(u)' = InHand(u)
      BY <2>9 DEF Unlock, InHand, TypeOK, Goto
    <3>3. /\ CallOf(t) = "return" /\ CallOf(t)' = "none"
          /\ \A u \in Threads : u # t => CallOf(u)' = CallOf(u)
      BY <2>9 DEF Unlock, CallOf, TypeOK, Goto
    <3>4. QED
      BY <2>9, <3>1, <3>2, <3>3 DEF Unlock, Pool!Return
  <2>10. CASE UNCHANGED vars
    BY <2>10 DEF vars, FreeIndices, FreeBlocks, InHand, CallOf
  <2>11. QED
    BY <2>1, <2>2, <2>3, <2>4, <2>5, <2>6, <2>7, <2>8, <2>9, <2>10
       DEF Next, Alloc, Free, Pool!Next
<1>3. QED
  BY <1>1, <1>2, PoolCorrect, PTL DEF Spec, RefinesPool, Pool!Spec
=============================================================================
