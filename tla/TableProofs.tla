----------------------------- MODULE TableProofs -----------------------------
(***************************************************************************)
(* The table of connections, for every number of descriptors: fd_add finds *)
(* room for a descriptor that is free, and adding and deleting keep fds    *)
(* and fd2be in agreement.                                                 *)
(***************************************************************************)
EXTENDS FdTable, Integers, FiniteSetTheorems, TLAPS

LEMMA Swapped ==
    ASSUME NEW S, NEW s \in Seq(S), NEW k \in 1 .. Len(s)
    PROVE  LET r == SubSeq([s EXCEPT ![k] = s[Len(s)]], 1, Len(s) - 1)
           IN  /\ r \in Seq(S) /\ Len(r) = Len(s) - 1
               /\ \A i \in 1 .. Len(r) : r[i] = IF i = k THEN s[Len(s)] ELSE s[i]
<1> DEFINE t == [s EXCEPT ![k] = s[Len(s)]]
<1>1. Len(s) \in Nat /\ s[Len(s)] \in S
  OBVIOUS
<1>2. t \in Seq(S) /\ Len(t) = Len(s)
  OBVIOUS
<1>3. \A i \in 1 .. Len(s) : t[i] = IF i = k THEN s[Len(s)] ELSE s[i]
  OBVIOUS
<1> HIDE DEF t
<1>4. /\ SubSeq(t, 1, Len(s) - 1) \in Seq(S)
      /\ Len(SubSeq(t, 1, Len(s) - 1)) = Len(s) - 1
      /\ \A i \in 1 .. Len(s) - 1 : SubSeq(t, 1, Len(s) - 1)[i] = t[i]
  BY <1>1, <1>2
<1> QED
  BY <1>1, <1>3, <1>4 DEF t

(***************************************************************************)
(* fd_del: the last entry moves to the hole, nothing else moves, and the   *)
(* descriptor is gone.                                                     *)
(***************************************************************************)
LEMMA DelKeepsTable ==
    ASSUME NEW B, NEW tab \in [Fds -> B], NEW list \in Seq(Fds), NEW fd \in Fds,
           NoBe \in B, TableConsistent(tab, list), tab[fd] # NoBe
    PROVE  /\ CanDel(tab, list, fd)
           /\ SwapRemove(list, fd) \in Seq(Fds)
           /\ TableConsistent([tab EXCEPT ![fd] = NoBe], SwapRemove(list, fd))
<1>1. CanDel(tab, list, fd)
  BY DEF CanDel, TableConsistent
<1>2. PICK k \in 1 .. Len(list) : list[k] = fd
  BY <1>1 DEF CanDel
<1>3. \A i, j \in 1 .. Len(list) : list[i] = list[j] => i = j
  BY DEF TableConsistent
<1>4. k = CHOOSE i \in 1 .. Len(list) :
              list[i] = fd /\ \A j \in 1 .. (i - 1) : list[j] # fd
  <2>1. list[k] = fd /\ \A j \in 1 .. (k - 1) : list[j] # fd
    BY <1>2, <1>3
  <2>2. \A i \in 1 .. Len(list) : list[i] = fd => i = k
    BY <1>2, <1>3
  <2> QED
    BY <2>1, <2>2
<1> DEFINE r == SubSeq([list EXCEPT ![k] = list[Len(list)]], 1, Len(list) - 1)
<1>5. SwapRemove(list, fd) = r
  BY <1>4 DEF SwapRemove
<1>6. /\ r \in Seq(Fds) /\ Len(r) = Len(list) - 1
      /\ \A i \in 1 .. Len(r) : r[i] = IF i = k THEN list[Len(list)] ELSE list[i]
  BY Swapped
<1> HIDE DEF r
<1>7. Len(list) \in Nat /\ Len(r) \in Nat
  BY <1>6
<1>8. \A i, j \in 1 .. Len(r) : r[i] = r[j] => i = j
  BY <1>3, <1>6, <1>7
<1>9. \A i \in 1 .. Len(r) : r[i] # fd
  BY <1>2, <1>3, <1>6, <1>7
<1>10. ASSUME NEW x \in Fds, x # fd
       PROVE  (\E i \in 1 .. Len(r) : r[i] = x) <=> \E i \in 1 .. Len(list) : list[i] = x
  <2>1. ASSUME NEW i \in 1 .. Len(r), r[i] = x
        PROVE  \E j \in 1 .. Len(list) : list[j] = x
    BY <2>1, <1>6, <1>7
  <2>2. ASSUME NEW i \in 1 .. Len(list), list[i] = x
        PROVE  \E j \in 1 .. Len(r) : r[j] = x
    <3>1. i # k
      BY <1>2, <1>10, <2>2
    <3>2. CASE i = Len(list)
      BY <3>1, <3>2, <2>2, <1>6, <1>7
    <3>3. CASE i # Len(list)
      BY <3>1, <3>3, <2>2, <1>6, <1>7
    <3> QED
      BY <3>2, <3>3
  <2> QED
    BY <2>1, <2>2
<1>11. \A x \in Fds : [tab EXCEPT ![fd] = NoBe][x] # NoBe
                        <=> \E i \in 1 .. Len(r) : r[i] = x
  BY <1>9, <1>10 DEF TableConsistent
<1> QED
  BY <1>1, <1>5, <1>6, <1>8, <1>11 DEF TableConsistent

\* fd_add.
LEMMA AddKeepsTable ==
    ASSUME NEW B, NEW tab \in [Fds -> B], NEW list \in Seq(Fds), NEW fd, NEW b \in B,
           b # NoBe, TableConsistent(tab, list), CanAdd(tab, list, fd)
    PROVE  /\ fd \in Fds /\ Append(list, fd) \in Seq(Fds)
           /\ TableConsistent([tab EXCEPT ![fd] = b], Append(list, fd))
<1> DEFINE r == Append(list, fd)
<1>1. fd \in Fds /\ \A i \in 1 .. Len(list) : list[i] # fd
  BY DEF CanAdd
<1>2. /\ r \in Seq(Fds) /\ Len(r) = Len(list) + 1 /\ Len(list) \in Nat
      /\ \A i \in 1 .. Len(r) : r[i] = IF i = Len(r) THEN fd ELSE list[i]
  BY <1>1
<1> HIDE DEF r
<1>3. \A i, j \in 1 .. Len(r) : r[i] = r[j] => i = j
  BY <1>1, <1>2 DEF TableConsistent
<1>4. ASSUME NEW x \in Fds
      PROVE  (\E i \in 1 .. Len(r) : r[i] = x)
               <=> (x = fd \/ \E i \in 1 .. Len(list) : list[i] = x)
  <2>1. r[Len(r)] = fd /\ Len(r) \in 1 .. Len(r)
    BY <1>2
  <2>2. \A i \in 1 .. Len(list) : i \in 1 .. Len(r) /\ r[i] = list[i]
    BY <1>2
  <2> QED
    BY <1>2, <2>1, <2>2
<1>5. \A x \in Fds : [tab EXCEPT ![fd] = b][x] # NoBe
                       <=> \E i \in 1 .. Len(r) : r[i] = x
  BY <1>1, <1>4 DEF TableConsistent
<1> QED
  BY <1>1, <1>2, <1>3, <1>5 DEF TableConsistent, r

(***************************************************************************)
(* A free descriptor of the table always finds room: those in the list     *)
(* differ, and are other descriptors of the table.                         *)
(***************************************************************************)
LEMMA RoomForFree ==
    ASSUME NEW B, NEW tab \in [Fds -> B], NEW list \in Seq(Fds), NEW fd \in Fds,
           TableConsistent(tab, list), tab[fd] = NoBe
    PROVE  CanAdd(tab, list, fd)
<1>1. \A i \in 1 .. Len(list) : list[i] # fd
  BY DEF TableConsistent
<1>2. IsFiniteSet(Fds) /\ Cardinality(Fds) = fd_max
  <2>1. fd_max \in Nat
    BY FdAssumption
  <2>2. IsFiniteSet(0 .. (fd_max - 1))
        /\ Cardinality(0 .. (fd_max - 1)) = IF 0 > fd_max - 1 THEN 0 ELSE (fd_max - 1) - 0 + 1
    BY <2>1, FS_Interval
  <2> QED
    BY <2>1, <2>2 DEF Fds
<1>3. IsFiniteSet(Fds \ {fd}) /\ Cardinality(Fds \ {fd}) = fd_max - 1
  BY <1>2, FS_RemoveElement
<1>4. Len(list) \in Nat
  OBVIOUS
<1>5. IsFiniteSet(1 .. Len(list)) /\ Cardinality(1 .. Len(list)) = Len(list)
  <2>1. IsFiniteSet(1 .. Len(list))
        /\ Cardinality(1 .. Len(list)) = IF 1 > Len(list) THEN 0 ELSE Len(list) - 1 + 1
    BY <1>4, FS_Interval
  <2> QED
    BY <1>4, <2>1
<1>6. ~ fd_max - 1 < Len(list)
  <2>1. SUFFICES ASSUME fd_max - 1 < Len(list) PROVE FALSE
    OBVIOUS
  <2> DEFINE f == [i \in 1 .. Len(list) |-> list[i]]
  <2>2. f \in [1 .. Len(list) -> Fds \ {fd}]
    BY <1>1
  <2>3. \E x, y \in 1 .. Len(list) : x # y /\ f[x] = f[y]
    BY <2>1, <2>2, <1>3, <1>5, FS_PigeonHole
  <2> QED
    BY <2>3 DEF TableConsistent
<1> QED
  BY <1>1, <1>4, <1>6, FdAssumption DEF CanAdd
=============================================================================
