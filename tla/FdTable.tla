------------------------------ MODULE FdTable ------------------------------
(***************************************************************************)
(* The table of connections that thread_io, thread_inner and thread_admin  *)
(* each keep: fd2be, from file descriptors to connections, and fds, the    *)
(* descriptors in use in no particular order (fds[0 .. fds_len - 1] is the *)
(* sequence fds here).  fd_add and fd_del are the same code in each.       *)
(***************************************************************************)
EXTENDS Naturals, Sequences

CONSTANT fd_max  \* the length of fd2be and fds

ASSUME FdAssumption == fd_max \in Nat

NoBe == 0  \* the null bufferevent; connections are numbered from 1

Fds == 0 .. (fd_max - 1)

\* Seeded bug: the last entry of the table is never used.
CanAddButLast(fd2be, fds, fd) ==
    /\ fd \in Fds
    /\ fd2be[fd] = NoBe
    /\ \A i \in 1 .. Len(fds) : fds[i] # fd
    /\ Len(fds) < fd_max - 1

\* The conditions under which fd_add returns true.
CanAdd(fd2be, fds, fd) ==
    /\ fd \in Fds
    /\ fd2be[fd] = NoBe
    /\ \A i \in 1 .. Len(fds) : fds[i] # fd
    /\ Len(fds) < fd_max

\* The conditions under which fd_del returns true.
CanDel(fd2be, fds, fd) ==
    /\ fd \in Fds
    /\ fd2be[fd] # NoBe
    /\ \E i \in 1 .. Len(fds) : fds[i] = fd

\* Seeded bug: the last entry is dropped but not moved to the hole.
DropLast(fds, fd) == SubSeq(fds, 1, Len(fds) - 1)

\* fds[i] = fds[--fds_len] at the first i with fds[i] = fd.
SwapRemove(fds, fd) ==
    LET i == CHOOSE i \in 1 .. Len(fds) :
                 fds[i] = fd /\ \A j \in 1 .. (i - 1) : fds[j] # fd
    IN  SubSeq([fds EXCEPT ![i] = fds[Len(fds)]], 1, Len(fds) - 1)

(***************************************************************************)
(* fds lists the descriptors that have a connection, each once: the loop   *)
(* over fds that broadcasts meets every connection once.                   *)
(***************************************************************************)
TableConsistent(fd2be, fds) ==
    /\ \A i, j \in 1 .. Len(fds) : fds[i] = fds[j] => i = j
    /\ \A fd \in Fds : fd2be[fd] # NoBe <=> \E i \in 1 .. Len(fds) : fds[i] = fd
=============================================================================
