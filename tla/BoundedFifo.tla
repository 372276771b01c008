---------------------------- MODULE BoundedFifo ----------------------------
(***************************************************************************)
(* What a message queue between two threads promises: a bounded first-in   *)
(* first-out channel whose operations take effect at one instant.  The     *)
(* rest of the project models queues this way; MsgQueue shows that the     *)
(* ring of src/common/msg_queue.h implements it.                           *)
(***************************************************************************)
EXTENDS Naturals, Sequences

CONSTANTS Producers,  \* the threads that call push
          Msgs,       \* message pointers
          NULL,       \* the null pointer
          Capacity    \* how many messages the channel holds

VARIABLES fifo,  \* the messages in the channel, oldest first
          arg,   \* arg[p]: the message p is pushing, NULL when p is not pushing
          got    \* what the consumer's last pop or getfront returned

vars == <<fifo, arg, got>>

Init ==
    /\ fifo = <<>>
    /\ arg = [p \in Producers |-> NULL]
    /\ got = NULL

Call(p, m) ==
    /\ arg[p] = NULL
    /\ arg' = [arg EXCEPT ![p] = m]
    /\ UNCHANGED <<fifo, got>>

Accept(p) ==
    /\ arg[p] # NULL
    /\ Len(fifo) < Capacity
    /\ fifo' = Append(fifo, arg[p])
    /\ arg' = [arg EXCEPT ![p] = NULL]
    /\ UNCHANGED got

Reject(p) ==
    /\ arg[p] # NULL
    /\ Len(fifo) = Capacity
    /\ arg' = [arg EXCEPT ![p] = NULL]
    /\ UNCHANGED <<fifo, got>>

Pop ==
    /\ fifo # <<>>
    /\ got' = Head(fifo)
    /\ fifo' = Tail(fifo)
    /\ UNCHANGED arg

Peek ==
    /\ fifo # <<>>
    /\ got' = Head(fifo)
    /\ UNCHANGED <<fifo, arg>>

Empty ==
    /\ fifo = <<>>
    /\ got' = NULL
    /\ UNCHANGED <<fifo, arg>>

Next ==
    \/ \E p \in Producers : \/ \E m \in Msgs : Call(p, m)
                            \/ Accept(p)
                            \/ Reject(p)
    \/ Pop
    \/ Peek
    \/ Empty

Spec == Init /\ [][Next]_vars
=============================================================================
