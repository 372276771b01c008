---------------------------- MODULE InnerMessage ----------------------------
(***************************************************************************)
(* How a script builds a message of the inner link and reads one:          *)
(* src/common/msg_inner_parse.h over msg_inner of msg_struct.h.            *)
(*                                                                         *)
(* writebegin takes a block of msg_inner_pool, the write calls append to   *)
(* it and writeend pushes it to q_inner_send.  A call that fails raises a  *)
(* Lua error, which ends the script's handler: the half-built block stays  *)
(* in msg_send for the next writebegin.  Every field but an int is a       *)
(* length and that many bytes.                                             *)
(*                                                                         *)
(* The unit of size is an int (4 bytes).  A cell is <<"int", n>> or        *)
(* <<"data", v, k>>, the k-th unit of the value v.                         *)
(***************************************************************************)
EXTENDS Integers, Sequences

CONSTANTS Blocks,     \* blocks of msg_inner_pool
          BufCap,     \* sizeof(msg_inner::buf)
          ZipCap,     \* sizeof(zipBuf)
          Fields,     \* what scripts write: [kind, val, size]
          MaxMessages, \* bound: messages begun
          NULL

\* What a string or table holds is a number that stands for it.
AllFields == [kind : {"int"} \cup {f.kind : f \in Fields}, val : Int, size : Nat]
ImCells == ({"int"} \X Int) \cup ({"data"} \X Int \X Nat)
AllBlocks == [buf : Seq(ImCells), fields : Seq(AllFields)]

\* A message id fits an empty block.
ASSUME ImAssumption ==
    /\ Blocks \in Nat /\ BufCap \in Nat \ {0} /\ ZipCap \in Nat
    /\ Fields \subseteq AllFields
    /\ MaxMessages \in Nat
    /\ NULL \notin AllBlocks

VARIABLES freeBlocks, \* blocks in the pool
          msg_send, \* the block being filled, or NULL
          inScript, \* a handler is between its writebegin and its writeend
          queue,    \* q_inner_send
          begun     \* bounds the run

imVars == <<freeBlocks, msg_send, inScript, queue, begun>>

imInit ==
    /\ freeBlocks = Blocks /\ msg_send = NULL /\ inScript = FALSE
    /\ queue = <<>> /\ begun = 0

(* A block, with the fields its script has been told are in it.            *)
Block(buf, fields) == [buf |-> buf, fields |-> fields]

Data(f) == [k \in 1..f.size |-> <<"data", f.val, k>>]

FitsIn(buf, n) == Len(buf) + n <= BufCap

(* Mutant: the unfinished block is gone on with, not started again.        *)
WriteBeginGoesOn ==
    /\ begun < MaxMessages
    /\ begun' = begun + 1
    /\ IF msg_send = NULL /\ freeBlocks = 0
       THEN UNCHANGED <<freeBlocks, msg_send, inScript>>
       ELSE /\ freeBlocks' = IF msg_send = NULL THEN freeBlocks - 1 ELSE freeBlocks
            /\ msg_send' = Block((IF msg_send = NULL THEN <<>> ELSE msg_send.buf) \o <<<<"int", begun>>>>,
                                 <<[kind |-> "int", val |-> begun, size |-> 0]>>)
            /\ inScript' = TRUE
    /\ UNCHANGED queue

(* writebegin (msg_inner_parse.h:444-460): the unfinished block, if there  *)
(* is one, is started again, in the middle of a message too; the message   *)
(* id goes in first.                                                       *)
WriteBegin ==
    /\ begun < MaxMessages
    /\ begun' = begun + 1
    /\ IF msg_send = NULL /\ freeBlocks = 0
       THEN UNCHANGED <<freeBlocks, msg_send, inScript>>
       ELSE /\ freeBlocks' = IF msg_send = NULL THEN freeBlocks - 1 ELSE freeBlocks
            /\ msg_send' = Block(<<<<"int", begun>>>>, <<[kind |-> "int", val |-> begun, size |-> 0]>>)
            /\ inScript' = TRUE
    /\ UNCHANGED queue

(* A field appended by one call, and whether the call raised an error:     *)
(* when only the length fits, it stays in the block.  A table that cannot  *)
(* be compressed is not written and nobody is told (:356-358, 401-404).    *)
Appended(b, f) ==
    IF f.kind = "int"
    THEN IF FitsIn(b.buf, 1)
         THEN [block |-> Block(Append(b.buf, <<"int", f.val>>), Append(b.fields, f)), err |-> FALSE]
         ELSE [block |-> b, err |-> TRUE]
    ELSE IF f.kind = "zip" /\ ZipCap < f.size THEN [block |-> b, err |-> FALSE]
    ELSE IF ~FitsIn(b.buf, 1) THEN [block |-> b, err |-> TRUE]
    ELSE LET buf == Append(b.buf, <<"int", f.size>>)
         IN  IF FitsIn(buf, f.size)
             THEN [block |-> Block(buf \o Data(f), Append(b.fields, f)), err |-> FALSE]
             ELSE [block |-> Block(buf, b.fields), err |-> TRUE]

WriteOf(f) ==
    /\ inScript
    /\ LET r == Appended(msg_send, f)
       IN  /\ msg_send' = r.block
           /\ inScript' = ~r.err
    /\ UNCHANGED <<freeBlocks, queue, begun>>

(* The handler fails for a reason of its own before it ends its message.   *)
ScriptFails ==
    /\ inScript
    /\ inScript' = FALSE
    /\ UNCHANGED <<freeBlocks, msg_send, queue, begun>>

WriteEnd ==
    /\ inScript
    /\ queue' = Append(queue, msg_send)
    /\ msg_send' = NULL
    /\ inScript' = FALSE
    /\ UNCHANGED <<freeBlocks, begun>>

(* The inner thread sends the oldest message and frees its block.          *)
Sent ==
    /\ queue # <<>>
    /\ queue' = Tail(queue)
    /\ freeBlocks' = freeBlocks + 1
    /\ UNCHANGED <<msg_send, inScript, begun>>

imNext ==
    \/ WriteBegin \/ ScriptFails \/ WriteEnd \/ Sent
    \/ \E f \in Fields : WriteOf(f)

imSpec == imInit /\ [][imNext]_imVars

-----------------------------------------------------------------------------
(* The read calls (:64-121 and the like): the field at an offset, or a     *)
(* refusal; a refused length has already been passed over.                 *)
ReadCell(buf, offset, kind) ==
    LET refused(at) == [ok |-> FALSE, data |-> <<>>, offset |-> at]
    IN  IF Len(buf) < offset + 1 THEN refused(offset)
        ELSE LET n == buf[offset + 1][2]
             IN  IF kind = "int"
                 THEN [ok |-> TRUE, data |-> <<n>>, offset |-> offset + 1]
                 ELSE IF Len(buf) < offset + 1 + n \/ n < 0 THEN refused(offset + 1)
                 ELSE [ok |-> TRUE, data |-> SubSeq(buf, offset + 2, offset + 1 + n),
                       offset |-> offset + 1 + n]

(* The offset after the first k fields of a block, read by their kinds.    *)
OffsetAfter(b, k) ==
    LET at[i \in 0..k] ==
          IF i = 0 THEN 0 ELSE ReadCell(b.buf, at[i - 1], b.fields[i].kind).offset
    IN  at[k]

(* Every message that leaves holds the fields its script was told it       *)
(* wrote, in that order and nothing else: no byte of a message given up    *)
(* earlier, and no length without its bytes (msg_inner_parse.h:316-413).   *)
SentAsWritten ==
    \A m \in 1..Len(queue) :
       LET b == queue[m]
       IN  /\ OffsetAfter(b, Len(b.fields)) = Len(b.buf)
           /\ \A k \in 1..Len(b.fields) :
                LET f == b.fields[k]
                IN  ReadCell(b.buf, OffsetAfter(b, k - 1), f.kind).data
                      = (IF f.kind = "int" THEN <<f.val>> ELSE Data(f))

(* Messages given up half-way cost at most one block, however many there   *)
(* are (msg_inner_parse.h:445-448).                                        *)
NoBlockLost ==
    freeBlocks + Len(queue) + (IF msg_send = NULL THEN 0 ELSE 1) = Blocks

(***************************************************************************)
(* What scripts give up half-way neither spoils nor starves the messages   *)
(* that follow (msg_inner_parse.h:316-511).                                *)
(***************************************************************************)
MessagesKept == SentAsWritten /\ NoBlockLost
=============================================================================
