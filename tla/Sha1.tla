-------------------------------- MODULE Sha1 --------------------------------
(***************************************************************************)
(* How the SHA1 object of src/logic/sha1.cpp cuts a message into the       *)
(* blocks it mixes: Reset, Input and PadMessage, and what the upgrade of a *)
(* client connection asks of it (websocket.h:33-43).  The object is a      *)
(* record with the block being filled, the blocks already processed and    *)
(* the length in bits, both words of it; no message is so long that it     *)
(* sets Corrupted.  The eighty rounds of ProcessMessageBlock on a block    *)
(* are arithmetic without a decision and are not modelled.                 *)
(***************************************************************************)
EXTENDS Integers, Sequences

CONSTANTS BlockBytes,   \* bytes of a block, 64
          LengthBytes   \* of which the last hold the length, 8

ASSUME ShaAssumption ==
    BlockBytes \in Nat /\ LengthBytes \in Nat /\ LengthBytes < BlockBytes

Reset == [block |-> <<>>, blocks |-> <<>>, Length_Low |-> 0]

ProcessMessageBlock(s) == [s EXCEPT !.block = <<>>, !.blocks = Append(@, s.block)]

(* Input of one byte; a full block is processed at once.                   *)
Input(s, byte) ==
    LET t == [s EXCEPT !.block = Append(@, byte), !.Length_Low = @ + 8]
    IN  IF Len(t.block) = BlockBytes THEN ProcessMessageBlock(t) ELSE t

Zeros(block, n) == block \o [i \in 1..(n - Len(block)) |-> 0]

(* A length as its last bytes.                                             *)
InBytes(n) == [i \in 1..LengthBytes |-> (n \div 256^(LengthBytes - i)) % 256]

(* PadMessage: a block with no room for the length goes out first.         *)
PadMessage(s) ==
    LET marked == Append(s.block, 128)
        t == IF BlockBytes - LengthBytes - 1 < Len(s.block)
             THEN ProcessMessageBlock([s EXCEPT !.block = Zeros(marked, BlockBytes)])
             ELSE [s EXCEPT !.block = marked]
    IN  ProcessMessageBlock(
            [t EXCEPT !.block = Zeros(t.block, BlockBytes - LengthBytes) \o InBytes(s.Length_Low)])

(* The object after each byte of a message.                                *)
Fed(message) ==
    LET fed[n \in 0..Len(message)] ==
          IF n = 0 THEN Reset ELSE Input(fed[n - 1], message[n])
    IN  fed

(* The blocks of a message that is fed byte by byte, then asked its Result. *)
Processed(message) == PadMessage(Fed(message)[Len(message)]).blocks

-----------------------------------------------------------------------------
(* The blocks of the standard: the message, the bit 1, zeros and the       *)
(* length, cut evenly, in as few blocks as hold them.                      *)
StandardPadding(message) ==
    LET n == Len(message)
        count == (n + LengthBytes + BlockBytes) \div BlockBytes
    IN  message \o <<128>>
          \o [i \in 1..BlockBytes * count - (n + 1 + LengthBytes) |-> 0] \o InBytes(8 * n)

(* What is mixed is what the standard says (sha1.cpp:180-215, 500-566).    *)
CutByTheStandard(message) ==
    Processed(message) =
      [b \in 1..(Len(message) + LengthBytes + BlockBytes) \div BlockBytes |->
         SubSeq(StandardPadding(message), BlockBytes * (b - 1) + 1, BlockBytes * b)]
=============================================================================
