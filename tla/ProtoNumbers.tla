---------------------------- MODULE ProtoNumbers ----------------------------
(***************************************************************************)
(* The numbers of a message (write_byte to write_double and read_byte to   *)
(* read_double of src/common/msg_struct.h, called by type in               *)
(* src/logic/proto_parser.h).  A byte is a digit in 0..Base-1 (256 in the  *)
(* code); numbers are big-endian, the signed types in two's complement.    *)
(* uint is written as unsigned and read as signed.  A double is the number *)
(* its eight bytes are.                                                    *)
(***************************************************************************)
EXTENDS Integers, Sequences

CONSTANT Base

ASSUME BaseAssumption == Base \in Nat /\ Base > 0 /\ Base % 2 = 0

NumberTypes == {"byte", "short", "int", "uint", "double"}

Width(type) == CASE type = "byte" -> 1 [] type = "short" -> 2
                 [] type \in {"int", "uint"} -> 4 [] type = "double" -> 8

Signed(type) == type \in {"byte", "short", "int", "uint"}

Power[w \in Nat] == IF w = 0 THEN 1 ELSE Power[w - 1] * Base

DigitsOf(n, w) == [k \in 1..w |-> (n \div Power[w - k]) % Base]

(* The number after each of its digits.                                    *)
NumberAfter(ds) ==
    LET number[k \in 0..Len(ds)] == IF k = 0 THEN 0 ELSE number[k - 1] * Base + ds[k]
    IN  number

Number(ds) == NumberAfter(ds)[Len(ds)]

TwosComplement(n, w) == IF n < Power[w] \div 2 THEN n ELSE n - Power[w]

(* The bytes of a number, of which its type keeps the last.                *)
Encoded(type, n) == DigitsOf(n % Power[Width(type)], Width(type))

Value(type, bytes) ==
    IF Signed(type) /\ bytes # <<>> THEN TwosComplement(Number(bytes), Width(type))
    ELSE Number(bytes)

-----------------------------------------------------------------------------
(* The numbers a type can hold.                                            *)
Held(type) ==
    LET all == Power[Width(type)]
    IN  IF Signed(type) THEN -(all \div 2)..all \div 2 - 1 ELSE 0..all - 1

(* A number a type can hold is read as it was written, from as many bytes  *)
(* as the type has; of another number what is read is one the type can     *)
(* hold that differs by a multiple of its range (msg_struct.h:60-226).     *)
NumberReturns(type, n) ==
    LET v == Value(type, Encoded(type, n))
    IN  /\ Len(Encoded(type, n)) = Width(type)
        /\ n \in Held(type) => v = n
        /\ v \in Held(type) /\ (n - v) % Power[Width(type)] = 0
=============================================================================
