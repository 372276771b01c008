------------------------------- MODULE Base64 -------------------------------
(***************************************************************************)
(* base64_encode and base64_decode of src/logic/base64.cpp.  A byte is a   *)
(* number in 0..255; a character is its position in base64_chars, or Pad   *)
(* for '='.  A search for the zero byte that fills up a short group finds  *)
(* nothing, and npos cut to a char is 255.                                 *)
(***************************************************************************)
EXTENDS Integers, Sequences, FiniteSetsExt

Pad == 64
NotFound == 255

(* The groups of n elements a sequence is taken in, a short one filled up. *)
Groups(s, n, byte) ==
    [g \in 1..(Len(s) + n - 1) \div n |->
       [i \in 1..n |-> IF n * (g - 1) + i <= Len(s) THEN s[n * (g - 1) + i] ELSE byte]]

(* char_array_3 to char_array_4 (base64.cpp:51-54, 67-70).                 *)
Sextets(a) == <<a[1] \div 4, (a[1] % 4) * 16 + (a[2] \div 16),
                (a[2] % 16) * 4 + (a[3] \div 64), a[3] % 64>>

(* char_array_4 to char_array_3 (base64.cpp:98-100, 115-117).              *)
Octets(c) == <<(c[1] * 4 + ((c[2] % 64) \div 16)) % 256,
               ((c[2] % 16) * 16 + ((c[3] % 64) \div 4)) % 256,
               ((c[3] % 4) * 64 + c[4]) % 256>>

(* A group of i bytes gives i + 1 characters, and pads up to four.         *)
base64_encode(bytes) ==
    LET groups == Groups(bytes, 3, 0)
        written == (4 * Len(bytes) + 2) \div 3
    IN  [k \in 1..4 * Len(groups) |->
           IF k <= written THEN Sextets(groups[1 + (k - 1) \div 4])[1 + ((k - 1) % 4)] ELSE Pad]

(* What is in front of the first pad; a group of i characters gives i - 1  *)
(* bytes.                                                                  *)
base64_decode(chars) ==
    LET pads == {i \in 1..Len(chars) : chars[i] = Pad}
        valid == IF pads = {} THEN chars ELSE SubSeq(chars, 1, Min(pads) - 1)
        groups == Groups(valid, 4, NotFound)
    IN  [k \in 1..(3 * Len(valid)) \div 4 |->
           Octets(groups[1 + (k - 1) \div 3])[1 + ((k - 1) % 3)]]

-----------------------------------------------------------------------------
(* base64_decode undoes base64_encode (base64.cpp:41-123).                 *)
DecodeUndoesEncode(bytes) == base64_decode(base64_encode(bytes)) = bytes
=============================================================================
