-------------------------------- MODULE Lz77 --------------------------------
(***************************************************************************)
(* The byte compressor of src/logic/lz77.h, which msg_inner_parse.h puts   *)
(* around the tables of the inner link.  A byte string is a sequence over  *)
(* 0..ByteMax (char, 0..255 in the code).  zip replaces a stretch that     *)
(* occurs within the last Window bytes (256) by three bytes: the mark Sp   *)
(* ('|', 124), the length less 2 and the distance less 1; a literal Sp is  *)
(* followed by a zero byte, which no length can be.                        *)
(*                                                                         *)
(* MaxRun is the 258 of the comparison loop: a stretch that still matches  *)
(* after MaxRun bytes is never recorded (the loop ends without a break),   *)
(* so the longest match used has MaxRun - 1 bytes and its length less 2    *)
(* is exactly ByteMax.                                                     *)
(***************************************************************************)
EXTENDS Integers, Sequences, FiniteSetsExt

CONSTANTS ByteMax, Sp, Window, MaxRun

ASSUME LzAssumption ==
    /\ ByteMax \in Nat /\ Sp \in 0..ByteMax
    /\ Window \in 1..ByteMax + 1
    /\ MaxRun \in 3..ByteMax + 3

Char(n) == n % (ByteMax + 1)

(* How far in[i..] repeats in[i - dist..]: MaxRun when the loop never      *)
(* reached its break (lz77.h:14-23).  Positions count from 1.              *)
RunLen(in, i, dist) ==
    LET differs(k) == Len(in) < i + k \/ in[i + k] # in[i + k - dist]
    IN  IF \E k \in 0..MaxRun - 1 : differs(k)
        THEN Min({k \in 0..MaxRun - 1 : differs(k)})
        ELSE MaxRun

(* Mutant: one distance too many, which no longer fits its byte.           *)
DistancesWide(i) == 1..Min({Window + 1, i - 1})

(* The distances the search looks at (lz77.h:10-14).                       *)
Distances(i) == 1..Min({Window, i - 1})

(* The nearest of the longest recorded matches, as <<length, distance>>.   *)
Longest(in, i) ==
    LET runs == {<<RunLen(in, i, d), d>> : d \in Distances(i)}
        recorded == {r \in runs : r[1] < MaxRun} \cup {<<0, 0>>}
        longest == Max({r[1] : r \in recorded})
    IN  <<longest, Min({r[2] : r \in {x \in recorded : x[1] = longest}})>>

(* One turn of zip's loop: the bytes written and the bytes consumed.       *)
Token(in, i) ==
    LET m == Longest(in, i)
    IN  IF 2 < m[1] THEN [out |-> <<Sp, Char(m[1] - 2), Char(m[2] - 1)>>, used |-> m[1]]
        ELSE IF in[i] = Sp THEN [out |-> <<Sp, 0>>, used |-> 1]
        ELSE [out |-> <<in[i]>>, used |-> 1]

(* zip: the bytes written, whatever their number; the call fails exactly   *)
(* when they do not fit in out_cap, every write being guarded.  Each turn  *)
(* consumes a byte, so that Len(in) turns are enough.                      *)
ZipTurn(in, s) ==
    LET t == Token(in, s.at)
    IN  IF Len(in) < s.at THEN s ELSE [at |-> s.at + t.used, out |-> s.out \o t.out]

ZipTurns(in) ==
    LET turns[n \in Nat] ==
          IF n = 0 THEN [at |-> 1, out |-> <<>>] ELSE ZipTurn(in, turns[n - 1])
    IN  turns

ZipBytes(in) == ZipTurns(in)[Len(in)].out

(* The copy loop of unzip, byte after byte: a stretch longer than its      *)
(* distance repeats bytes the same loop has written (lz77.h:62-64).        *)
CopyByte(out, dist) == Append(out, out[Len(out) + 1 - dist])

Copies(out, dist) ==
    LET after[j \in Nat] == IF j = 0 THEN out ELSE CopyByte(after[j - 1], dist) IN after

Copied(out, len, dist) == Copies(out, dist)[len]

(* One turn of unzip's loop, into a buffer of cap bytes: the next byte, an *)
(* escaped Sp or a stretch.                                                *)
UnzipTurn(in, cap, s) ==
    LET left == Len(in) + 1 - s.at
        Fits(n) == Len(s.out) + n <= cap
        failed == [s EXCEPT !.ok = FALSE]
        len == in[s.at + 1] + 2
        dist == in[s.at + 2] + 1
    IN  IF ~s.ok \/ left < 1 THEN s
        ELSE IF in[s.at] # Sp
        THEN IF Fits(1) THEN [s EXCEPT !.at = @ + 1, !.out = Append(@, in[s.at])] ELSE failed
        ELSE IF left < 2 THEN failed
        ELSE IF in[s.at + 1] = 0
        THEN IF Fits(1) THEN [s EXCEPT !.at = @ + 2, !.out = Append(@, Sp)] ELSE failed
        ELSE IF left < 3 \/ Len(s.out) < dist \/ ~Fits(len) THEN failed
        ELSE [s EXCEPT !.at = @ + 3, !.out = Copied(@, len, dist)]

UnzipTurns(in, cap) ==
    LET turns[n \in Nat] ==
          IF n = 0 THEN [ok |-> TRUE, at |-> 1, out |-> <<>>]
          ELSE UnzipTurn(in, cap, turns[n - 1])
    IN  turns

Unzip(in, cap) ==
    LET s == UnzipTurns(in, cap)[Len(in)] IN [ok |-> s.ok, out |-> s.out]

-----------------------------------------------------------------------------
(* unzip restores what was zipped into a buffer of exactly its bytes       *)
(* (lz77.h:4-78).                                                          *)
UnzipUndoesZip(in) == Unzip(ZipBytes(in), Len(in)) = [ok |-> TRUE, out |-> in]

(* Whatever bytes unzip is given, it writes within its buffer and reports  *)
(* failure rather than read behind its input or before its output, and a   *)
(* literal is never more than doubled by zip.                              *)
StaysWithin(in, cap) ==
    Len(Unzip(in, cap).out) <= cap /\ Len(ZipBytes(in)) <= 2 * Len(in)
=============================================================================
