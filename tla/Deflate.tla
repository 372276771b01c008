------------------------------- MODULE Deflate -------------------------------
(***************************************************************************)
(* What a compressed part of a workbook means, from the definition of the  *)
(* format: blocks of tokens and how they are written as bits.  A token is  *)
(* <<byte>> or <<length, distance>>.  It shares nothing with Inflate but   *)
(* the form of a sequence of bits.                                         *)
(***************************************************************************)
EXTENDS Integers, Sequences, SequencesExt, FiniteSetsExt

LowFirst(v, n) == [i \in 1..n |-> (v \div 2^(i - 1)) % 2]
HighFirst(v, n) == [i \in 1..n |-> (v \div 2^(n - i)) % 2]

(* The code of a symbol follows those of the shorter codes and, among the  *)
(* codes of one length, those of the lesser symbols.                       *)
CodeOf(lens, sym) ==
    LET before == {t \in DOMAIN lens :
                     0 < lens[t] /\ (lens[t] < lens[sym] \/ (lens[t] = lens[sym] /\ t < sym))}
    IN  HighFirst(MapThenSumSet(LAMBDA t : 2^(15 - lens[t]), before) \div 2^(15 - lens[sym]),
                  lens[sym])

FixedLengths ==
    [s \in 0..287 |-> IF s < 144 THEN 8 ELSE IF s < 256 THEN 9 ELSE IF s < 280 THEN 7 ELSE 8]
FixedDistances == [s \in 0..31 |-> 5]

(* The symbols of lengths and distances with the bits that follow them.    *)
LengthExtra(c) == IF c < 265 \/ c = 285 THEN 0 ELSE (c - 261) \div 4
LengthFrom(c) ==
    IF c = 285 THEN 258 ELSE IF c < 265 THEN c - 254
    ELSE 3 + (4 + ((c - 261) % 4)) * 2^LengthExtra(c)
DistanceExtra(c) == IF c < 4 THEN 0 ELSE (c - 2) \div 2
DistanceFrom(c) == IF c < 4 THEN c + 1 ELSE 1 + (2 + (c % 2)) * 2^DistanceExtra(c)

LengthSymbol(n) == Max({c \in 257..285 : LengthFrom(c) <= n})
DistanceSymbol(n) == Max({c \in 0..29 : DistanceFrom(c) <= n})

TokenBits(token, lit, dist) ==
    IF Len(token) = 1 THEN CodeOf(lit, token[1])
    ELSE LET l == LengthSymbol(token[1])
             d == DistanceSymbol(token[2])
         IN  CodeOf(lit, l) \o LowFirst(token[1] - LengthFrom(l), LengthExtra(l))
               \o CodeOf(dist, d) \o LowFirst(token[2] - DistanceFrom(d), DistanceExtra(d))

TokensBits(tokens, lit, dist) ==
    FlattenSeq([i \in 1..Len(tokens) |-> TokenBits(tokens[i], lit, dist)]) \o CodeOf(lit, 256)

(* The lengths of the codes, as steps <<length>> or <<symbol, how many>>.  *)
StepLengths(step, before) ==
    IF Len(step) = 1 THEN step
    ELSE [i \in 1..step[2] |-> IF step[1] = 16 THEN Last(before) ELSE 0]
LengthsOf(steps) == FoldLeft(LAMBDA acc, s : acc \o StepLengths(s, acc), <<>>, steps)
StepBits(step, lens) ==
    CodeOf(lens, step[1]) \o
      (IF Len(step) = 1 THEN <<>>
       ELSE CASE step[1] = 16 -> LowFirst(step[2] - 3, 2)
              [] step[1] = 17 -> LowFirst(step[2] - 3, 3)
              [] step[1] = 18 -> LowFirst(step[2] - 11, 7))

Order == <<16, 17, 18, 0, 8, 7, 9, 6, 10, 5, 11, 4, 12, 3, 13, 2, 14, 1, 15>>

BlockBits(block, at) ==
    CASE block.kind = "stored" ->
           [i \in 1..((8 - (at % 8)) % 8) |-> 1] \o LowFirst(Len(block.bytes), 16)
             \o LowFirst(65535 - Len(block.bytes), 16)
             \o FlattenSeq([i \in 1..Len(block.bytes) |-> LowFirst(block.bytes[i], 8)])
      [] block.kind = "fixed" -> TokensBits(block.tokens, FixedLengths, FixedDistances)
      [] block.kind = "dynamic" ->
           LET all == LengthsOf(block.steps)
               lit == [s \in 0..(block.hlit - 1) |-> all[s + 1]]
               dist == [s \in 0..(Len(all) - block.hlit - 1) |-> all[block.hlit + s + 1]]
           IN  LowFirst(block.hlit - 257, 5) \o LowFirst(Len(all) - block.hlit - 1, 5)
                 \o LowFirst(15, 4)
                 \o FlattenSeq([i \in 1..19 |-> LowFirst(block.clen[Order[i]], 3)])
                 \o FlattenSeq([i \in 1..Len(block.steps) |-> StepBits(block.steps[i], block.clen)])
                 \o TokensBits(block.tokens, lit, dist)

BlockType(block) ==
    CASE block.kind = "stored" -> 0 [] block.kind = "fixed" -> 1 [] block.kind = "dynamic" -> 2

(* The blocks as bits, filled up to whole bytes and more than one code.    *)
Compressed(blocks) ==
    LET add(acc, i) ==
          LET head == <<IF i = Len(blocks) THEN 1 ELSE 0>> \o LowFirst(BlockType(blocks[i]), 2)
          IN  acc \o head \o BlockBits(blocks[i], Len(acc) + 3)
    IN  FoldLeft(add, <<>>, [i \in 1..Len(blocks) |-> i]) \o [i \in 1..24 |-> 0]

(* The bytes the tokens stand for.                                         *)
TokenBytes(out, token) ==
    IF Len(token) = 1 THEN out \o token
    ELSE out \o [i \in 1..token[1] |-> out[Len(out) - token[2] + 1 + ((i - 1) % token[2])]]
Meaning(blocks) ==
    FoldLeft(LAMBDA out, b : IF b.kind = "stored" THEN out \o b.bytes
                             ELSE FoldLeft(TokenBytes, out, b.tokens), <<>>, blocks)
=============================================================================
