------------------------------- MODULE Inflate -------------------------------
(***************************************************************************)
(* The decompressor of the sheet tool, tinfUncompress of                   *)
(* src/myxml2/myxml2.cpp.  A compressed part of the workbook is a sequence *)
(* of bits, the least of each byte first; source and bitcount of tinfData  *)
(* are one number, the bits consumed.  A state is                          *)
(* [bits, at, dest, ok]; it fails only where the code ends the program.    *)
(***************************************************************************)
EXTENDS Integers, Sequences, SequencesExt

CONSTANTS ByteBits  \* 8

LOCAL Pow2(n) == 2^n

(* tinfReadBits: the value of the next num bits (:93-116).                 *)
Bits(d, num) ==
    LET value[i \in 0..num] == IF i = 0 THEN 0
                               ELSE value[i - 1] + Pow2(i - 1) * d.bits[d.at + i]
    IN  value[num]

Skip(d, num) == [d EXCEPT !.at = @ + num]

(* tinfBuildTree: how many codes there are of each length, and the symbols *)
(* by length, then by number (:74-92).                                     *)
BuildTree(lengths) ==
    LET ofLength(l) == SelectSeq([i \in 1..Len(lengths) |-> i - 1],
                                 LAMBDA s : lengths[s + 1] = l)
    IN  [table |-> [l \in 0..15 |-> IF l = 0 THEN 0 ELSE Len(ofLength(l))],
         trans |-> FlattenSeq([l \in 1..15 |-> ofLength(l)])]

(* The trees the code holds ready for blocks of type 1 (:184-209).         *)
Numbers(a, b) == [i \in 1..(b - a + 1) |-> a + i - 1]
sltree == [table |-> [l \in 0..15 |-> CASE l = 7 -> 24 [] l = 8 -> 152 [] l = 9 -> 112
                                        [] OTHER -> 0],
           trans |-> Numbers(256, 279) \o Numbers(0, 143) \o Numbers(280, 287)
                     \o Numbers(144, 255)]
sdtree == [table |-> [l \in 0..15 |-> IF l = 5 THEN 32 ELSE 0], trans |-> Numbers(0, 31)]

(* tinfDecodeSymbol: the symbol of the next code, and its length.  cur is  *)
(* the code less the first code of its length (:117-127).                  *)
Decode(d, t) ==
    LET after[l \in 0..15] ==
          IF l = 0 THEN [cur |-> 0, sum |-> 0]
          ELSE LET prev == after[l - 1]
               IN  [cur |-> 2 * prev.cur + d.bits[d.at + l] - t.table[l],
                    sum |-> prev.sum + t.table[l]]
        len == CHOOSE l \in 1..15 : /\ after[l].cur < 0
                                    /\ \A k \in 1..(l - 1) : after[k].cur >= 0
    IN  [sym |-> t.trans[after[len].sum + after[len].cur + 1], len |-> len]

lengthBits == <<0, 0, 0, 0, 0, 0, 0, 0, 1, 1, 1, 1, 2, 2, 2, 2, 3, 3, 3, 3, 4, 4, 4, 4,
                5, 5, 5, 5, 0, 6>>
lengthBase == <<3, 4, 5, 6, 7, 8, 9, 10, 11, 13, 15, 17, 19, 23, 27, 31, 35, 43, 51, 59,
                67, 83, 99, 115, 131, 163, 195, 227, 258, 323>>
distBits == <<0, 0, 0, 0, 1, 1, 2, 2, 3, 3, 4, 4, 5, 5, 6, 6, 7, 7, 8, 8, 9, 9, 10, 10,
              11, 11, 12, 12, 13, 13>>
distBase == <<1, 2, 3, 4, 5, 7, 9, 13, 17, 25, 33, 49, 65, 97, 129, 193, 257, 385, 513,
              769, 1025, 1537, 2049, 3073, 4097, 6145, 8193, 12289, 16385, 24577>>

(* The copy goes byte after byte and may read what it has written (:157).  *)
CopyAtOnce(dest, offs, length) ==  \* mutant: what is not written yet is copied
    dest \o [i \in 1..length |-> IF i <= offs THEN dest[Len(dest) - offs + i] ELSE 0]
Copy(dest, offs, length) ==
    LET after[i \in 0..length] ==
          IF i = 0 THEN dest
          ELSE LET out == after[i - 1] IN Append(out, out[Len(out) - offs + 1])
    IN  after[length]

RECURSIVE InflateBlockData(_, _, _)
(* tinfInflateBlockData (:128-161).                                        *)
DistanceRead(d, offs, len, num) ==
    [d EXCEPT !.at = @ + len + num, !.dest = Copy(@, offs.base + Bits(Skip(d, len), num), offs.length)]
CopyFrom(d, length, code) ==
    DistanceRead(d, [base |-> distBase[code.sym + 1], length |-> length],
                 code.len, distBits[code.sym + 1])
LengthRead(d, k, dt) ==
    LET length == lengthBase[k] + Bits(d, lengthBits[k])
        at == Skip(d, lengthBits[k])
    IN  CopyFrom(at, length, Decode(at, dt))
Symbol(d, sym, lt, dt) ==
    IF sym = 256 THEN d
    ELSE InflateBlockData(IF sym < 256 THEN [d EXCEPT !.dest = Append(@, sym)]
                          ELSE LengthRead(d, sym - 256, dt), lt, dt)
InflateBlockData(d, lt, dt) ==
    LET code == Decode(d, lt) IN Symbol(Skip(d, code.len), code.sym, lt, dt)

(* A block that is not compressed begins at a whole byte, with its length  *)
(* and the complement of it (:170-181).                                    *)
Aligned(at) == ByteBits * ((at + ByteBits - 1) \div ByteBits)
Stored(d) ==
    LET at == [d EXCEPT !.at = Aligned(@)]
        length == Bits(at, 16)
        bytes == [i \in 1..length |-> Bits(Skip(at, 32 + ByteBits * (i - 1)), ByteBits)]
    IN  IF length # 65535 - Bits(Skip(at, 16), 16) THEN [d EXCEPT !.ok = FALSE]
        ELSE [at EXCEPT !.at = @ + 32 + ByteBits * length, !.dest = @ \o bytes]

clcidx == <<16, 17, 18, 0, 8, 7, 9, 6, 10, 5, 11, 4, 12, 3, 13, 2, 14, 1, 15>>

RECURSIVE CodeLengths(_, _, _, _)
(* The lengths of the codes, repeated ones told by the symbols 16 to 18    *)
(* (:228-248).                                                             *)
Repeat(d, lengths, x, base, num, len, tree) ==
    CodeLengths(Skip(d, num), lengths \o [i \in 1..(base + Bits(d, num)) |-> x], len, tree)
NextLength(d, lengths, sym, len, tree) ==
    CASE sym = 16 -> Repeat(d, lengths, Last(lengths), 3, 2, len, tree)
      [] sym = 17 -> Repeat(d, lengths, 0, 3, 3, len, tree)
      [] sym = 18 -> Repeat(d, lengths, 0, 11, 7, len, tree)
      [] OTHER -> CodeLengths(d, Append(lengths, sym), len, tree)
CodeLengths(d, lengths, len, tree) ==
    IF len <= Len(lengths) THEN [d |-> d, lengths |-> lengths]
    ELSE LET code == Decode(d, tree)
         IN  NextLength(Skip(d, code.len), lengths, code.sym, len, tree)

(* The trees of a block of type 2 come before its data (:214-253).         *)
WithTrees(r, hlit, len) ==
    InflateBlockData(r.d, BuildTree(SubSeq(r.lengths, 1, hlit)),
                     BuildTree(SubSeq(r.lengths, hlit + 1, len)))
Dynamic(d) ==
    LET hlit == Bits(d, 5) + 257
        hdist == Bits(Skip(d, 5), 5) + 1
        hclen == Bits(Skip(d, 10), 4) + 4
        read(s) == LET i == CHOOSE k \in 1..19 : clcidx[k] = s
                   IN  IF i <= hclen THEN Bits(Skip(d, 14 + 3 * (i - 1)), 3) ELSE 0
        tree == BuildTree([s \in 1..19 |-> read(s - 1)])
    IN  WithTrees(CodeLengths(Skip(d, 14 + 3 * hclen), <<>>, hlit + hdist, tree),
                  hlit, hlit + hdist)

(* One block, by its type (:170-256).                                      *)
Block(d, btype) ==
    CASE btype = 0 -> Stored(d)
      [] btype = 1 -> InflateBlockData(d, sltree, sdtree)
      [] btype = 2 -> Dynamic(d)
      [] OTHER -> [d EXCEPT !.ok = FALSE]

RECURSIVE BlocksFrom(_, _)
BlocksFrom(d, bfinal) ==
    IF bfinal = 1 \/ ~d.ok THEN d
    ELSE BlocksFrom(Block(Skip(d, 3), Bits(Skip(d, 1), 2)), Bits(d, 1))

(* tinfUncompress (:162-260).                                              *)
Uncompress(bits) == BlocksFrom([bits |-> bits, at |-> 0, dest |-> <<>>, ok |-> TRUE], 0)
=============================================================================
