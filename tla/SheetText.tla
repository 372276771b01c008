------------------------------ MODULE SheetText ------------------------------
(***************************************************************************)
(* What the sheet tool does to the text of a cell before it becomes Lua:   *)
(* src/myxml2/myxml2.cpp, strReplace to getStrAddQuote and their use in    *)
(* getVvs.  A text is a sequence of marks: one character each, but for     *)
(* the rest of an entity after its "&" ("amp;", "lt;", "#10;"...), and     *)
(* "quote" for the double quote, "newline" and "return".                   *)
(***************************************************************************)
EXTENDS Integers, Sequences, SequencesExt

TextFailed == [ok |-> FALSE]

(* strReplace: the places are sought from left to right (:606-625).        *)
strReplace(a, b, c) ==
    LET from[i \in 1..(Len(a) + Len(b))] ==
          IF Len(a) < i THEN <<>>
          ELSE IF i + Len(b) - 1 <= Len(a) /\ SubSeq(a, i, i + Len(b) - 1) = b
          THEN c \o from[i + Len(b)]
          ELSE <<a[i]>> \o from[i + 1]
    IN  from[1]

EntitiesShort ==  \* mutant: one entity is forgotten
    << <<"gt;", ">">>, <<"quot;", "quote">>, <<"apos;", "'">>, <<"lt;", "<">> >>
Entities == << <<"amp;", "&">>, <<"gt;", ">">>, <<"quot;", "quote">>, <<"apos;", "'">>,
               <<"lt;", "<">> >>

(* The replacements follow one another, so what one of them makes another  *)
(* may take for its own; the entity of a new line stays in plain and tbstr *)
(* cells (:850-862).                                                       *)
Unescaped(type, cell) ==
    LET one(text, e) == strReplace(text, <<"&", e[1]>>, <<e[2]>>)
        all == FoldLeft(one, strReplace(cell, <<"return">>, <<>>), Entities)
    IN  IF type \in {"table", "string"} THEN strReplace(all, <<"&", "#10;">>, <<"newline">>)
        ELSE all

Blank == {"newline", "return", " "}

(* The first loop of removeSpace: blanks outside strings go (:626-653).    *)
At(a, i) == IF i <= Len(a) THEN a[i] ELSE "end"
Outside(a) ==
    LET step(acc, i) ==
          LET yin == IF a[i] = "quote" THEN ~acc.yin ELSE acc.yin
              kuo == acc.kuo + (IF a[i] = "[" /\ At(a, i + 1) = "[" THEN 1
                                ELSE IF a[i] = "]" /\ At(a, i + 1) = "]" THEN -1 ELSE 0)
          IN  [yin |-> yin, kuo |-> kuo, ok |-> acc.ok /\ kuo \in {0, 1},
               out |-> IF yin \/ kuo # 0 \/ a[i] \notin Blank THEN Append(acc.out, a[i])
                       ELSE acc.out]
    IN  FoldLeft(step, [yin |-> FALSE, kuo |-> 0, ok |-> TRUE, out |-> <<>>],
                 [i \in 1..Len(a) |-> i])

(* The second: a comma before a closing brace or the end goes (:654-670).  *)
NoLastComma(a) ==
    LET keep == SelectSeq([i \in 1..Len(a) |-> i],
                          LAMBDA i : ~(a[i] = "," /\ At(a, i + 1) = "}"))
        b == [i \in 1..Len(keep) |-> a[keep[i]]]
    IN  IF b # <<>> /\ Last(b) = "," THEN Front(b) ELSE b

removeSpace(a) ==
    LET r == Outside(a) IN IF r.ok THEN [ok |-> TRUE, text |-> NoLastComma(r.out)] ELSE TextFailed

(* getStrAddQuote: a stretch up to a comma, a brace or the end that is not *)
(* a number becomes a string, unless it is inside parentheses (:672-738).  *)
Digits == {"-", ".", "0", "7"}
getStrAddQuote(a) ==
    LET quoted(acc, i) ==
          [acc EXCEPT !.out = @ \o SubSeq(a, acc.last, acc.start - 1) \o <<"quote">>
                                \o SubSeq(a, acc.start, i - 1) \o <<"quote">>,
                      !.last = i, !.start = 0]
        begun(acc, i) ==
          IF acc.start # 0 THEN acc ELSE [acc EXCEPT !.start = i, !.kuo = 0, !.letter = FALSE]
        step(acc, i) ==
          CASE At(a, i) = "(" -> [acc EXCEPT !.kuo = @ + 1]
            [] At(a, i) = ")" -> [acc EXCEPT !.kuo = @ - 1]
            [] At(a, i) \in {",", "}", "end"} ->
                 IF acc.start = 0 THEN acc
                 ELSE IF ~acc.letter THEN [acc EXCEPT !.start = 0]
                 ELSE IF acc.kuo = 0 THEN quoted(acc, i) ELSE acc
            [] At(a, i) \in Blank \cup {"{"} -> acc
            [] OTHER -> [begun(acc, i) EXCEPT !.letter = @ \/ a[i] \notin Digits]
        done == FoldLeft(step, [out |-> <<>>, last |-> 1, start |-> 0, letter |-> FALSE, kuo |-> 0],
                         [i \in 1..(Len(a) + 1) |-> i])
    IN  IF done.last = 1 THEN a ELSE done.out \o SubSeq(a, done.last, Len(a))

(* What getVvs makes of a cell of each type, and what it leaves in the     *)
(* place the cell's text came from: the words are quoted in a buffer of    *)
(* their own (:845-882).                                                   *)
Converted(type, cell) ==
    CASE type = "number" -> [ok |-> TRUE, text |-> cell]
      [] type \in {"plain", "string"} -> [ok |-> TRUE, text |-> Unescaped(type, cell)]
      [] type = "table" -> removeSpace(Unescaped(type, cell))
      [] type = "tbstr" -> removeSpace(getStrAddQuote(Unescaped(type, cell)))
KeptQuoted(type, cell) == Converted(type, cell).text  \* mutant: quoted in place
Kept(type, cell) ==
    IF type = "tbstr" THEN Unescaped(type, cell) ELSE Converted(type, cell).text
=============================================================================
