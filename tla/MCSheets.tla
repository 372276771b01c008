------------------------------- MODULE MCSheets -------------------------------
(***************************************************************************)
(* Inputs of the sheet tool, and what it has to make of them, said without *)
(* its steps.  A job is a record with a kind, as in MCFormats.             *)
(***************************************************************************)
EXTENDS Integers, Sequences, SequencesExt, FiniteSetsExt

Parts == INSTANCE Inflate WITH ByteBits <- 8
Format == INSTANCE Deflate
Xml == INSTANCE SheetXml WITH MaxAttributes <- 2
Tool == INSTANCE SheetTool

Strings(S, n) == UNION {[1..k -> S] : k \in 0..n}

-----------------------------------------------------------------------------
(* Compressed parts: every order of three blocks of the three types, every *)
(* length of a copy and the first distances.                               *)
StoredBlock(bytes) == [kind |-> "stored", bytes |-> bytes]
FixedBlock(tokens) == [kind |-> "fixed", tokens |-> tokens]
DynamicBlock(tokens) ==
    [kind |-> "dynamic", tokens |-> tokens, hlit |-> 259,
     clen |-> [s \in 0..18 |-> IF s \in 5..15 THEN 0 ELSE 3],
     steps |-> << <<18, 65>>, <<3>>, <<16, 3>>, <<17, 7>>, <<18, 138>>, <<18, 42>>,
                  <<2>>, <<3>>, <<3>>, <<1>>, <<1>> >>]

SomeBlocks ==
    {StoredBlock(<<>>), StoredBlock(<<7>>), StoredBlock(<<1, 255>>), FixedBlock(<<>>),
     FixedBlock(<< <<65>>, <<200>>, <<3, 1>>, <<5, 2>> >>),
     DynamicBlock(<< <<65>>, <<68>>, <<66>>, <<3, 1>>, <<4, 2>>, <<67>> >>)}

Compressions ==
    [1..3 -> SomeBlocks]
      \cup {<<FixedBlock(<< <<9>>, <<n, 1>> >>)>> : n \in 3..258}
      \cup {<<FixedBlock(<< <<9>>, <<8>>, <<k - 2, 1>>, <<4, k>> >>)>> : k \in 5..260}

Inflated(blocks) ==
    LET r == Parts!Uncompress(Format!Compressed(blocks))
    IN  r.ok /\ r.dest = Format!Meaning(blocks)

-----------------------------------------------------------------------------
(* Documents: elements of use and of none, with the marks of a tag inside  *)
(* texts, values and names.                                                *)
Element(name, attributes, text, kids) ==
    [name |-> name, attributes |-> attributes, text |-> text, kids |-> kids, short |-> TRUE]

Leaves ==
    {Element(<<"t">>, <<>>, <<>>, <<>>),
     Element(<<"t">>, <<>>, <<"x", "/", ">">>, <<>>),
     Element(<<"c">>, << << <<"r">>, <<"A1">> >>, << <<"s">>, <<"1">> >>, << <<"t">>, <<">">> >> >>,
             <<>>, <<>>),
     Element(<<"b", "/", "c">>, <<>>, <<"y">>, <<>>),
     Element(<<"row">>, << << <<"r">>, <<"/", ">">> >> >>, <<>>, <<>>),
     [Element(<<"v">>, <<>>, <<>>, <<>>) EXCEPT !.short = FALSE]}
Documents ==
    LET kids == Leaves \cup {Element(<<"si">>, <<>>, <<" ">>, <<a, b>>) : a, b \in Leaves}
    IN  {Element(<<"root">>, <<>>, <<" ">>, <<a, b>>) : a, b \in kids}

RECURSIVE WrittenElement(_), Used(_)
WrittenAttribute(a) == <<" ">> \o a[1] \o <<"=", "quote">> \o a[2] \o <<"quote">>
WrittenElement(e) ==
    LET all(S(_), q) == FlattenSeq([i \in 1..Len(q) |-> S(q[i])])
    IN  <<"<">> \o e.name \o all(WrittenAttribute, e.attributes)
          \o (IF e.text = <<>> /\ e.kids = <<>> /\ e.short THEN <<"/", ">">>
              ELSE <<">">> \o e.text \o all(WrittenElement, e.kids) \o <<"<", "/">> \o e.name
                     \o <<">">>)

(* The elements of use, in the order of their opening tags.                *)
Used(e) ==
    LET kept == SelectSeq(e.attributes, LAMBDA a : a[1] \in Xml!pk)
        node == [name |-> e.name, text |-> e.text,
                 vkv |-> [i \in 1..Len(kept) |-> [k |-> kept[i][1], v |-> kept[i][2]]]]
    IN  (IF e.name \in Xml!pname THEN <<node>> ELSE <<>>)
          \o FlattenSeq([i \in 1..Len(e.kids) |-> Used(e.kids[i])])

Heads == {<<>>, <<"<", "?", "x", "?", ">", " ">>}
TextsIn(e) == FlattenSeq([i \in 1..Len(e.kids) |->
                             IF e.kids[i].name = <<"t">> THEN e.kids[i].text ELSE <<>>])
ElementsRead(head, e) ==
    LET read == Xml!getXml(head \o WrittenElement(e))
    IN  /\ read = Xml!Read(Used(e))
        /\ (\A i \in 1..Len(e.kids) : e.kids[i].name = <<"si">>) =>
              Xml!getSharedStrings(read.vd) = [i \in 1..Len(e.kids) |-> TextsIn(e.kids[i])]

-----------------------------------------------------------------------------
(* Texts as a workbook writes them.  The tool replaces the entity of "&"   *)
(* first, so a text that shows an entity is told wrong and left out.       *)
TextMarks == {"&", "<", ">", "quote", "'", "x", "lt;", "newline"}
EntityOf(mark) ==
    CASE mark = "&" -> <<"&", "amp;">> [] mark = "<" -> <<"&", "lt;">>
      [] mark = ">" -> <<"&", "gt;">> [] mark = "quote" -> <<"&", "quot;">>
      [] mark = "'" -> <<"&", "apos;">> [] mark = "newline" -> <<"&", "#10;">>
      [] OTHER -> <<mark>>

TextRestored(type, text) ==
    \/ \E i \in 1..(Len(text) - 1) : text[i] = "&" /\ text[i + 1] = "lt;"
    \/ type = "plain" /\ \E i \in 1..Len(text) : text[i] = "newline"
    \/ Tool!Unescaped(type, FlattenSeq([i \in 1..Len(text) |-> EntityOf(text[i])])) = text

(* Lists of words, numbers and lists, written with blanks and a comma too  *)
(* many.  A word may have parentheses; what begins with one is left alone, *)
(* with all that follows it.                                               *)
Words == {<<"a">>, <<"7", "b">>, <<"a", "(", "7", ",", "b", ")">>}
Figures == {<<"-", "7">>, <<"0", ".", "7">>}
Items ==
    {[kind |-> "one", text |-> t] : t \in Words \cup Figures}
      \cup {[kind |-> "list", items |-> [i \in 1..Len(q) |-> [kind |-> "one", text |-> q[i]]]] :
              q \in Strings(Words \cup Figures, 2)}

Joined(parts) ==
    FlattenSeq([i \in 1..Len(parts) |-> IF i = 1 THEN parts[i] ELSE <<",">> \o parts[i]])

RECURSIVE Loose(_, _, _), Meant(_)
Loose(items, blanks, comma) ==
    Joined([i \in 1..Len(items) |->
              blanks \o (IF items[i].kind = "one" THEN items[i].text
                         ELSE <<"{">> \o Loose(items[i].items, blanks, comma) \o <<"}">>)])
      \o (IF items = <<>> THEN <<>> ELSE comma)
Meant(items) ==
    Joined([i \in 1..Len(items) |->
              IF items[i].kind = "list" THEN <<"{">> \o Meant(items[i].items) \o <<"}">>
              ELSE IF items[i].text \in Figures THEN items[i].text
              ELSE <<"quote">> \o items[i].text \o <<"quote">>])

WordsQuoted(items, blanks, comma) ==
    Tool!Converted("tbstr", Loose(items, blanks, comma)) = [ok |-> TRUE, text |-> Meant(items)]

-----------------------------------------------------------------------------
(* Workbooks of a sheet or two and one shared string, which the records have   *)
(* in some of their cells.  The headers: two fields, a column without a    *)
(* type before one with, the same fields in the other order, and           *)
(* translations into one language and into two.  A name has one type in    *)
(* all of them: rows that differ in a type alone count as equal.           *)
Own(text) == [shared |-> 0, text |-> text]
Shared == [shared |-> 1, text |-> <<>>]

Header(types, names) == [types |-> types, names |-> names]
Headers ==
    {Header(<<"number", "table", "string">>, << <<"id">>, <<"a">>, <<"b">> >>),
     Header(<<"number", "", "table">>, << <<"id">>, <<"c">>, <<"a">> >>),
     Header(<<"number", "string", "table">>, << <<"id">>, <<"b">>, <<"a">> >>),
     Header(<<"number", "tbstr", "tbstr">>, << <<"id">>, <<"d">>, <<"e">> >>),
     Header(<<"number", "table", "table">>, << <<"id">>, <<"a">>, <<"a", "_en">> >>),
     Header(<<"number", "table", "table", "table">>,
            << <<"id">>, <<"a", "_tw">>, <<"a">>, <<"a", "_en">> >>)}

Ids == << Own(<<"1">>), Own(<<"2">>) >>
Padded(row, n) == row \o [i \in 1..(n - Len(row)) |-> Own(<<>>)]
SheetOf(h, bodies) ==
    LET n == Len(h.types)
    IN  << [j \in 1..n |-> Own(IF h.types[j] = "" THEN <<>> ELSE <<h.types[j]>>)],
           [j \in 1..n |-> Own(h.names[j])], Padded(<< Own(<<"remark">>) >>, n) >>
          \o [i \in 1..Len(bodies) |-> << Ids[i] >> \o bodies[i]]
          \o << Padded(<< Own(<<>>), Shared >>, n) >>

Bodies(h) == [1..(Len(h.types) - 1) -> {Own(<<>>), Shared}]
Sheets(h, n) == {SheetOf(h, b) : b \in Strings(Bodies(h), n)}
FirstSheets == UNION {Sheets(h, IF Len(h.types) < 4 THEN 2 ELSE 1) : h \in Headers}
SecondSheets == UNION {Sheets(h, 1) : h \in Headers}
Workbook(string, sheets) == [strings |-> <<string>>, sheets |-> sheets]

(* The cells that have the shared string must leave it alike, and nothing  *)
(* more may be left to convert.                                            *)
FieldsOf(sheet) ==
    {j \in 2..Len(sheet[1]) : sheet[1][j].text # <<>> /\ sheet[2][j].text # <<>>}
RecordsOf(sheet) == {i \in 4..Len(sheet) : sheet[i][1].text # <<>>}
Undisturbed(w) ==
    LET x == w.strings[1]
        uses == UNION {{s[1][j].text[1] : j \in {k \in FieldsOf(s) :
                          \E i \in RecordsOf(s) : s[i][k] = Shared}} : s \in Range(w.sheets)}
    IN  \A t, u \in uses : /\ Tool!Kept(t, x) = Tool!Kept(u, x)
                           /\ Tool!Converted(t, Tool!Kept(u, x)) = Tool!Converted(t, x)

(* A shared row keeps its fields as they are, so languages are asked for   *)
(* without sharing only.                                                   *)
Args(noshare, first, second) == [noshare |-> noshare, first |-> first, second |-> second]
Sharing == Args(FALSE, "none", "none")
Translating ==
    {Args(TRUE, "none", "none"), Args(TRUE, "", "none"), Args(TRUE, "_en", "none"),
     Args(TRUE, "_en", "_tw")}
Texts == {<<"x">>, <<" ", "x">>, <<"&", "lt;">>}
Generations ==
    {<<Workbook(<<"x">>, <<s>>), a>> : s \in FirstSheets, a \in Translating}
      \cup {g \in {<<Workbook(x, <<s, t>>), Sharing>> : x \in Texts, s \in FirstSheets,
                                                        t \in SecondSheets} :
              Undisturbed(g[1])}

(* What the program evaluates to: by identifier, by name, kind and text.   *)
LiteralValue(p, l) == IF l[1] = "shareCell" THEN <<"table", p.shareCell[l[2]]>> ELSE l
AsFunction(pairs) ==
    [k \in {pairs[i][1] : i \in 1..Len(pairs)} |->
       pairs[CHOOSE i \in 1..Len(pairs) : pairs[i][1] = k][2]]
RowValue(p, r) ==
    LET fields == AsFunction(IF r[1] = "shareRow" THEN p.shareRow[r[2]] ELSE r[2])
    IN  [f \in DOMAIN fields |-> LiteralValue(p, fields[f])]
SheetValue(p, s) ==
    LET rows == AsFunction(IF s[1] = "shareSheet" THEN p.shareSheet[s[2]] ELSE s[2])
    IN  [id \in DOMAIN rows |-> RowValue(p, rows[id])]

(* What the sheet says: the records, the columns with a type and a name,   *)
(* and for each field the last language asked for that has a column.       *)
Languages == {"_en", "_tw"}
Column(sheet, name) == {j \in FieldsOf(sheet) : sheet[2][j].text = name}
FirstNonempty(A, B, C) == IF A # {} THEN A ELSE IF B # {} THEN B ELSE C
Asked(sheet, name, args) ==
    FirstNonempty(Column(sheet, Append(name, args.second)),
                  Column(sheet, Append(name, args.first)), Column(sheet, name))
FieldNames(sheet, args) ==
    {n \in {sheet[2][j].text : j \in FieldsOf(sheet)} :
       args.first = "none" \/ Last(n) \notin Languages}
ValueOf(type, text) ==
    <<IF type = "tbstr" THEN "table" ELSE type, Tool!Converted(type, text).text>>
Said(w, sheet, args) ==
    [id \in {sheet[i][1].text : i \in RecordsOf(sheet)} |->
       LET i == CHOOSE k \in RecordsOf(sheet) : sheet[k][1].text = id
       IN  [n \in FieldNames(sheet, args) |->
              LET told == CHOOSE j \in Asked(sheet, n, args) : TRUE
                  j == IF sheet[i][told] = Shared THEN told
                       ELSE CHOOSE k \in Column(sheet, n) : TRUE
              IN  ValueOf(sheet[1][j].text[1], IF sheet[i][j] = Shared THEN w.strings[1] ELSE <<>>)]]

Told(w, args) ==
    LET made == Tool!Generate(w, args)
    IN  /\ made.ok
        /\ \A s \in 1..Len(w.sheets) :
              SheetValue(made.program, made.program.body[s]) = Said(w, w.sheets[s], args)
=============================================================================
