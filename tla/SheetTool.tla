------------------------------ MODULE SheetTool ------------------------------
(***************************************************************************)
(* The sheet tool, src/myxml2/myxml2.cpp: sheets of a workbook become Lua  *)
(* tables, in which equal sheets, rows and cells are written once.  A      *)
(* sheet is the sequence of its rows, each the sequence of its cells: the  *)
(* types, the names, a remark, then the records.  A cell is                *)
(* [shared, text]: a shared string by its number, or its own text when     *)
(* shared = 0; a text is a sequence of marks, empty for an empty cell.  A  *)
(* name that ends in the mark of a language is the translation of the      *)
(* field before the mark.                                                  *)
(*                                                                         *)
(* All strings are kept in one memory and compared by their addresses, and *)
(* a shared string is converted in place, so a cell that is converted      *)
(* changes every cell at its address, those read before it too.  The order *)
(* of addresses, which only places a share among the others, is left out,  *)
(* and so is that the memory, searched by bisection, may miss a string     *)
(* once another has changed: it then has two addresses and is shared less. *)
(***************************************************************************)
EXTENDS SheetText

Failure == [ok |-> FALSE]
Distinct(q) == \A i, j \in 1..Len(q) : i # j => q[i] # q[j]
Types == {<<"number">>, <<"plain">>, <<"string">>, <<"table">>, <<"tbstr">>}

(* getStr: s.got are the addresses obtained in this row (:523-560).        *)
Got(s, text, at) ==
    IF at = 0 THEN [s EXCEPT !.mem = Append(@, text), !.got = Append(@, Len(s.mem) + 1)]
    ELSE [s EXCEPT !.got = Append(@, at)]
getStr(s, text) == Got(s, text, SelectInSeq(s.mem, LAMBDA t : t = text))

(* getSharedStrings: s.vs are the addresses of the shared strings.         *)
Loaded(strings) ==
    LET s == FoldLeft(getStr, [mem |-> <<>>, got |-> <<>>, ok |-> TRUE], strings)
    IN  [mem |-> s.mem, vs |-> s.got, got |-> <<>>, ok |-> TRUE]

TextOf(s, cell) == IF cell.shared = 0 THEN cell.text ELSE s.mem[s.vs[cell.shared]]
Is(s, cell) == TextOf(s, cell) # <<>>

(* The columns with a type and a name, the first one apart (:798-822).     *)
FieldsOf(s, sheet) ==
    SelectSeq([j \in 1..(Len(sheet[1]) - 1) |-> j + 1],
              LAMBDA j : Is(s, sheet[1][j]) /\ Is(s, sheet[2][j]))
Picked(row, fields) == <<row[1]>> \o [j \in 1..Len(fields) |-> row[fields[j]]]

(* One cell; the names of types are constants of the program, and a shared *)
(* string that is one of them cannot be written to (:845-883).             *)
CellMade(s, type, cell, text, made) ==
    IF ~made.ok \/ (0 < cell.shared /\ text \in Types /\ type # "number")
    THEN [s EXCEPT !.ok = FALSE]
    ELSE getStr(IF cell.shared = 0 THEN s
                ELSE [s EXCEPT !.mem[s.vs[cell.shared]] = Kept(type, text)], made.text)
TextRead(s, type, cell, text) == CellMade(s, type, cell, text, Converted(type, text))
CellRead(s, type, cell) == TextRead(s, type, cell, TextOf(s, cell))

NameRead(s, cell) == getStr(s, TextOf(s, cell))
Restarted(s) == [s EXCEPT !.got = <<>>]
RecordRead(s, row, types) ==
    FoldLeft(LAMBDA t, j : IF ~t.ok THEN t ELSE CellRead(t, types[j][1], row[j]),
             NameRead(Restarted(s), row[1]), [j \in 1..(Len(row) - 1) |-> j + 1])

(* The records one after another: [s, rows].                               *)
RecordAdded(rows, t) == [s |-> t, rows |-> Append(rows, t.got)]
RecordsRead(s, records, types) ==
    FoldLeft(LAMBDA acc, row : RecordAdded(acc.rows, RecordRead(acc.s, row, types)),
             [s |-> s, rows |-> <<>>], records)

(* getVvs: the types, the names and the records that have an identifier;   *)
(* a sheet without records has no fields either (:798-929).                *)
Sheet(types, names, read) ==
    [s |-> [Restarted(read.s) EXCEPT
              !.ok = @ /\ Distinct(Tail(names))
                       /\ Distinct([i \in 1..Len(read.rows) |-> read.rows[i][1]])],
     vvs |-> [types |-> types, names |-> names, rows |-> read.rows]]
Named(s, types, records) == Sheet(types, s.got, RecordsRead(s, records, types))
FieldsRead(s, sheet, records, fields) ==
    Named(FoldLeft(NameRead, Restarted(s), Picked(sheet[2], fields)),
          [j \in 1..(Len(fields) + 1) |-> TextOf(s, Picked(sheet[1], fields)[j])],
          [i \in 1..Len(records) |-> Picked(records[i], fields)])
Chosen(s, sheet, records) ==
    FieldsRead(s, sheet, records, IF records = <<>> THEN <<>> ELSE FieldsOf(s, sheet))
getVvs(s, sheet) ==
    Chosen(s, sheet, SelectSeq(SubSeq(sheet, 4, Len(sheet)), LAMBDA row : Is(s, row[1])))

(* What counts as equal: cmpRow leaves out the identifier and the types,   *)
(* cmpSheet nothing (:281-344).                                            *)
SameRowUnnamed(a, b) == Tail(a.row) = Tail(b.row)  \* mutant: the names are left out
SameRow(a, b) == Tail(a.name) = Tail(b.name) /\ Tail(a.row) = Tail(b.row)
SameSheet(a, b) == a.sheet = b.sheet
SameCell(a, b) == a.cell = b.cell

(* binInsert (:1289-1312).                                                 *)
Counted(share, k) == [share EXCEPT ![k].cnt = @ + 1]
Inserted(share, found, target) ==
    IF found = {} THEN Append(share, target) ELSE Counted(share, CHOOSE k \in found : TRUE)
InsertSheet(share, t) == Inserted(share, {k \in 1..Len(share) : SameSheet(share[k], t)}, t)
InsertRow(share, t) == Inserted(share, {k \in 1..Len(share) : SameRow(share[k], t)}, t)
InsertCell(share, t) == Inserted(share, {k \in 1..Len(share) : SameCell(share[k], t)}, t)

Row(vvs, row) == [cnt |-> 1, varType |-> vvs.types, name |-> vvs.names, row |-> row]
IsTable(type) == type \in {<<"table">>, <<"tbstr">>}

(* The sheets, the rows of different sheets and the table cells of         *)
(* different rows, with how often they occur (:1270-1354).                 *)
SheetShares(tables) ==
    FoldLeft(InsertSheet, <<>>, [i \in 1..Len(tables) |-> [cnt |-> 1, sheet |-> tables[i]]])
RowShares(sheets) ==
    FoldLeft(InsertRow, <<>>,
             FlattenSeq([s \in 1..Len(sheets) |->
                           [i \in 1..Len(sheets[s].sheet.rows) |->
                              Row(sheets[s].sheet, sheets[s].sheet.rows[i])]]))
CellsOf(r) ==
    LET at == SelectSeq([j \in 1..(Len(r.row) - 1) |-> j + 1], LAMBDA j : IsTable(r.varType[j]))
    IN  [k \in 1..Len(at) |-> [cnt |-> 1, cell |-> r.row[at[k]]]]
CellShares(rows) ==
    FoldLeft(InsertCell, <<>>, FlattenSeq([i \in 1..Len(rows) |-> CellsOf(rows[i])]))

(* Only what occurs more than once is shared, and nothing on request       *)
(* (:1355-1376).                                                           *)
Repeated(share, noshare) == SelectSeq(share, LAMBDA x : ~noshare /\ 1 < x.cnt)

-----------------------------------------------------------------------------
(* fillRow, without translation when target is <<>>: <<name, value>> for   *)
(* each field that is written; an empty translation leaves the value as it *)
(* is.  mem tells the texts, as they are when all sheets have been read    *)
(* (:976-1055).                                                            *)
Literal(mem, type, cell, cells) ==
    LET found == {k \in 1..Len(cells) : cells[k].cell = cell}
    IN  IF ~IsTable(type) THEN <<type[1], mem[cell]>>
        ELSE IF found = {} THEN <<"table", mem[cell]>>
        ELSE <<"shareCell", CHOOSE k \in found : TRUE>>

SourceAlways(mem, row, target, tj) ==  \* mutant: an empty translation counts
    IF target = <<>> THEN tj ELSE target[tj]
Source(mem, row, target, tj) ==
    LET j == IF target = <<>> THEN tj ELSE target[tj]
    IN  IF 0 < j /\ j # tj /\ mem[row[j]] = <<>> THEN tj ELSE j

fillRow(mem, r, cells, target) ==
    LET written == SelectSeq([j \in 1..(Len(r.row) - 1) |-> j + 1],
                             LAMBDA tj : 0 < Source(mem, r.row, target, tj))
    IN  [k \in 1..Len(written) |->
           LET j == Source(mem, r.row, target, written[k])
           IN  <<mem[r.name[written[k]]], Literal(mem, r.varType[j], r.row[j], cells)>>]

(* fillSheet (:1064-1106).                                                 *)
fillSheet(mem, vvs, rows, cells, target) ==
    [i \in 1..Len(vvs.rows) |->
       LET r == Row(vvs, vvs.rows[i])
           found == {k \in 1..Len(rows) : SameRow(rows[k], r)}
       IN  <<mem[r.row[1]], IF found = {} THEN <<"row", fillRow(mem, r, cells, target)>>
                            ELSE <<"shareRow", CHOOSE k \in found : TRUE>> >>]

patternNames == <<"_bt2", "_tw", "_en", "_vi", "_kr", "_jp">>

(* isFixPatternNameR: the language a name ends in, 0 if none (:1131-1144). *)
Pattern(name) ==
    LET found == {p \in 1..Len(patternNames) : Last(name) = patternNames[p]}
    IN  IF found = {} THEN 0 ELSE CHOOSE p \in found : TRUE

(* solvePattern: translations are not fields of their own, and those of    *)
(* the language asked for take the place of their fields (:1153-1185).     *)
solvePattern(targetName, names, target) ==
    LET marked == [i \in 1..Len(names) |->
                     IF 1 < i /\ 0 < Pattern(names[i]) THEN -Pattern(names[i]) ELSE target[i]]
        translations(j) ==
          {i \in 2..Len(names) : /\ marked[i] = -Pattern(<<targetName>>)
                                 /\ names[i] = Append(names[j], targetName)}
    IN  IF targetName = "" THEN marked
        ELSE [j \in 1..Len(names) |->
                IF j = 1 \/ marked[j] <= 0 \/ translations(j) = {} THEN marked[j]
                ELSE CHOOSE i \in translations(j) : TRUE]

(* The arguments after noshare: "none" when there is none (:1484-1495).    *)
Solved(argument, names, target) ==
    IF argument = "none" THEN target ELSE solvePattern(argument, names, target)
Target(args, names) ==
    Solved(args.second, names, Solved(args.first, names, [j \in 1..Len(names) |-> j]))

(* The program that is written: the shares, and the value of each sheet    *)
(* (:1382-1500).                                                           *)
Body(mem, vvs, args, sheets, rows, cells) ==
    LET found == {k \in 1..Len(sheets) : sheets[k].sheet = vvs}
        names == [j \in 1..Len(vvs.names) |-> mem[vvs.names[j]]]
    IN  IF found # {} THEN <<"shareSheet", CHOOSE k \in found : TRUE>>
        ELSE <<"sheet", fillSheet(mem, vvs, rows, cells, Target(args, names))>>
Written(mem, tables, args, sheets, rows, cells) ==
    [shareCell |-> [k \in 1..Len(cells) |-> mem[cells[k].cell]],
     shareRow |-> [k \in 1..Len(rows) |-> fillRow(mem, rows[k], cells, <<>>)],
     shareSheet |-> [k \in 1..Len(sheets) |-> fillSheet(mem, sheets[k].sheet, rows, cells, <<>>)],
     body |-> [i \in 1..Len(tables) |-> Body(mem, tables[i], args, sheets, rows, cells)]]

RowsShared(mem, tables, args, sheets, rows) ==
    Written(mem, tables, args, Repeated(sheets, args.noshare), Repeated(rows, args.noshare),
            Repeated(CellShares(rows), args.noshare))
SheetsShared(mem, tables, args, sheets) == RowsShared(mem, tables, args, sheets, RowShares(sheets))

(* main, from the sheets read to the program written (:1256-1500).         *)
Program(read, args) ==
    IF ~read.s.ok THEN Failure
    ELSE [ok |-> TRUE,
          program |-> SheetsShared(read.s.mem, read.tables, args, SheetShares(read.tables))]
Generate(workbook, args) ==
    LET next(acc, sheet) ==
          LET r == getVvs(acc.s, sheet) IN [s |-> r.s, tables |-> Append(acc.tables, r.vvs)]
    IN  Program(FoldLeft(next, [s |-> Loaded(workbook.strings), tables |-> <<>>],
                         workbook.sheets), args)
=============================================================================
