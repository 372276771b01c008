------------------------------ MODULE SheetXml ------------------------------
(***************************************************************************)
(* How the sheet tool reads the parts of a workbook: getXml and           *)
(* getSharedStrings of src/myxml2/myxml2.cpp.  A part is a sequence of     *)
(* marks; the marks that steer the scan are one character each, names and  *)
(* texts are sequences of other marks.  getXml keeps the elements it has a *)
(* use for, in the order of their opening tags: [name, vkv, text], where   *)
(* vkv are the attributes of interest as [k, v].  A failure ends the       *)
(* program.                                                                *)
(***************************************************************************)
EXTENDS Integers, Sequences, SequencesExt

CONSTANTS MaxAttributes  \* 2, the length of dot.vkv

pname == {<<"si">>, <<"t">>, <<"sheet">>, <<"c">>, <<"v">>}
pk == {<<"name">>, <<"r">>, <<"t">>}

Failed == [ok |-> FALSE]
Read(vd) == [ok |-> TRUE, vd |-> vd]

(* checkEnd: the scan for a mark fails when it leaves the part; 0 then.    *)
FirstOf(places) ==
    IF places = {} THEN 0 ELSE CHOOSE i \in places : \A k \in places : i <= k
Seek(s, at, mark) == FirstOf({i \in at..Len(s) : s[i] = mark})

(* The end of a tag: ">" or "/>".                                          *)
TagEnd(s, i) ==
    \/ s[i] = ">"
    \/ i < Len(s) /\ s[i] = "/" /\ s[i + 1] = ">"
KeyEnd(s, at) == FirstOf({i \in at..Len(s) : s[i] = " " \/ TagEnd(s, i)})

RECURSIVE Scan(_, _, _), Attributes(_, _, _, _)
(* After a tag its text, up to the next tag (:499-518).                    *)
Opened(s, node, at, textEnd, vd) ==
    IF textEnd = 0 THEN Failed
    ELSE Scan(s, textEnd, vd \o [i \in 1..Len(node) |->
                                   [node[i] EXCEPT !.text = SubSeq(s, at + 1, textEnd - 1)]])

(* One attribute after another; node is empty for an element of no use and *)
(* the element otherwise (:457-497).                                       *)
Kept(node, k, v) ==
    IF node = <<>> \/ k \notin pk THEN node
    ELSE <<[node[1] EXCEPT !.vkv = Append(@, [k |-> k, v |-> v])]>>
AttributeRead(s, node, at, eq, quote, vd) ==
    IF quote \in {0, Len(s)} THEN Failed
    ELSE Attributes(s, Kept(node, SubSeq(s, at + 1, eq - 1), SubSeq(s, eq + 2, quote - 1)),
                    quote + 1, vd)
Attributes(s, node, at, vd) ==
    IF node # <<>> /\ MaxAttributes < Len(node[1].vkv) THEN Failed
    ELSE IF s[at] = ">" THEN Opened(s, node, at, Seek(s, at + 1, "<"), vd)
    ELSE IF TagEnd(s, at)
    THEN IF Len(s) < at + 2 THEN Failed ELSE Scan(s, at + 2, vd \o node)
    ELSE LET eq == Seek(s, at + 1, "=")
         IN  AttributeRead(s, node, at, eq, IF eq = 0 THEN 0 ELSE Seek(s, eq + 2, "quote"), vd)

(* An opening tag (:434-455).                                              *)
Tag(s, at, keyEnd, vd) ==
    IF keyEnd = 0 THEN Failed
    ELSE LET key == SubSeq(s, at, keyEnd - 1)
         IN  Attributes(s, IF key \in pname THEN <<[name |-> key, vkv |-> <<>>, text |-> <<>>]>>
                           ELSE <<>>, keyEnd, vd)

(* A closing tag takes the mark that follows it with it, which must be the *)
(* "<" of the next; the last one ends the part (:423-433).                 *)
ClosedKeeping(s, at, vd) ==  \* mutant: the mark is not taken
    IF at = 0 THEN Failed ELSE IF at = Len(s) THEN Read(vd) ELSE Scan(s, at, vd)
Closed(s, at, vd) ==
    IF at = 0 THEN Failed ELSE IF at = Len(s) THEN Read(vd) ELSE Scan(s, at + 1, vd)

(* The loop of getXml, at a "<" (:413-520).                                *)
Scan(s, at, vd) ==
    IF Len(s) <= at THEN Failed
    ELSE CASE s[at + 1] = "?" -> LET i == Seek(s, at + 1, "<")
                                 IN  IF i = 0 THEN Failed ELSE Scan(s, i, vd)
           [] s[at + 1] = "/" -> Closed(s, Seek(s, at + 1, ">"), vd)
           [] OTHER -> Tag(s, at + 1, KeyEnd(s, at + 1), vd)

getXml(s) == Scan(s, 1, <<>>)

(* getSharedStrings: the texts of all t between one si and the next; a t   *)
(* before the first si does not occur (:574-605).                          *)
getSharedStrings(vd) ==
    FoldLeft(LAMBDA out, n :
               IF n.name = <<"si">> THEN Append(out, <<>>)
               ELSE IF n.name = <<"t">> /\ out # <<>>
               THEN [out EXCEPT ![Len(out)] = @ \o n.text]
               ELSE out, <<>>, vd)
=============================================================================
