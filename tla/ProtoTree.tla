------------------------------ MODULE ProtoTree ------------------------------
(***************************************************************************)
(* The message format of src/logic/proto_parser.h over the blocks of       *)
(* src/common/msg_struct.h: write_msg_dfs turns a Lua table into the bytes *)
(* of a msg_send, read_msg_dfs turns the bytes of a msg_recv into a table, *)
(* both driven by the template registered for the message.                 *)
(*                                                                         *)
(* A template is a sequence of fields [cnt, type, sub]: an array when cnt  *)
(* is 2 or more, of messages when sub is not empty.  The value of a        *)
(* template is the sequence of its fields' values; numbers are those of    *)
(* ProtoNumbers.                                                           *)
(***************************************************************************)
EXTENDS ProtoNumbers, SequencesExt

CONSTANTS SendCap, Absent

-----------------------------------------------------------------------------
(* msg_send.  A write that does not fit is skipped without a word, the     *)
(* assertion being compiled out (msg_struct.h:178-226).                    *)
Put(buf, bytes) == IF SendCap < Len(buf) + Len(bytes) THEN buf ELSE buf \o bytes

PutNumber(buf, type, n) == Put(buf, Encoded(type, n))

PutString(buf, str) == Put(PutNumber(buf, "short", Len(str)), str)

(* write_msg_dfs: the bytes, or the error the caller raises.  The value of *)
(* a field is checked for its type just before it is written.              *)
RECURSIVE WriteMsg(_, _, _)

WriteOne(buf, pa, val) ==
    IF val = Absent THEN [err |-> TRUE, buf |-> buf]
    ELSE IF pa.sub # <<>> THEN WriteMsg(buf, pa.sub, val)
    ELSE [err |-> FALSE,
          buf |-> IF pa.type = "string" THEN PutString(buf, val)
                  ELSE PutNumber(buf, pa.type, val)]

WriteAll(buf, pas, vals) ==
    FoldLeft(LAMBDA r, i : IF r.err THEN r ELSE WriteOne(r.buf, pas[i], vals[i]),
             [err |-> FALSE, buf |-> buf], [i \in 1..Len(vals) |-> i])

WriteField(buf, pa, val) ==
    IF pa.cnt < 2 \/ val = Absent THEN WriteOne(buf, pa, val)
    ELSE WriteAll(PutNumber(buf, "short", Len(val)), [i \in 1..Len(val) |-> pa], val)

WriteMsg(buf, template, vals) ==
    FoldLeft(LAMBDA r, i : IF r.err THEN r ELSE WriteField(r.buf, template[i], vals[i]),
             [err |-> FALSE, buf |-> buf], [i \in 1..Len(template) |-> i])

-----------------------------------------------------------------------------
(* msg_recv: a read past the end returns 0 and sets back to -1, after      *)
(* which no read succeeds and has_read_all is false (msg_struct.h:60-120). *)
Recv(bytes) == [buf |-> bytes, back |-> Len(bytes), front |-> 0]

HasReadAll(m) == m.back = m.front

(* Mutant: a read past the end returns 0 and is forgotten.                 *)
TakeForgets(m, w) ==
    IF w < 0 \/ m.back < m.front + w THEN [m |-> m, bytes |-> <<>>]
    ELSE [m |-> [m EXCEPT !.front = @ + w], bytes |-> SubSeq(m.buf, m.front + 1, m.front + w)]

Take(m, w) ==
    IF w < 0 \/ m.back < m.front + w
    THEN [m |-> [m EXCEPT !.back = -1], bytes |-> <<>>]
    ELSE [m |-> [m EXCEPT !.front = @ + w], bytes |-> SubSeq(m.buf, m.front + 1, m.front + w)]

(* What read_msg_dfs has done with the message so far: the values it has   *)
(* stored, and how it goes on.  "false" is its return value; "raise" a Lua *)
(* error, which a false return leads to once it has left tables behind on  *)
(* the Lua stack.                                                          *)
Reading(m, res, left, val) == [m |-> m, res |-> res, left |-> left, val |-> val]

NumberIn(t, type) == Reading(t.m, "ok", FALSE, Value(type, t.bytes))

ReadNumber(m, type) == NumberIn(Take(m, Width(type)), type)

(* A negative length is refused (proto_parser.h:75-78, 127-130).           *)
StringIn(t) == Reading(t.m, "ok", FALSE, t.bytes)

StringAfter(len) ==
    IF len.val < 0 THEN [len EXCEPT !.res = "false", !.val = <<>>]
    ELSE StringIn(Take(len.m, len.val))

RECURSIVE ReadMsg(_, _)

ReadOne(m, pa) ==
    IF pa.sub # <<>> THEN ReadMsg(m, pa.sub)
    ELSE IF pa.type = "string" THEN StringAfter(ReadNumber(m, "short"))
    ELSE ReadNumber(m, pa.type)

(* A message that is refused refuses the one it is nested in and leaves    *)
(* the field's table on the stack (:57-61).                                *)
Nested(r, pa) == [r EXCEPT !.left = @ \/ (pa.sub # <<>> /\ r.res = "false")]

(* The result of reading a message of an array is not looked at (:108),    *)
(* only what it has left on the stack tells.                               *)
Element(r, pa) ==
    IF pa.sub = <<>> THEN [r EXCEPT !.left = (r.res = "false")]
    ELSE [r EXCEPT !.res = IF r.res = "false" THEN (IF r.left THEN "raise" ELSE "ok") ELSE @]

(* The next value, after those of r, if all went well so far.              *)
After(r, f) == [f EXCEPT !.val = Append(r.val, f.val)]

Elements(len, pa) ==
    LET step(r, i) == IF r.res # "ok" THEN r ELSE After(r, Element(ReadOne(r.m, pa), pa))
    IN  IF len.val \notin 0..pa.cnt THEN [len EXCEPT !.res = "false", !.val = <<>>]
        ELSE FoldLeft(step, [len EXCEPT !.val = <<>>], [i \in 1..len.val |-> i])

ReadField(m, pa) ==
    IF pa.cnt < 2 THEN Nested(ReadOne(m, pa), pa) ELSE Elements(ReadNumber(m, "short"), pa)

ReadMsg(m, template) ==
    LET step(r, pa) == IF r.res # "ok" THEN r ELSE After(r, ReadField(r.m, pa))
    IN  FoldLeft(step, Reading(m, "ok", FALSE, <<>>), template)

(* msg_ex::read: what the script's handler is told.                        *)
Told(r) == [ok |-> r.res = "ok" /\ HasReadAll(r.m), val |-> r.val]

Read(bytes, template) == Told(ReadMsg(Recv(bytes), template))

Write(template, vals) == WriteMsg(<<>>, template, vals)

(* The bytes of vals, had the block no end.                                *)
RECURSIVE Length(_, _)
Length(template, vals) ==
    LET one(pa, v) == IF pa.sub # <<>> THEN Length(pa.sub, v)
                      ELSE IF pa.type = "string" THEN 2 + Len(v) ELSE Width(pa.type)
        field(pa, v) == IF pa.cnt < 2 THEN one(pa, v)
                        ELSE FoldLeft(LAMBDA n, x : n + one(pa, x), 2, v)
    IN  FoldLeft(LAMBDA n, i : n + field(template[i], vals[i]), 0,
                 [i \in 1..Len(template) |-> i])
=============================================================================
