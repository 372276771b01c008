------------------------------ MODULE MCFormats ------------------------------
(***************************************************************************)
(* The formats on the wires and in workbooks.  A behaviour is one job: the *)
(* stream of one client connection, the messages of one script, or one     *)
(* input of one of the pure conversions, whose result the invariants       *)
(* compare with a definition that does not follow the code.                *)
(***************************************************************************)
EXTENDS WebSocket, InnerMessage, ProtoNumbers, Lz77, Sha1, MCSheets

CONSTANTS SendCap, Absent, NumericMax

VARIABLE job

Proto == INSTANCE ProtoTree
Bson == INSTANCE LuaBson
B64 == INSTANCE Base64

-----------------------------------------------------------------------------
Frame(fin, op, masked, len, fate) ==
    [fin |-> fin, op |-> op, masked |-> masked, len |-> len, fate |-> fate]

(* Both forms of the length, one byte too many for the buffer, a ping, a   *)
(* close, a fragment, an unmasked frame and each fate of a message.        *)
MCFrameKinds ==
    {Frame(TRUE, 2, TRUE, 2, "ok"), Frame(TRUE, 2, TRUE, 4, "ok"),
     Frame(TRUE, 2, TRUE, 5, "ok"), Frame(TRUE, 2, FALSE, 1, "ok"),
     Frame(TRUE, 2, TRUE, 1, "starved"), Frame(TRUE, 2, TRUE, 1, "refused"),
     Frame(TRUE, 2, TRUE, 2, "bad"), Frame(TRUE, 9, TRUE, 0, "ok"),
     Frame(FALSE, 2, TRUE, 0, "ok")}

MCFields ==
    {[kind |-> "int", val |-> 5, size |-> 0], [kind |-> "string", val |-> 11, size |-> 0],
     [kind |-> "string", val |-> 12, size |-> 2], [kind |-> "zip", val |-> 13, size |-> 1],
     [kind |-> "zip", val |-> 14, size |-> 7]}

-----------------------------------------------------------------------------
(* Templates with every type, with arrays of values and of messages, and a *)
(* message in a message; the values touch both ends of their types.        *)
Field(cnt, type) == [cnt |-> cnt, type |-> type, sub |-> <<>>]
Nested(cnt, sub) == [cnt |-> cnt, type |-> "", sub |-> sub]
ByteAndString == <<Field(1, "byte"), Field(1, "string")>>

Templates ==
    {<<Field(1, "byte"), Field(1, "int"), Field(1, "byte")>>,
     <<Field(1, "string"), Field(1, "uint"), Field(1, "byte")>>,
     <<Field(2, "short"), Field(1, "string")>>,
     <<Field(2, "string"), Field(1, "short")>>,
     <<Field(1, "byte"), Nested(1, ByteAndString), Field(1, "byte")>>,
     <<Nested(2, ByteAndString), Field(1, "short")>>,
     <<Field(1, "double"), Field(1, "short"), Field(1, "byte")>>,
     <<Nested(2, <<Field(2, "byte")>>), Field(1, "byte")>>}

OfType(type) ==
    CASE type = "byte" -> {-2, 1} [] type = "short" -> {-8, 0, 7} [] type = "int" -> {-128, 127}
      [] type = "uint" -> {8, 127} [] type = "double" -> {77, 4^7}
      [] type = "string" -> {<<>>, <<3>>, <<1, 0, 2>>}

RECURSIVE ValuesOf(_)
ValuesOf(template) ==
    IF template = <<>> THEN {<<>>}
    ELSE LET pa == Head(template)
             one == IF pa.sub = <<>> THEN OfType(pa.type) ELSE ValuesOf(pa.sub)
             field == IF pa.cnt < 2 THEN one ELSE Strings(one, pa.cnt)
         IN  {<<v>> \o rest : v \in field, rest \in ValuesOf(Tail(template))}

-----------------------------------------------------------------------------
(* Flat tables over number, digit and text keys, and tables of tables.     *)
OnKeys(keys, vals) == UNION {[S -> vals] : S \in SUBSET keys}

Tables ==
    OnKeys({<<"n", 0>>, <<"n", 1>>, <<"n", 2>>, <<"n", 3>>, <<"text", "a">>, <<"text", "_id">>},
           {<<"num", 7>>, <<"text", "x">>})
      \cup OnKeys({<<"n", 1>>, <<"n", 2>>, <<"n", 4>>},
                  {<<"bool", TRUE>>} \cup
                  {<<"table", u>> : u \in OnKeys({<<"n", 1>>, <<"n", 2>>, <<"text", "a">>},
                                                 {<<"raw", "r">>})})

-----------------------------------------------------------------------------
MCInit ==
    /\ WsInit /\ imInit
    /\ \/ job = [kind |-> "stream"]
       \/ job = [kind |-> "script"]
       \/ \E s \in Strings({0, Sp, ByteMax}, 6) : job = [kind |-> "zip", input |-> s]
       \/ \E t \in Templates : \E v \in ValuesOf(t) : job = [kind |-> "proto", template |-> t, input |-> v]
       \/ \E n \in 0..400 : job = [kind |-> "header", input |-> n]
       \/ \E n \in -130..260 : job = [kind |-> "number", input |-> n]
       \/ \E t \in Tables : job = [kind |-> "bson", input |-> t]
       \/ \E n \in 0..40 : job = [kind |-> "sha", input |-> [i \in 1..n |-> i]]
       \/ \E s \in Strings({0, 1, 127, 128, 255}, 4) : job = [kind |-> "base64", input |-> s]
       \/ \E b \in Compressions : job = [kind |-> "inflate", input |-> b]
       \/ \E h \in Heads, e \in Documents : job = [kind |-> "xml", head |-> h, input |-> e]
       \/ \E t \in Strings(TextMarks, 3), type \in {"plain", "string"} :
             job = [kind |-> "text", type |-> type, input |-> t]
       \/ \E q \in Strings(Items, 2), b \in {<<>>, <<" ">>}, c \in {<<>>, <<",">>} :
             job = [kind |-> "list", blanks |-> b, comma |-> c, input |-> q]
       \/ \E g \in Generations : job = [kind |-> "workbook", input |-> g]

Stream == job.kind = "stream" /\ WsNext /\ UNCHANGED <<imVars, job>>
Script == job.kind = "script" /\ imNext /\ UNCHANGED <<wsVars, job>>
Longer ==
    /\ job.kind = "zip" /\ Len(job.input) \in 6..8
    /\ \E b \in {0, Sp, ByteMax} : job' = [job EXCEPT !.input = Append(@, b)]
    /\ UNCHANGED <<wsVars, imVars>>

MCNext == Stream \/ Script \/ Longer
MCSpec == MCInit /\ [][MCNext]_<<wsVars, imVars, job>>

-----------------------------------------------------------------------------
(* zip never fails for want of room beyond its result, unzip restores the *)
(* bytes into a buffer of exactly their number, and whatever it is given   *)
(* stays within a smaller one (lz77.h:4-78).                               *)
ZipInverts ==
    job.kind = "zip" =>
        /\ UnzipUndoesZip(job.input)
        /\ \A cap \in 0..Len(job.input) : StaysWithin(job.input, cap)

(* A table reaches the other side equal to itself when no key of it looks  *)
(* like one of another kind, whatever order it is traversed in             *)
(* (lua_mongo.h:37-96, 179-251).                                           *)
TableInverts ==
    job.kind = "bson" /\ Bson!Plain(job.input) =>
        \A hashed \in BOOLEAN : Bson!ReadBack(job.input, hashed) = job.input

(* base64_decode undoes base64_encode (base64.cpp:41-123).                 *)
Base64Inverts ==
    job.kind = "base64" => B64!DecodeUndoesEncode(job.input)

(* The blocks SHA-1 mixes are those of the standard: the message, the bit  *)
(* 1, the fewest zeros and the length, cut evenly (sha1.cpp:180-215, 500). *)
PaddedByTheStandard ==
    job.kind = "sha" => CutByTheStandard(job.input)

(* A message that fits its block is read back as it was written, in the    *)
(* number of bytes its template says, and no part of it is taken for a     *)
(* whole message (proto_parser.h:48-250, msg_ex.h:14-22).                  *)
MessageInverts ==
    job.kind = "proto" /\ Proto!Length(job.template, job.input) <= SendCap =>
        LET w == Proto!Write(job.template, job.input)
        IN  /\ ~w.err /\ Len(w.buf) = Proto!Length(job.template, job.input)
            /\ Proto!Read(w.buf, job.template) = [ok |-> TRUE, val |-> job.input]
            /\ \A n \in 0..Len(w.buf) - 1 :
                  ~Proto!Read(SubSeq(w.buf, 1, n), job.template).ok

(* A number a type can hold is read from a message as it was written       *)
(* (msg_struct.h:60-226).                                                  *)
NumbersInvert ==
    job.kind = "number" => \A type \in NumberTypes : NumberReturns(type, job.input)

(* Whatever its length, a message of the server is announced with it, on   *)
(* both sides of the change of form (websocket.h:77-108).                  *)
AnswerReadable ==
    job.kind = "header" => LengthAnnounced(job.input)

(* The parts of a workbook are read back as they were before they were     *)
(* compressed, written as elements and escaped, and the lists of a cell as *)
(* they were meant (myxml2.cpp:74-260, 392-522, 606-738, 845-879).         *)
PartsRead ==
    /\ job.kind = "inflate" => Inflated(job.input)
    /\ job.kind = "xml" => ElementsRead(job.head, job.input)
    /\ job.kind = "text" => TextRestored(job.type, job.input)
    /\ job.kind = "list" => WordsQuoted(job.input, job.blanks, job.comma)

(* Every conversion of the wires is undone by its counterpart, and what    *)
(* others wrote is read as they meant it.                                  *)
FormatsInvert ==
    AnswerReadable /\ ZipInverts /\ TableInverts /\ Base64Inverts
      /\ PaddedByTheStandard /\ NumbersInvert /\ MessageInverts /\ PartsRead

(* The program the sheet tool writes evaluates to what the sheets say,     *)
(* whatever it shares among them and whichever language is asked for       *)
(* (myxml2.cpp:742-1185, 1256-1500).                                       *)
TablesTold == job.kind = "workbook" => Told(job.input[1], job.input[2])

(* A message longer than its block loses whichever writes do not fit, and  *)
(* whichever they are the reader refuses what is left: the loss, which no  *)
(* one reports, never becomes another message (msg_struct.h:178-226).      *)
OverflowRefused ==
    job.kind = "proto" /\ SendCap < Proto!Length(job.template, job.input) =>
        ~Proto!Read(Proto!Write(job.template, job.input).buf, job.template).ok
=============================================================================
