------------------------------- MODULE LuaBson -------------------------------
(***************************************************************************)
(* Lua tables as BSON documents and back: table2bson and bson2table of     *)
(* src/common/lua_mongo.h, used for the database and for the tables of the *)
(* inner link (msg_inner_parse.h).                                         *)
(*                                                                         *)
(* A table is a function from keys to values.  Keys are <<"n", i>>, the    *)
(* number i; <<"digits", i>>, the string that prints i; <<"text", s>>, any *)
(* other string.  Values are <<"bool", b>>, <<"num", x>>, <<"text", s>>,   *)
(* <<"raw", s>> (a string that is not UTF-8) and <<"table", t>>.  A        *)
(* document is a sequence of elements [name, type, val], names being keys  *)
(* of the last two forms.  The bson functions are those of the driver in   *)
(* mongo_c_driver, taken as what their callers use.                        *)
(***************************************************************************)
EXTENDS Integers, Sequences, SequencesExt

CONSTANTS NumericMax  \* the largest number of 9 digits, see is_unsigned_int

Keys(t) == DOMAIN t

(* lua_next: every key once; the numbers in the array part of a table come *)
(* in their order, those in its hash part in any, so both orders are       *)
(* followed (hashed says which).                                           *)
Traversal(t, hashed) ==
    LET numbers == {k \in Keys(t) : k[1] = "n"}
        up == SetToSortSeq(numbers, LAMBDA a, b : a[2] < b[2])
        others == SetToSeq(Keys(t) \ numbers)
    IN  IF hashed THEN others \o Reverse(up) ELSE up \o others

(* is_array: the keys met are 1, 2, 3... (lua_mongo.h:116-135).            *)
IsArray(keys) == \A i \in 1..Len(keys) : keys[i] = <<"n", i>>

(* int2string and the copy of a string key: the name of an element         *)
(* (lua_mongo.h:104-115, 180-190).  A negative number does not print as    *)
(* digits.                                                                 *)
ElementName(key, arrayFlag) ==
    IF key[1] # "n" THEN key
    ELSE LET n == key[2] - arrayFlag
         IN  IF n < 0 THEN <<"text", n>> ELSE <<"digits", n>>

RECURSIVE Table2Bson(_, _, _)
(* One element (lua_mongo.h:192-244).  A string that is not UTF-8 goes as  *)
(* binary data; the field _id becomes an object identifier, which only a   *)
(* string of 24 hexadecimal digits survives.                               *)
Element(key, val, arrayFlag, hashed) ==
    LET name == ElementName(key, arrayFlag)
        el(type, v) == [name |-> name, type |-> type, val |-> v]
    IN  IF name = <<"text", "_id">> THEN el("oid", val)
        ELSE CASE val[1] = "bool" -> el("bool", val)
               [] val[1] = "num"  -> el("double", val)
               [] val[1] = "text" -> el("string", val)
               [] val[1] = "raw"  -> el("bindata", val)
               [] val[1] = "table" ->
                    IF IsArray(Traversal(val[2], hashed))
                    THEN el("array", Table2Bson(val[2], 1, hashed))
                    ELSE el("object", Table2Bson(val[2], 0, hashed))

Table2Bson(t, arrayFlag, hashed) ==
    LET keys == Traversal(t, hashed)
    IN  [i \in 1..Len(keys) |-> Element(keys[i], t[keys[i]], arrayFlag, hashed)]

(* Mutant: the elements of an array keep their places in the document.     *)
KeyOfUnshifted(name, arrayFlag) ==
    IF name[1] = "digits" /\ name[2] <= NumericMax THEN <<"n", name[2]>> ELSE name

(* is_unsigned_int and atoi: a name of at most 9 digits is a number again. *)
KeyOf(name, arrayFlag) ==
    IF name[1] = "digits" /\ name[2] <= NumericMax
    THEN <<"n", name[2] + arrayFlag>> ELSE name

EmptyTable == [k \in {} |-> k]

RECURSIVE Bson2Table(_, _, _)
(* bson2table adds to the table it is given: a nested document goes into   *)
(* the table that is already there (lua_mongo.h:37-96).                    *)
Value(el, old) ==
    IF el.type \in {"object", "array"}
    THEN LET into == IF old[1] = "table" THEN old[2] ELSE EmptyTable
         IN  <<"table", Bson2Table(el.val, into, IF el.type = "array" THEN 1 ELSE 0)>>
    ELSE el.val

Bson2Table(doc, t, arrayFlag) ==
    LET rawset(u, el) ==
          LET key == KeyOf(el.name, arrayFlag)
              old == IF key \in Keys(u) THEN u[key] ELSE <<"nil">>
          IN  [k \in Keys(u) \cup {key} |-> IF k = key THEN Value(el, old) ELSE u[k]]
    IN  FoldLeft(rawset, t, doc)

(* A table can be sent when no string key looks like a number and no       *)
(* number key is printed in a way that is not read back as one.            *)
RECURSIVE Plain(_)
Plain(t) ==
    \A k \in Keys(t) :
       /\ k[1] # "digits"
       /\ k[1] = "n" => k[2] \in 0..NumericMax
       /\ k = <<"text", "_id">> => t[k][1] = "text"
       /\ t[k][1] = "table" => Plain(t[k][2])

ReadBack(t, hashed) == Bson2Table(Table2Bson(t, 0, hashed), EmptyTable, 0)
=============================================================================
