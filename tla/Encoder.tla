------------------------------ MODULE Encoder ------------------------------
(***************************************************************************)
(* bo_json_encode: the recursive encoder that walks a C structure under    *)
(* the direction of a descriptor and writes JSON text, one write call      *)
(* after the other, to a simple writer.                                    *)
(*                                                                         *)
(* The C call stack is explicit: a frame for every active encode_object    *)
(* and encode_array.  Between two calls a function has a list of writes to *)
(* do; every one of them may fail, and the first that does ends it all.    *)
(***************************************************************************)
EXTENDS Descriptors, SimpleWriter, StringCodec

CONSTANTS
  Descs,        \* the identifiers of the descriptors
  Desc,         \* the table: identifier -> descriptor
  Root,         \* the descriptor given to bo_json_encode
  Inputs        \* the structures: functions from cells to tagged values

ASSUME EncoderAssumption ==
  /\ NULL \notin Descs /\ Desc \in [Descs -> DescOver(Descs)] /\ Root \in Descs

\* Junk is told from every byte that can be written.
ASSUME JunkAssumption == Junk \notin STRING

\* The bytes the encoder writes of its own.  That they are strings is a fact of
\* TLA+ which the provers do not know.
Literals ==
  {"{", "}", "[", "]", ",", ":", "\"", "\\", "-", "."}
    \cup {"t", "r", "u", "e", "f", "a", "l", "s", "b", "n"}

ASSUME LiteralsAreStrings == Literals \subseteq STRING

VARIABLES
  in,           \* the memory of the structure
  pc,           \* what comes next: a call, a write, or the caller goes on
  after,        \* what comes after the writes
  todo,         \* the writes to do: sequences of bytes
  calls,        \* the active encode_object and encode_array calls
  result        \* the error code returned

encoder == <<in, pc, after, todo, calls, result>>
vars == <<encoder, writer>>

Calls ==
  [kind : {"object", "array"}, desc : Descs, in : Nat,
   i : Nat,             \* the attribute or element the loop is at, from 1
   count : Nat]         \* object: the members written

-----------------------------------------------------------------------------
(* The text of scalars.                                                    *)

\* snprintf of a natural number: its decimal digits.
Digits[n \in Nat] ==
  IF n < 10 THEN <<Char[48 + n]>> ELSE Append(Digits[n \div 10], Char[48 + (n % 10)])

Decimal(n) == IF n < 0 THEN <<"-">> \o Digits[-n] ELSE Digits[n]

\* %1.15g of a number with one decimal, given in tenths.
Tenths(n) ==
  LET abs == IF n < 0 THEN -n ELSE n
      fraction == IF abs % 10 = 0 THEN << >> ELSE <<".">> \o Digits[abs % 10]
  IN (IF n < 0 THEN <<"-">> ELSE << >>) \o Digits[abs \div 10] \o fraction

\* The writes of a scalar: one, but a string is written character by character.
ScalarWrites(type, val) ==
  CASE type = "BOOL"   -> <<IF val THEN <<"t", "r", "u", "e">>
                            ELSE <<"f", "a", "l", "s", "e">>>>
    [] type = "INT"    -> <<Decimal(val)>>
    [] type = "INT64"  -> <<Decimal(val)>>
    [] type = "DOUBLE" -> <<Tenths(val)>>
    [] type = "CSTR"   -> CstrWrites(val)

-----------------------------------------------------------------------------
(* The memory of the structure.                                            *)

Base(f) == f.in + Desc[f.desc].value_offset
AttrsOf(f) == Desc[f.desc].attr_descs

\* The exist flag of an attribute.
Exists(f, i) == in[Base(f) + AttrsOf(f)[i].exist_offset].val

\* Mutant: exist flags are not looked at.
NextAttrAny(f) == IF f.i > Len(AttrsOf(f)) THEN 0 ELSE f.i

\* The next attribute the loop of encode_object does not skip.
NextAttr(f) ==
  LET present == {i \in f.i .. Len(AttrsOf(f)) : Exists(f, i)} IN
  IF present = {} THEN 0 ELSE CHOOSE i \in present : \A j \in present : i <= j

ElemCount(f) == in[f.in + Desc[f.desc].count_offset].val

\* The arguments of the pending encode_value call.
Pending ==
  IF calls = << >> THEN [desc |-> Root, in |-> 0]
  ELSE LET f == Last(calls) IN
       IF f.kind = "object"
         THEN [desc |-> AttrsOf(f)[f.i].desc, in |-> Base(f)]
         ELSE [desc |-> Desc[f.desc].elem_attr_desc,
               in |-> Base(f) + (f.i - 1) * Desc[f.desc].elem_size]

PendingType == Desc[Pending.desc].type

-----------------------------------------------------------------------------
Init ==
  /\ WriterInit
  /\ in \in Inputs
  /\ pc = "value" /\ after = "return" /\ todo = << >>
  /\ calls = << >>
  /\ result = "NONE"

\* The writes to do next, and what follows them.
Do(writes, then) == pc' = "write" /\ todo' = writes /\ after' = then

Stop(err) ==
  /\ pc' = "done" /\ result' = err
  /\ UNCHANGED <<after, todo, calls>>

EncodeNull ==
  /\ pc = "value" /\ PendingType = "NULL"
  /\ Stop("NOT_SUPPORT")
  /\ UNCHANGED <<in, writer>>

EncodeScalar ==
  /\ pc = "value" /\ PendingType \in {"BOOL", "INT", "INT64", "DOUBLE", "CSTR"}
  /\ LET cell == in[Pending.in + Desc[Pending.desc].value_offset] IN
     Do(ScalarWrites(PendingType, cell.val), "return")
  /\ UNCHANGED <<in, calls, result, writer>>

NewCall(kind) ==
  [kind |-> kind, desc |-> Pending.desc, in |-> Pending.in, i |-> 1, count |-> 0]

EncodeObject ==
  /\ pc = "value" /\ PendingType = "OBJECT"
  /\ calls' = Append(calls, NewCall("object"))
  /\ Do(<<<<"{">>>>, "loop")
  /\ UNCHANGED <<in, result, writer>>

EncodeArray ==
  /\ pc = "value" /\ PendingType = "ARRAY"
  /\ calls' = Append(calls, NewCall("array"))
  /\ Do(<<<<"[">>>>, "loop")
  /\ UNCHANGED <<in, result, writer>>

\* Mutant: a write that fails is tried again.
WriteAgain ==
  /\ pc = "write"
  /\ \/ /\ Taken(Head(todo))
        /\ todo' = Tail(todo)
        /\ pc' = IF Tail(todo) = << >> THEN after ELSE "write"
        /\ UNCHANGED <<after, calls, result>>
     \/ /\ Refused(Head(todo))
        /\ UNCHANGED <<pc, after, todo, calls, result>>
  /\ UNCHANGED in

\* bo_json_writer_write with the next piece of text.
WriteNext ==
  /\ pc = "write"
  /\ \/ /\ Taken(Head(todo))
        /\ todo' = Tail(todo)
        /\ pc' = IF Tail(todo) = << >> THEN after ELSE "write"
        /\ UNCHANGED <<after, calls, result>>
     \/ /\ Refused(Head(todo))
        /\ Stop("INSUFFICIENT_SPACE")
  /\ UNCHANGED in

\* Mutant: the comma follows the index of the attribute, not the members
\* written before it.
ObjectMemberByIndex ==
  /\ pc = "loop" /\ Last(calls).kind = "object"
  /\ LET f == Last(calls)
         i == NextAttr(f)
     IN /\ i # 0
        /\ calls' = [calls EXCEPT ![Len(calls)].i = i]
        /\ Do((IF i > 1 THEN <<<<",">>>> ELSE << >>)
                \o <<Quote, AttrsOf(f)[i].name, Quote, <<":">>>>, "value")
  /\ UNCHANGED <<in, result, writer>>

\* encode_object comes to an attribute that exists.
ObjectMember ==
  /\ pc = "loop" /\ Last(calls).kind = "object"
  /\ LET f == Last(calls)
         i == NextAttr(f)
     IN /\ i # 0
        /\ calls' = [calls EXCEPT ![Len(calls)].i = i]
        /\ Do((IF f.count > 0 THEN <<<<",">>>> ELSE << >>)
                \o <<Quote, AttrsOf(f)[i].name, Quote, <<":">>>>, "value")
  /\ UNCHANGED <<in, result, writer>>

ObjectEnd ==
  /\ pc = "loop" /\ Last(calls).kind = "object"
  /\ NextAttr(Last(calls)) = 0
  /\ calls' = Front(calls)
  /\ Do(<<<<"}">>>>, "return")
  /\ UNCHANGED <<in, result, writer>>

\* Mutant: one element too many.
ArrayElementOneMore ==
  /\ pc = "loop" /\ Last(calls).kind = "array"
  /\ Last(calls).i <= ElemCount(Last(calls)) + 1
  /\ pc' = "value"
  /\ UNCHANGED <<in, after, todo, calls, result, writer>>

\* encode_array comes to an element with nothing left to write in front of it.
ArrayElement ==
  /\ pc = "loop" /\ Last(calls).kind = "array"
  /\ Last(calls).i <= ElemCount(Last(calls))
  /\ pc' = "value"
  /\ UNCHANGED <<in, after, todo, calls, result, writer>>

ArrayEnd ==
  /\ pc = "loop" /\ Last(calls).kind = "array"
  /\ Last(calls).i > ElemCount(Last(calls))
  /\ calls' = Front(calls)
  /\ Do(<<<<"]">>>>, "return")
  /\ UNCHANGED <<in, result, writer>>

\* The element just encoded is not the last: i < count - 1, where the code
\* counts i from 0 and count is no less than 1.
MoreFollow(f) == f.kind = "array" /\ f.i < ElemCount(f)

\* encode_value has returned OK: its caller goes on to the next attribute or
\* element, or bo_json_encode returns.  Behind an element that is not the last
\* encode_array writes a comma, and then its loop is at the next one.
Return ==
  /\ pc = "return"
  /\ \/ calls = << >> /\ Stop("NONE")
     \/ /\ calls # << >>
        /\ calls' = [calls EXCEPT ![Len(calls)].i = @ + 1,
                                  ![Len(calls)].count = @ + 1]
        /\ UNCHANGED result
        /\ \/ MoreFollow(Last(calls)) /\ Do(<<<<",">>>>, "value")
           \/ ~MoreFollow(Last(calls)) /\ pc' = "loop" /\ UNCHANGED <<after, todo>>
  /\ UNCHANGED <<in, writer>>

Terminated == pc = "done" /\ UNCHANGED vars

Next ==
  \/ EncodeNull \/ EncodeScalar \/ EncodeObject \/ EncodeArray
  \/ WriteNext
  \/ ObjectMember \/ ObjectEnd \/ ArrayElement \/ ArrayEnd \/ Return
  \/ Terminated

\* The encoder is one sequential call: it runs until it returns.
Spec == Init /\ [][Next]_vars /\ WF_vars(Next)

-----------------------------------------------------------------------------
\* Where a loop can be: at an attribute or element, or past the last one.
InRange(f) ==
  f.i \in 1 .. 1 + IF f.kind = "object" THEN Len(AttrsOf(f)) ELSE ElemCount(f)

\* The state of an encoder and its writer: no loop runs past the table of
\* attributes, or past the elements the structure counts.
TypeOK ==
  /\ pc \in {"value", "write", "loop", "return", "done"}
  /\ after \in {"value", "loop", "return"}
  /\ todo \in Seq(Seq(STRING)) /\ calls \in Seq(Calls)
  /\ \A k \in DOMAIN calls : InRange(calls[k])
  /\ len \in 0 .. WordSize - 1 /\ cap \in Capacities
  /\ buf \in Seq(STRING \cup {Junk})
  /\ result \in {"NONE", "INSUFFICIENT_SPACE", "NOT_SUPPORT"}
=============================================================================
