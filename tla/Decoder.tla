------------------------------ MODULE Decoder ------------------------------
(***************************************************************************)
(* bo_json_decode: the recursive-descent decoder that reads one JSON value *)
(* token by token and stores it in a C structure under the direction of a  *)
(* descriptor.                                                             *)
(*                                                                         *)
(* The C call stack is explicit: a frame for every active decode_object    *)
(* and decode_array.  A step is what the code does between two calls of    *)
(* lexer_next: it takes one token, acts on it and runs up to the point     *)
(* where the next token is needed.  The input is chosen as it is consumed, *)
(* so one behaviour stands for every input with that prefix.               *)
(*                                                                         *)
(* The memory behind out holds what this call has stored: a function from  *)
(* the cells written to tagged values.  A cell outside its domain still    *)
(* holds what the caller left there.  decode_object and decode_array trust *)
(* the descriptor: given one of another type they store past the cell they *)
(* mean (Overlaid), or take other data for an attribute table and store    *)
(* wherever it says (Wild), after which nothing is known ("undefined").    *)
(***************************************************************************)
EXTENDS Descriptors, SequencesExt

CONSTANTS
  Descs,        \* the identifiers of the descriptors
  Desc,         \* the table: identifier -> descriptor
  Root,         \* the descriptor given to bo_json_decode, or NULL
  Tokens,       \* the well-formed tokens the input is made of
  MaxTokens,    \* bound: tokens taken from the input
  IntMax,       \* INT_MAX, scaled down
  LongMax,      \* LONG_MAX = INT64_MAX, scaled down
  Overlaid,     \* pairs <<a, c>>: a size_t stored at cell a reaches over cell c
  Wild          \* pairs <<a, v>>: a store that a table of garbage may lead to

\* A well-formed token.  For a string, text is what is between the quotes;
\* for a number, num is its leading integer part (where strtol stops), real
\* its value in tenths, wide says that it has 64 characters or more.
TokenType ==
  [type : {"n", "t", "f", "s", "0", "{", "}", "[", "]", ":", ","},
   text : Seq(STRING), num : Int, real : Int, wide : BOOLEAN]

ASSUME DescAssumption ==
  /\ NULL \notin Descs
  /\ Desc \in [Descs -> DescOver(Descs)]
  /\ Root \in Descs \cup {NULL}

\* What a descriptor macro does not name is zero.
ASSUME ZeroFilled ==
  \A d \in Descs :
    /\ Desc[d].type # "ARRAY" => Desc[d].capacity = 0 /\ Desc[d].count_offset = 0
    /\ Desc[d].type # "OBJECT" => Desc[d].attr_descs = << >>

ASSUME InputAssumption ==
  /\ Tokens \subseteq TokenType
  /\ MaxTokens \in Nat
  /\ IntMax \in Nat /\ LongMax \in Nat

VARIABLES
  pc,         \* what the decoder waits for, or how it ended
  stack,      \* the active decode_object and decode_array calls
  mem,        \* what has been stored behind out
  result,     \* the error code returned
  consumed,   \* the tokens taken from the input so far, and the fault it met
  read,       \* history: the tokens as the decoder understood them, see below
  lenient     \* history: where the decoder let something pass, see below

vars == <<pc, stack, mem, result, consumed, read, lenient>>

(***************************************************************************)
(* What lexer_next reports instead of a token: the input ended behind a    *)
(* token, or cut one in two, a character that starts no token, a misspelt  *)
(* keyword or number, a bad escape in a string.                            *)
(***************************************************************************)
Faults ==
  {[type |-> "end", err |-> "PARTIAL"],
   [type |-> "cut", err |-> "PARTIAL"],
   [type |-> "character", err |-> "PARTIAL"],
   [type |-> "spelling", err |-> "INVALID_JSON"],
   [type |-> "escape", err |-> "TYPE_NOT_MATCH"]}

ErrorCodes ==
  {"NONE", "PARTIAL", "INVALID_JSON", "INSUFFICIENT_SPACE", "TYPE_NOT_MATCH",
   "OVERFLOW", "NOT_SUPPORT"}

Frames ==
  [kind : {"object", "array"}, desc : Descs \cup {NULL}, out : Nat,
   key : Seq(STRING),     \* object: the key just read
   attr : Nat,            \* object: the attribute being decoded, 0 if none
   count : Nat]           \* array: the elements decoded

Stopped == {"done", "undefined"}

-----------------------------------------------------------------------------
(* The arguments of the pending decode_value call, from its caller.        *)

\* The attributes decode_object_key_value looks through.
Attrs(d) == IF d = NULL THEN << >> ELSE Desc[d].attr_descs

\* Mutant: the offset of the object or array itself is forgotten.
BaseOfParent(f) == f.out

\* Where the members of an object, or the elements of an array, are laid out.
Base(f) == IF f.desc = NULL THEN f.out ELSE f.out + Desc[f.desc].value_offset

AttrOf(f) == Desc[f.desc].attr_descs[f.attr]

\* Elements of a skipped array are decoded with no descriptor.
ElemDesc(f) == IF f.desc = NULL THEN NULL ELSE Desc[f.desc].elem_attr_desc
ElemSize(f) == IF f.desc = NULL THEN 0 ELSE Desc[f.desc].elem_size

Call(f) ==
  IF f.kind = "object"
    THEN IF f.attr = 0 THEN [desc |-> NULL, out |-> 0]
                       ELSE [desc |-> AttrOf(f).desc, out |-> Base(f)]
    ELSE [desc |-> ElemDesc(f), out |-> Base(f) + f.count * ElemSize(f)]

Pending == IF stack = << >> THEN [desc |-> Root, out |-> 0] ELSE Call(Last(stack))

-----------------------------------------------------------------------------
(* Cells and the values they hold.                                         *)

Store(m, a, v) == [c \in DOMAIN m \cup {a} |-> IF c = a THEN v ELSE m[c]]
StoreAll(m, cells, v) ==
  [c \in DOMAIN m \cup cells |-> IF c \in cells THEN v ELSE m[c]]

\* The cells a size_t stored at a reaches over, in part or whole.  Where one is
\* declared that is the cell itself; elsewhere it may be the neighbours too.
Span(a) == {a} \cup {p[2] : p \in {p \in Overlaid : p[1] = a}}

Cell ==
  [kind : {"int", "int64", "double", "size"}, val : Int]
    \cup [kind : {"bool", "exist", "null"}, val : BOOLEAN]
    \cup [kind : {"cstr", "torn"}, val : Seq(STRING)]

Value(kind, val) == [kind |-> kind, val |-> val]

ASSUME ReachAssumption == Overlaid \subseteq Nat \X Nat /\ Wild \subseteq Nat \X Cell

\* strtol and strtoll saturate; the cast to int keeps the low bits.
Saturate(n) == IF n > LongMax THEN LongMax
               ELSE IF n < -LongMax - 1 THEN -LongMax - 1 ELSE n

ToInt(n) == ((n + IntMax + 1) % (2 * IntMax + 2)) - IntMax - 1

Number(type, tok) ==
  CASE type = "INT"    -> Value("int", ToInt(Saturate(tok.num)))
    [] type = "INT64"  -> Value("int64", Saturate(tok.num))
    [] type = "DOUBLE" -> Value("double", tok.real)

-----------------------------------------------------------------------------
(* Control.                                                                *)

Consume(tok) ==
  /\ Len(consumed) < MaxTokens
  /\ tok \in Tokens
  /\ consumed' = Append(consumed, tok)

\* A token is taken and understood as what it is.
Read(tok) == Consume(tok) /\ read' = Append(read, tok)

\* What a full array takes for its closing bracket.
Bracket == [type |-> "]"]

Fail(err) ==
  /\ pc' = "done"
  /\ result' = err
  /\ stack' = << >>

Reject(err) == Fail(err) /\ UNCHANGED mem

\* A decode function returned OK: its caller goes on.  An object notes that
\* the attribute exists, an array counts the element, bo_json_decode returns.
Return(stk, m) ==
  IF stk = << >>
    THEN /\ pc' = "done" /\ result' = "NONE"
         /\ stack' = stk /\ mem' = m
    ELSE LET f == Last(stk) IN
         /\ pc' = "next" /\ UNCHANGED result
         /\ IF f.kind = "object"
              THEN /\ stack' = [stk EXCEPT ![Len(stk)].attr = 0]
                   /\ mem' = IF f.attr = 0 THEN m
                             ELSE Store(m, Base(f) + AttrOf(f).exist_offset,
                                        Value("exist", TRUE))
              ELSE /\ stack' = [stk EXCEPT ![Len(stk)].count = @ + 1]
                   /\ mem' = m

Ignore == Return(stack, mem)

StoreValue(v) ==
  Return(stack, Store(mem, Pending.out + Desc[Pending.desc].value_offset, v))

\* Mutant: the count is one too many.
EndArrayOneMore(stk, f, count) ==
  Return(stk, IF f.desc = NULL THEN mem
              ELSE StoreAll(mem, Span(f.out + Desc[f.desc].count_offset),
                            Value("size", count + 1)))

\* Mutant: the count is stored although nothing is described.
EndArrayAlways(stk, f, count) ==
  Return(stk, StoreAll(mem, Span(IF f.desc = NULL THEN f.out
                                 ELSE f.out + Desc[f.desc].count_offset),
                       Value("size", count)))

\* decode_array leaves its loop: it stores the element count and returns.
EndArray(stk, f, count) ==
  Return(stk, IF f.desc = NULL THEN mem
              ELSE StoreAll(mem, Span(f.out + Desc[f.desc].count_offset),
                            Value("size", count)))

\* Mutant: the bound is off by one.
FullTooLate(f, count) == f.desc # NULL /\ count > Desc[f.desc].capacity

\* There is no room for another element, seen before it is decoded.
Full(f, count) == f.desc # NULL /\ count >= Desc[f.desc].capacity

-----------------------------------------------------------------------------
Init ==
  /\ pc = "value"
  /\ stack = << >>
  /\ mem = [c \in {} |-> Value("size", 0)]
  /\ result = "NONE"
  /\ consumed = << >> /\ read = << >>
  /\ lenient = {}

\* decode_value takes a token of one of these types.
Take(types, tok) == pc = "value" /\ tok.type \in types /\ Read(tok)

\* What the descriptor of the pending value says of its type.
Skipped == Pending.desc = NULL
Expects(types) == Pending.desc # NULL /\ Desc[Pending.desc].type \in types
Nullable == Pending.desc # NULL /\ Desc[Pending.desc].nullable

\* Mutant: null is accepted without setting the null flag.
DecodeNullUnflagged ==
  /\ \E tok \in Tokens : Take({"n"}, tok)
  /\ \/ (Skipped \/ Nullable) /\ Ignore
     \/ ~Skipped /\ ~Nullable /\ Reject("TYPE_NOT_MATCH")
  /\ UNCHANGED lenient

DecodeNull ==
  /\ \E tok \in Tokens : Take({"n"}, tok)
  /\ \/ Skipped /\ Ignore
     \/ /\ ~Expects({"NULL"}) /\ Nullable
        /\ Return(stack, Store(mem, Pending.out + Desc[Pending.desc].flags_offset,
                              Value("null", TRUE)))
     \/ ~Skipped /\ ~Expects({"NULL"}) /\ ~Nullable /\ Reject("TYPE_NOT_MATCH")
     \/ Expects({"NULL"}) /\ Reject("NOT_SUPPORT")
  /\ UNCHANGED lenient

DecodeBool ==
  /\ \E tok \in Tokens :
       /\ Take({"t", "f"}, tok)
       /\ \/ Skipped /\ Ignore
          \/ Expects({"BOOL"}) /\ StoreValue(Value("bool", tok.type = "t"))
          \/ ~Skipped /\ ~Expects({"BOOL"}) /\ Reject("TYPE_NOT_MATCH")
  /\ UNCHANGED lenient

\* The text is copied as long as it leaves room for the terminating NUL; when
\* it does not, what was copied stays there, unterminated.
Torn(text, cap) ==
  IF cap <= 1 THEN mem
  ELSE Store(mem, Pending.out + Desc[Pending.desc].value_offset,
             Value("torn", SubSeq(text, 1, cap - 1)))

DecodeString ==
  /\ \E tok \in Tokens :
       /\ Take({"s"}, tok)
       /\ \/ Skipped /\ Ignore
          \/ ~Skipped /\ ~Expects({"CSTR"}) /\ Reject("TYPE_NOT_MATCH")
          \/ /\ Expects({"CSTR"})
             /\ LET cap == Desc[Pending.desc].string_capacity IN
                \/ Len(tok.text) < cap /\ StoreValue(Value("cstr", tok.text))
                \/ /\ Len(tok.text) >= cap
                   /\ Fail("INSUFFICIENT_SPACE") /\ mem' = Torn(tok.text, cap)
  /\ UNCHANGED lenient

NumberTypes == {"INT", "INT64", "DOUBLE"}

DecodeNumber ==
  /\ \E tok \in Tokens :
       /\ Take({"0"}, tok)
       /\ \/ Skipped /\ Ignore
          \/ ~Skipped /\ ~Expects(NumberTypes) /\ Reject("TYPE_NOT_MATCH")
          \/ Expects(NumberTypes) /\ tok.wide /\ Reject("OVERFLOW")
          \/ /\ Expects(NumberTypes) /\ ~tok.wide
             /\ StoreValue(Number(Desc[Pending.desc].type, tok))
  /\ UNCHANGED lenient

\* A closing bracket, a colon or a comma where a value should start.
RefuseToken ==
  /\ \E tok \in Tokens : Take({"}", "]", ":", ","}, tok)
  /\ Reject("NOT_SUPPORT")
  /\ UNCHANGED lenient

\* Mutant: counting starts one too early.
NewFrameMinusOne(kind) ==
  [kind |-> kind, desc |-> Pending.desc, out |-> Pending.out,
   key |-> << >>, attr |-> 0, count |-> -1]

NewFrame(kind) ==
  [kind |-> kind, desc |-> Pending.desc, out |-> Pending.out,
   key |-> << >>, attr |-> 0, count |-> 0]

\* decode_object and decode_array do not look at the type of the descriptor.
Mistyped(type) ==
  IF Skipped \/ Expects({type}) THEN lenient ELSE lenient \cup {"mistyped"}

OpenObject ==
  /\ \E tok \in Tokens : Take({"{"}, tok)
  /\ pc' = "key"
  /\ stack' = Append(stack, NewFrame("object"))
  /\ lenient' = Mistyped("OBJECT")
  /\ UNCHANGED <<mem, result>>

\* An array without room ends before its first element, and is understood as an
\* empty one.
OpenArray ==
  \E tok \in Tokens :
    /\ pc = "value" /\ tok.type = "[" /\ Consume(tok)
    /\ LET f == NewFrame("array") IN
       \/ /\ ~Full(f, 0)
          /\ pc' = "value"
          /\ stack' = Append(stack, f)
          /\ read' = Append(read, tok)
          /\ lenient' = Mistyped("ARRAY")
          /\ UNCHANGED <<mem, result>>
       \/ /\ Full(f, 0)
          /\ EndArray(stack, f, 0)
          /\ read' = Append(Append(read, tok), Bracket)
          /\ lenient' = Mistyped("ARRAY") \cup {"noroom"}

\* Mutant: lexer_expect_next does not compare the type.
AnyToken(tok, type) == TRUE

\* lexer_expect_next: the token is of the type asked for.
Expected(tok, type) == tok.type = type

\* Mutant: an object may end where a key is expected, also after a comma.
ObjectKeyOrEnd ==
  /\ pc = "key"
  /\ \E tok \in Tokens :
       /\ Read(tok)
       /\ \/ /\ tok.type = "s"
             /\ pc' = "colon"
             /\ stack' = [stack EXCEPT ![Len(stack)].key = tok.text]
             /\ UNCHANGED <<mem, result>>
          \/ tok.type = "}" /\ Return(Front(stack), mem)
          \/ tok.type \notin {"s", "}"} /\ Reject("INVALID_JSON")
  /\ UNCHANGED lenient

\* decode_object expects a key, then a colon.
ObjectKey ==
  /\ pc = "key"
  /\ \E tok \in Tokens :
       /\ Read(tok)
       /\ \/ /\ Expected(tok, "s")
             /\ pc' = "colon"
             /\ stack' = [stack EXCEPT ![Len(stack)].key = tok.text]
             /\ UNCHANGED <<mem, result>>
          \/ ~Expected(tok, "s") /\ Reject("INVALID_JSON")
  /\ UNCHANGED lenient

\* strncmp(name, key, length of key) is 0: the key is a prefix of the name.  It
\* looks no further than a NUL that both have at the same place.
Matches(name, key) == IsPrefix(key, name) \/ IsPrefix(Append(name, "NUL"), key)

\* The first attribute the key matches, 0 if there is none.
IsFirst(attrs, key, i) ==
  /\ Matches(attrs[i].name, key)
  /\ \A j \in 1 .. i - 1 : ~Matches(attrs[j].name, key)

Find(attrs, key) ==
  IF \E i \in DOMAIN attrs : IsFirst(attrs, key, i)
    THEN CHOOSE i \in DOMAIN attrs : IsFirst(attrs, key, i)
    ELSE 0

\* On an array descriptor the union makes elem_size the number of attributes
\* and the element descriptor their table: the names looked at are not names.
Garbage(d) == d # NULL /\ Desc[d].type = "ARRAY" /\ Desc[d].elem_size > 0

\* The member is decoded by the first attribute that matches, or skipped.
LookUp(f) ==
  /\ pc' = "value"
  /\ stack' = [stack EXCEPT ![Len(stack)].attr = Find(Attrs(f.desc), f.key),
                            ![Len(stack)].key = << >>]
  /\ UNCHANGED <<mem, result>>

\* Reading such a name is a trap, or what it is compared with happens to match
\* and a value is stored where the garbage next to it says.
Astray ==
  /\ pc' = "undefined"
  /\ mem' \in {mem} \cup {Store(mem, w[1], w[2]) : w \in Wild}
  /\ UNCHANGED <<stack, result>>

ObjectColon ==
  /\ pc = "colon"
  /\ \E tok \in Tokens :
       /\ Read(tok)
       /\ \/ Expected(tok, ":") /\ LookUp(Last(stack))
          \/ Expected(tok, ":") /\ Garbage(Last(stack).desc) /\ Astray
          \/ ~Expected(tok, ":") /\ Reject("INVALID_JSON")
  /\ UNCHANGED lenient

\* Mutant: an object ends after its first member.
ObjectNextNoComma ==
  /\ pc = "next" /\ Last(stack).kind = "object"
  /\ \E tok \in Tokens :
       /\ Read(tok)
       /\ \/ tok.type = "}" /\ Return(Front(stack), mem)
          \/ tok.type # "}" /\ Reject("INVALID_JSON")
  /\ UNCHANGED lenient

\* After a member, decode_object expects a comma or the closing brace.
ObjectNext ==
  /\ pc = "next" /\ Last(stack).kind = "object"
  /\ \E tok \in Tokens :
       /\ Read(tok)
       /\ \/ /\ tok.type = ","
             /\ pc' = "key"
             /\ UNCHANGED <<stack, mem, result>>
          \/ /\ tok.type = "}"
             /\ Return(Front(stack), mem)
          \/ tok.type \notin {",", "}"} /\ Reject("INVALID_JSON")
  /\ UNCHANGED lenient

\* After an element, decode_array expects a comma or the closing bracket; a
\* comma after the last element there is room for ends the array too, and is
\* understood as its bracket.
ArrayNext ==
  /\ pc = "next" /\ Last(stack).kind = "array"
  /\ LET f == Last(stack) IN
     \E tok \in Tokens :
       /\ Consume(tok)
       /\ \/ /\ tok.type = "," /\ ~Full(f, f.count)
             /\ pc' = "value"
             /\ read' = Append(read, tok)
             /\ UNCHANGED <<stack, mem, result>>
          \/ /\ tok.type = "," /\ Full(f, f.count)
             /\ EndArray(Front(stack), f, f.count)
             /\ read' = Append(read, Bracket)
          \/ /\ tok.type = "]"
             /\ EndArray(Front(stack), f, f.count)
             /\ read' = Append(read, tok)
          \/ /\ tok.type \notin {",", "]"}
             /\ Reject("INVALID_JSON")
             /\ read' = Append(read, tok)
  /\ UNCHANGED lenient

\* lexer_next finds no token: its error is the decoder's.
LexError ==
  /\ pc \notin Stopped
  /\ \E fault \in Faults :
       /\ Len(consumed) < MaxTokens \/ fault.type \in {"end", "cut"}
       /\ consumed' = Append(consumed, fault)
       /\ Reject(fault.err)
  /\ UNCHANGED <<read, lenient>>

\* bo_json_decode has returned, or its behaviour is no longer defined.
Terminated == pc \in Stopped /\ UNCHANGED vars

Next ==
  \/ DecodeNull \/ DecodeBool \/ DecodeString \/ DecodeNumber \/ RefuseToken
  \/ OpenObject \/ OpenArray
  \/ ObjectKey \/ ObjectColon \/ ObjectNext \/ ArrayNext
  \/ LexError \/ Terminated

Spec == Init /\ [][Next]_vars

-----------------------------------------------------------------------------
\* The shape of the state: the frames are those of decode_object and
\* decode_array, the memory holds values of the C types.
TypeOK ==
  /\ pc \in {"value", "key", "colon", "next"} \cup Stopped
  /\ stack \in Seq(Frames)
  /\ DOMAIN mem \subseteq Nat /\ mem \in [DOMAIN mem -> Cell]
  /\ result \in ErrorCodes
  /\ consumed \in Seq(Tokens \cup Faults)
  /\ read \in Seq(Tokens \cup {Bracket})
  /\ lenient \subseteq {"mistyped", "noroom"}

\* No element is ever decoded into a slot the array does not have, whatever
\* the length of the JSON array and however deep arrays are nested: an active
\* decode_array has room for the element it is decoding, and the count it is
\* about to store never exceeds the capacity.
InBounds(i) ==
  LET f == stack[i] IN
  f.kind = "array" /\ f.desc # NULL =>
    \/ f.count < Desc[f.desc].capacity
    \/ /\ f.count = Desc[f.desc].capacity
       /\ pc = "next" /\ i = Len(stack)

ArrayBound == \A i \in DOMAIN stack : InBounds(i)

\* Inside a member no attribute asks for, to any depth, the decoder checks the
\* syntax and stores nothing: neither a value nor an exist flag nor a count.
Skipping ==
  \/ \E i \in DOMAIN stack : stack[i].desc = NULL
  \/ pc = "value" /\ Skipped

SkipIsSilent == [][Skipping => mem' = mem]_vars
=============================================================================
