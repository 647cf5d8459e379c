--------------------------- MODULE DecoderMemory ---------------------------
(***************************************************************************)
(* What bo_json_decode does to the C structure, and what its verdict says  *)
(* about the input.                                                        *)
(*                                                                         *)
(* Layout declares the cells of the structure; Places are the descriptors  *)
(* with the addresses they describe.  LayoutAssumption says that the two   *)
(* fit: it is the caller contract the descriptor macros leave open         *)
(* (README.md, "They still do not prove that obj_attrs_, elem_desc_, or    *)
(* capacity_ are semantically correct").                                   *)
(***************************************************************************)
EXTENDS Decoder, JsonGrammar

CONSTANTS
  Layout,       \* declared cells: address -> kind of cell
  Places        \* pairs <<descriptor, base address>>

ScalarKind ==
  [BOOL |-> "bool", INT |-> "int", INT64 |-> "int64", DOUBLE |-> "double",
   CSTR |-> "cstr"]

Declares(a, kind) == a \in DOMAIN Layout /\ Layout[a] = kind

\* The cells and the inner places a descriptor at address o speaks of.
FitsAt(d, o) ==
  LET desc == Desc[d]
      base == o + desc.value_offset
  IN /\ desc.type \in DOMAIN ScalarKind => Declares(base, ScalarKind[desc.type])
     /\ desc.nullable => Declares(o + desc.flags_offset, "null")
     /\ desc.type = "OBJECT" =>
          \A i \in DOMAIN desc.attr_descs :
            /\ <<desc.attr_descs[i].desc, base>> \in Places
            /\ Declares(base + desc.attr_descs[i].exist_offset, "exist")
     /\ desc.type = "ARRAY" =>
          /\ Declares(o + desc.count_offset, "size")
          /\ Span(o + desc.count_offset) = {o + desc.count_offset}
          /\ desc.elem_attr_desc # NULL =>
               \A i \in 0 .. desc.capacity - 1 :
                 <<desc.elem_attr_desc, base + i * desc.elem_size>> \in Places

ASSUME LayoutAssumption ==
  /\ DOMAIN Layout \subseteq Nat
  /\ Places \subseteq Descs \X Nat
  /\ Root # NULL => <<Root, 0>> \in Places
  /\ \A p \in Places : FitsAt(p[1], p[2])

\* What an attribute table and an array descriptor say at one of their places:
\* where the exist flag of attribute i is and what it is about, where the count
\* is and what it counts.
Tables == {p \in Places : Desc[p[1]].type = "OBJECT"}
Arrays == {p \in Places : Desc[p[1]].type = "ARRAY"}

Here(p) == p[2] + Desc[p[1]].value_offset
AttrAt(p, i) == Desc[p[1]].attr_descs[i]
FlagAt(p, i) == Here(p) + AttrAt(p, i).exist_offset
CountAt(p) == p[2] + Desc[p[1]].count_offset
Counted(p) ==
  LET d == Desc[p[1]] IN <<d.elem_attr_desc, d.elem_size, d.capacity, Here(p)>>

\* A flag speaks of one member and a count of one array, however many
\* descriptors lead to them: nothing in boring_json.h keeps two attributes
\* from naming the same exist flag, it is up to the caller.
ASSUME SharingAssumption ==
  /\ \A p, q \in Tables :
       \A i \in DOMAIN Desc[p[1]].attr_descs, j \in DOMAIN Desc[q[1]].attr_descs :
         FlagAt(p, i) = FlagAt(q, j) =>
           Here(p) = Here(q) /\ AttrAt(p, i).desc = AttrAt(q, j).desc
  /\ \A p, q \in Arrays : CountAt(p) = CountAt(q) => Counted(p) = Counted(q)

-----------------------------------------------------------------------------
(* Memory.                                                                 *)

Holds(a, kind) == a \in DOMAIN mem /\ mem[a].kind = kind

\* A value the declared type allows; a string cut short stays a string.
KeepsType(a, v) ==
  \/ Declares(a, v.kind)
  \/ Declares(a, "cstr") /\ v.kind = "torn"

\* What a JSON array met by a descriptor of another type leaves behind: a
\* zero size_t at the base of the structure, as far as it reaches (it may reach
\* past the end of a structure that is smaller).
StrayCount(a, v) == v = Value("size", 0) /\ \E p \in Places : a \in Span(p[2])

\* Memory safety, as far as the code has it: unless a key is looked up in the
\* descriptor of an array, after which anything may be written, the decoder
\* writes to the cells the descriptors declare, and to each a value of the
\* declared type; the only other write is the zero count of an array where no
\* array is declared.
CellsKeepTheirType ==
  pc # "undefined" =>
    \A a \in DOMAIN mem :
      \/ KeepsType(a, mem[a])
      \/ "mistyped" \in lenient /\ StrayCount(a, mem[a])

\* The cell a scalar descriptor at address o describes has got a value: the
\* value itself or, when the descriptor allows it, the null flag.  A repeated
\* key can spoil a string stored before, but then the call fails for it.
Stored(d, o) ==
  \/ Holds(o + Desc[d].value_offset, ScalarKind[Desc[d].type])
  \/ Holds(o + Desc[d].value_offset, "torn") /\ result = "INSUFFICIENT_SPACE"
  \/ Desc[d].nullable /\ Holds(o + Desc[d].flags_offset, "null")

IsScalar(d) == Desc[d].type \in DOMAIN ScalarKind

\* An exist flag is never ahead of its value, on success and on failure: when
\* the flag of a scalar member is set, the member has its value or its null
\* flag (unless an array or object was let in where a scalar is described).
ExistMeansStored ==
  "mistyped" \notin lenient =>
    \A p \in Tables : \A i \in DOMAIN Desc[p[1]].attr_descs :
      Holds(FlagAt(p, i), "exist") /\ IsScalar(AttrAt(p, i).desc) =>
        Stored(AttrAt(p, i).desc, Here(p))

\* The element count that is stored never promises more than is there: every
\* element below it was decoded, in a slot the array has, also when the array
\* occurs twice in the input or decoding fails later on.
CountCoversElements ==
  "mistyped" \notin lenient =>
    \A p \in Arrays :
      LET d == Desc[p[1]] IN
      Holds(CountAt(p), "size") =>
        /\ mem[CountAt(p)].val <= d.capacity
        /\ d.elem_attr_desc # NULL /\ IsScalar(d.elem_attr_desc) =>
             \A i \in 0 .. mem[CountAt(p)].val - 1 :
               Stored(d.elem_attr_desc, Here(p) + i * d.elem_size)

-----------------------------------------------------------------------------
(* Verdicts, against the grammar of RFC 8259.                              *)
(*                                                                         *)
(* They are about the tokens as the decoder understands them (read): the   *)
(* comma that ends a full array stands for its bracket, and the opening    *)
(* bracket of an array without room for the whole array.  What follows the *)
(* value in the input is not looked at, and a token that the end of the    *)
(* input cuts in two is not one of them.                                   *)

Faulty == consumed # << >> /\ Last(consumed) \in Faults

\* Success means that exactly one JSON text was read: what was taken is one
\* well-formed value with nothing missing and nothing after it.  Cutting off an
\* array that is full leaves no other token out of place or out of sight.
OkIsOneValue == pc = "done" /\ result = "NONE" => IsValue(read, TRUE)

\* PARTIAL at the end of an input that is made of whole tokens means that more
\* input can complete it.
PartialCanBeCompleted ==
  pc = "done" /\ result = "PARTIAL" /\ Last(consumed).type = "end" =>
    IsValuePrefix(read, TRUE)

\* Refused for the sake of the grammar: not by the lexer, and not because the
\* descriptor is a NULL descriptor, which the decoder never supports.  (Where an
\* array had no room, [] itself was let pass.)
Refused ==
  /\ pc = "done" /\ "noroom" \notin lenient /\ ~Faulty
  /\ \/ result = "INVALID_JSON"
     \/ result = "NOT_SUPPORT" /\ Last(consumed).type # "n"

\* A token refused where it stands is one that no JSON text without empty
\* objects and arrays could have there.
RefusedIsMalformed == Refused => ~IsValuePrefix(read, FALSE)

-----------------------------------------------------------------------------
(* What the documentation says and the code does not do.                   *)

\* README.md:13, "RFC 8259 Compliant": what is refused is not JSON.
EveryTextIsAccepted == Refused => ~IsValuePrefix(read, TRUE)

\* boring_json_decode.c:287, "BO_JSON_ERROR_PARTIAL if end of input": the code
\* a caller takes for a reason to wait for more input is not given for input
\* that no continuation can repair.
PartialIsEndOfInput ==
  pc = "done" /\ result = "PARTIAL" => Last(consumed).type \in {"end", "cut"}

\* boring_json_decode.c:682, "matching the key with the provided description":
\* a member is set only when its own name occurs in the input.
KeyNamesItsMember ==
  \A p \in Tables : \A i \in DOMAIN Desc[p[1]].attr_descs :
    Holds(FlagAt(p, i), "exist") =>
      \E k \in DOMAIN consumed :
        consumed[k].type = "s" /\ consumed[k].text = AttrAt(p, i).name

\* boring_json.h:757, the descriptor "defines the expected value types in the
\* JSON data": a scalar member that is marked as existing has a value of its
\* type, whatever stood in the input in its place.
MembersHaveTheirType ==
  \A p \in Tables : \A i \in DOMAIN Desc[p[1]].attr_descs :
    Holds(FlagAt(p, i), "exist") /\ IsScalar(AttrAt(p, i).desc) =>
      Stored(AttrAt(p, i).desc, Here(p))

\* boring_json_decode.c:682, decode_object_key_value works by "matching the key
\* with the provided description": it looks for names in what is a table of them.
KeysMeetATable == pc # "undefined"
=============================================================================
