--------------------------- MODULE EncoderMemory ---------------------------
(***************************************************************************)
(* What bo_json_encode reads of the C structure.                           *)
(*                                                                         *)
(* A place is a descriptor with the address it describes.  The place of an *)
(* object or array has parts, which are places too: the members its        *)
(* descriptor lists, as far as they exist, or the elements it counts.      *)
(* PlacesOf(m) are the places of the structure m.  ReadableAssumption says *)
(* that a structure to encode holds what its flags and counts promise: the *)
(* caller's contract, for the encoder believes every one it finds.         *)
(***************************************************************************)
EXTENDS Encoder

CONSTANTS
  PlacesOf(_),  \* of a structure: pairs <<descriptor, address>>
  Depth         \* of a descriptor: how deep what it describes is nested

\* The kind of cell a scalar descriptor describes.
ScalarCell ==
  [BOOL |-> "bool", INT |-> "int", INT64 |-> "int64", DOUBLE |-> "double",
   CSTR |-> "cstr"]

\* The values of the C types.
ValuesOf ==
  [bool |-> BOOLEAN, exist |-> BOOLEAN, int |-> Int, int64 |-> Int, double |-> Int,
   size |-> Nat, cstr |-> Seq(STRING)]

Holds(m, a, kind) ==
  a \in DOMAIN m /\ m[a].kind = kind /\ m[a].val \in ValuesOf[kind]

HasParts(d) == Desc[d].type \in {"OBJECT", "ARRAY"}

FlagAt(d, o, i) == o + Desc[d].value_offset + Desc[d].attr_descs[i].exist_offset
CountAt(d, o) == o + Desc[d].count_offset

\* The parts that descriptor d lists or counts at address o of the structure m,
\* the i-th of them, and whether it is there.
PartCount(m, d, o) ==
  IF Desc[d].type = "OBJECT" THEN Len(Desc[d].attr_descs) ELSE m[CountAt(d, o)].val

PartAt(d, o, i) ==
  IF Desc[d].type = "OBJECT"
    THEN <<Desc[d].attr_descs[i].desc, o + Desc[d].value_offset>>
    ELSE <<Desc[d].elem_attr_desc, o + Desc[d].value_offset + (i - 1) * Desc[d].elem_size>>

Present(m, d, o, i) == Desc[d].type = "OBJECT" => m[FlagAt(d, o, i)].val

\* The structure m holds what descriptor d says of address o: a scalar its
\* value, an object its flags, an array its count, and all of them their parts.
ReadableAt(m, d, o) ==
  /\ Desc[d].type \in DOMAIN ScalarCell =>
       Holds(m, o + Desc[d].value_offset, ScalarCell[Desc[d].type])
  /\ Desc[d].type = "OBJECT" =>
       \A i \in DOMAIN Desc[d].attr_descs : Holds(m, FlagAt(d, o, i), "exist")
  /\ Desc[d].type = "ARRAY" => Holds(m, CountAt(d, o), "size")
  /\ HasParts(d) =>
       \A i \in 1 .. PartCount(m, d, o) :
         Present(m, d, o, i) => PartAt(d, o, i) \in PlacesOf(m)

ASSUME ReadableAssumption ==
  \A m \in Inputs :
    /\ PlacesOf(m) \subseteq Descs \X Nat /\ <<Root, 0>> \in PlacesOf(m)
    /\ \A p \in PlacesOf(m) : ReadableAt(m, p[1], p[2])

\* No C structure contains itself.
ASSUME DepthAssumption ==
  /\ Depth \in [Descs -> Nat]
  /\ \A d \in Descs :
       /\ Desc[d].type = "OBJECT" =>
            \A i \in DOMAIN Desc[d].attr_descs : Depth[Desc[d].attr_descs[i].desc] < Depth[d]
       /\ Desc[d].type = "ARRAY" /\ Desc[d].elem_attr_desc \in Descs =>
            Depth[Desc[d].elem_attr_desc] < Depth[d]

-----------------------------------------------------------------------------
\* Memory safety: the encoder never looks at a place the structure does not
\* have, neither at a member that does not exist nor at an element past the
\* count, however deep the structure is nested.
ReadsTheStructure ==
  /\ \A k \in DOMAIN calls : <<calls[k].desc, calls[k].in>> \in PlacesOf(in)
  /\ pc = "value" => <<Pending.desc, Pending.in>> \in PlacesOf(in)
=============================================================================
