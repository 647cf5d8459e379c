---------------------------- MODULE Descriptors ----------------------------
(***************************************************************************)
(* Value descriptors: the constant tables from which the decoder and the   *)
(* encoder learn the C structure behind a JSON value.  One constructor per *)
(* *_EXT macro of boring_json.h.                                           *)
(*                                                                         *)
(* A descriptor is refered to by an identifier, the way the C code refers  *)
(* to one by its address; a table Desc maps identifiers to the records     *)
(* built here.  Offsets count cells: every scalar member, exist flag, null *)
(* flag and element counter of a C structure is one cell.                  *)
(*                                                                         *)
(* The C descriptor overlays its object, array and string parts in a       *)
(* union.  The parts a macro does not name are zero (the tables have       *)
(* static storage), so here every record has every field and the unnamed   *)
(* ones hold zero, the empty table or NULL.                                *)
(***************************************************************************)
EXTENDS Integers, Sequences

CONSTANT NULL       \* the null pointer, where a descriptor may be absent

ZeroDesc ==
  [type |-> "NULL", value_offset |-> 0, flags_offset |-> 0, nullable |-> FALSE,
   attr_descs |-> << >>, elem_attr_desc |-> NULL, elem_size |-> 0,
   capacity |-> 0, count_offset |-> 0, string_capacity |-> 0]

\* BOOL, INT, INT64 and DOUBLE differ in nothing but the type.
Scalar(type, value_offset, flags_offset, nullable) ==
  [ZeroDesc EXCEPT !.type = type, !.value_offset = value_offset,
                   !.flags_offset = flags_offset, !.nullable = nullable]

Cstr(capacity, value_offset, flags_offset, nullable) ==
  [Scalar("CSTR", value_offset, flags_offset, nullable)
     EXCEPT !.string_capacity = capacity]

Object(attr_descs, value_offset, flags_offset, nullable) ==
  [Scalar("OBJECT", value_offset, flags_offset, nullable)
     EXCEPT !.attr_descs = attr_descs]

Array(elem_desc, elem_size, capacity, count, value_offset, flags_offset, nullable) ==
  [Scalar("ARRAY", value_offset, flags_offset, nullable)
     EXCEPT !.elem_attr_desc = elem_desc, !.elem_size = elem_size,
            !.capacity = capacity, !.count_offset = count]

\* An entry of an object's attribute table.  A name is a sequence of letters.
Attr(name, exist_offset, desc) ==
  [name |-> name, exist_offset |-> exist_offset, desc |-> desc]

Types ==
  {"NULL", "BOOL", "INT", "INT64", "DOUBLE", "CSTR", "OBJECT", "ARRAY"}

AttrOver(ids) == [name : Seq(STRING), exist_offset : Nat, desc : ids]

\* The records the macros can build over a set of descriptor identifiers.
DescOver(ids) ==
  [type : Types, value_offset : Nat, flags_offset : Nat, nullable : BOOLEAN,
   attr_descs : Seq(AttrOver(ids)),
   elem_attr_desc : ids \cup {NULL}, elem_size : Nat,
   capacity : Nat, count_offset : Nat, string_capacity : Nat]
=============================================================================
