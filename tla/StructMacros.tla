---------------------------- MODULE StructMacros ----------------------------
(***************************************************************************)
(* The macros of boring_json.h that build descriptors from a C structure:  *)
(* BO_JSON_VALUE_STRUCT_* and the BO_JSON_OBJECT_ATTR_* family, with the   *)
(* checks they make at compile time.                                       *)
(*                                                                         *)
(* A structure is a function from the names of its members to their        *)
(* offsets, in cells, and C types.  The family is the product of a few     *)
(* choices, and has one operator for each: the kind of member; NULLABLE    *)
(* (_OR_NULL) or not, which is a flags field or NULL; and the name and the *)
(* exist field, given or inferred from the member.                         *)
(***************************************************************************)
EXTENDS Descriptors, Characters

\* C types.
Plain(c) == [c |-> c]
ArrayOf(type, dim) == [c |-> "array", of |-> type, dim |-> dim]
StructType(tag, cells) == [c |-> "struct", tag |-> tag, cells |-> cells]
PointerTo(type) == [c |-> "pointer", of |-> type]

Member(offset, type) == [offset |-> offset, type |-> type]

\* sizeof, in cells.
SizeOf(type) == IF type.c = "struct" THEN type.cells ELSE 1

-----------------------------------------------------------------------------
(* What a macro builds.                                                    *)

\* BO_JSON_INFER_EXIST_MEMBER and #member_.
InferExist(member) == member \o "_exist"
OwnName(member) == Chars(member)

FlagsOffset(s, flags) == IF flags = NULL THEN 0 ELSE s[flags].offset

MemberScalar(type, s, member, flags) ==
  Scalar(type, s[member].offset, FlagsOffset(s, flags), flags # NULL)

MemberCstr(s, member, flags) ==
  Cstr(s[member].type.dim, s[member].offset, FlagsOffset(s, flags), flags # NULL)

MemberObject(attrs, s, member, flags) ==
  Object(attrs, s[member].offset, FlagsOffset(s, flags), flags # NULL)

MemberArray(elem_desc, capacity, s, member, count, flags) ==
  Array(elem_desc, SizeOf(s[member].type.of), capacity, s[count].offset,
        s[member].offset, FlagsOffset(s, flags), flags # NULL)

MemberAttr(s, name, exist, desc) == Attr(name, s[exist].offset, desc)

-----------------------------------------------------------------------------
(* What a macro checks; a check that fails stops the compiler.             *)

\* BO_JSON_MEMBER_TYPE_IS, of a member that there is.
MemberTypeIs(s, member, type) == member \in DOMAIN s /\ s[member].type = type

ScalarType ==
  [BOOL |-> Plain("bool"), INT |-> Plain("int"), INT64 |-> Plain("int64_t"),
   DOUBLE |-> Plain("double")]

ScalarChecked(type, s, member) == MemberTypeIs(s, member, ScalarType[type])

\* BO_JSON_MEMBER_IS_ARRAY_OF, whatever the dimension.
IsArrayOf(s, member, type) ==
  member \in DOMAIN s /\ s[member].type.c = "array" /\ s[member].type.of = type

CstrChecked(s, member) == IsArrayOf(s, member, Plain("char"))
ExistChecked(s, exist) == MemberTypeIs(s, exist, Plain("bool"))
CountChecked(s, count) == MemberTypeIs(s, count, Plain("size_t"))
FlagsChecked(s, flags) ==
  flags # NULL => MemberTypeIs(s, flags, Plain("unsigned char"))

\* Without _TYPED an object may be any member, an array any that has elements.
ObjectChecked(s, member) == member \in DOMAIN s
ObjectTypedChecked(s, member, type) == MemberTypeIs(s, member, type)
ArrayChecked(s, member, count) ==
  member \in DOMAIN s /\ s[member].type.c \in {"array", "pointer"} /\ CountChecked(s, count)
ArrayTypedChecked(s, member, type, count) ==
  IsArrayOf(s, member, type) /\ CountChecked(s, count)
=============================================================================
