------------------------------ MODULE MCStruct ------------------------------
(***************************************************************************)
(* A structure that has every kind of member, and its descriptors:         *)
(*                                                                         *)
(*   struct point { bool b; bool b_exist; };                               *)
(*   struct inner { int l[2]; size_t count; bool l_exist; };               *)
(*   struct outer {                                                        *)
(*     int64_t id; bool id_exist;                        // "id"           *)
(*     int n; bool n_exist; unsigned char n_flags;       // "n", or null   *)
(*     char name[2]; bool has_name;                      // "na"           *)
(*     struct point pts[2]; size_t count; bool has_pts;  // "p"            *)
(*     struct inner in; bool in_exist; unsigned char in_flags;             *)
(*                                                       // "in", or null  *)
(*     bool z_exist;                     // "z", with a NULL descriptor    *)
(*   };                                                                    *)
(***************************************************************************)
EXTENDS StructMacros

Bool == Plain("bool")
Int32 == Plain("int")
Flags == Plain("unsigned char")
Count == Plain("size_t")

Point == StructType("point", 2)
Inner == StructType("inner", 4)

PointMembers == [b |-> Member(0, Bool), b_exist |-> Member(1, Bool)]

InnerMembers ==
  [l |-> Member(0, ArrayOf(Int32, 2)), count |-> Member(2, Count),
   l_exist |-> Member(3, Bool)]

OuterMembers ==
  [id |-> Member(0, Plain("int64_t")), id_exist |-> Member(1, Bool),
   n |-> Member(2, Int32), n_exist |-> Member(3, Bool), n_flags |-> Member(4, Flags),
   name |-> Member(5, ArrayOf(Plain("char"), 2)), has_name |-> Member(6, Bool),
   pts |-> Member(7, ArrayOf(Point, 2)), count |-> Member(11, Count),
   has_pts |-> Member(12, Bool),
   in |-> Member(13, Inner), in_exist |-> Member(17, Bool), in_flags |-> Member(18, Flags),
   z_exist |-> Member(19, Bool)]

ASSUME TheMacrosCompile ==
  /\ ScalarChecked("BOOL", PointMembers, "b")
  /\ ExistChecked(PointMembers, InferExist("b"))
  /\ ArrayTypedChecked(InnerMembers, "l", Int32, "count")
  /\ ExistChecked(InnerMembers, InferExist("l"))
  /\ ScalarChecked("INT64", OuterMembers, "id")
  /\ ScalarChecked("INT", OuterMembers, "n") /\ FlagsChecked(OuterMembers, "n_flags")
  /\ CstrChecked(OuterMembers, "name")
  /\ ArrayTypedChecked(OuterMembers, "pts", Point, "count")
  /\ ObjectTypedChecked(OuterMembers, "in", Inner) /\ FlagsChecked(OuterMembers, "in_flags")
  /\ \A exist \in {InferExist(m) : m \in {"id", "n", "in", "z"}} \cup {"has_name", "has_pts"} :
       ExistChecked(OuterMembers, exist)

MCDescs ==
  {"outer", "id", "n", "name", "pts", "point", "b", "in", "list", "elem", "z"}

StructDescs ==
  LET outer(name, exist, desc) == MemberAttr(OuterMembers, name, exist, desc)
      inferred(member) == outer(OwnName(member), InferExist(member), member)
  IN [outer |-> Object(<<inferred("id"), inferred("n"),
                         outer(Chars("na"), "has_name", "name"),
                         outer(Chars("p"), "has_pts", "pts"),
                         inferred("in"), inferred("z")>>, 0, 0, FALSE),
      id    |-> MemberScalar("INT64", OuterMembers, "id", NULL),
      n     |-> MemberScalar("INT", OuterMembers, "n", "n_flags"),
      name  |-> MemberCstr(OuterMembers, "name", NULL),
      pts   |-> MemberArray("point", 2, OuterMembers, "pts", "count", NULL),
      point |-> Object(<<MemberAttr(PointMembers, OwnName("b"), InferExist("b"), "b")>>,
                       0, 0, FALSE),
      b     |-> MemberScalar("BOOL", PointMembers, "b", NULL),
      in    |-> MemberObject(<<MemberAttr(InnerMembers, OwnName("l"), InferExist("l"), "list")>>,
                             OuterMembers, "in", "in_flags"),
      list  |-> MemberArray("elem", 2, InnerMembers, "l", "count", NULL),
      elem  |-> Scalar("INT", 0, 0, FALSE),
      z     |-> Scalar("NULL", 0, 0, FALSE)]

\* The table as the configurations name it: a definition of its own, for TLC
\* evaluates what it finds under the name of a constant at every use.
MCDesc == StructDescs

MCLayout ==
  LET cells == <<"int64", "exist", "int", "exist", "null", "cstr", "exist",
                 "bool", "exist", "bool", "exist", "size", "exist",
                 "int", "int", "size", "exist", "exist", "null", "exist">>
  IN [a \in 0 .. Len(cells) - 1 |-> cells[a + 1]]

MCPlaces ==
  ({"outer", "id", "n", "name", "pts", "in", "z"} \X {0})
    \cup ({"point", "b"} \X {7, 9})
    \cup {<<"list", 13>>, <<"elem", 13>>, <<"elem", 14>>}

\* Where the structure has no size_t, one reaches over smaller neighbours: the
\* two points are four bytes, an int is four.
MCOverlaid == {<<7, 8>>, <<7, 9>>, <<7, 10>>, <<9, 10>>, <<13, 14>>, <<14, 15>>}
=============================================================================
