----------------------------- MODULE MCSession -----------------------------
(***************************************************************************)
(* Two programs that share                                                 *)
(*                                                                         *)
(*   struct item { bool b; bool b_exist; };                                *)
(*   struct box { int l[2]; size_t count; bool l_exist; };                 *)
(*   struct record {                                                       *)
(*     double d; bool d_exist; unsigned char d_flags;    // "d", or null   *)
(*     char s[4]; bool s_exist;                          // "s"            *)
(*     struct item p[2]; bool p_exist; size_t count;     // "p"            *)
(*     struct box o; bool o_exist; unsigned char o_flags;// "o", or null   *)
(*     int64_t i; bool i_exist;                          // "i"            *)
(*     struct box x; bool x_exist;                       // "x"            *)
(*   };                                                                    *)
(*                                                                         *)
(* of which the reader does not know "x".                                  *)
(***************************************************************************)
EXTENDS Session, StructMacros

Bool == Plain("bool")
Flags == Plain("unsigned char")
Count == Plain("size_t")
Item == StructType("item", 2)
Box == StructType("box", 4)

ItemMembers == [b |-> Member(0, Bool), b_exist |-> Member(1, Bool)]

BoxMembers ==
  [l |-> Member(0, ArrayOf(Plain("int"), 2)), count |-> Member(2, Count),
   l_exist |-> Member(3, Bool)]

RecordMembers ==
  [d |-> Member(0, Plain("double")), d_exist |-> Member(1, Bool), d_flags |-> Member(2, Flags),
   s |-> Member(3, ArrayOf(Plain("char"), 4)), s_exist |-> Member(4, Bool),
   p |-> Member(5, ArrayOf(Item, 2)), p_exist |-> Member(9, Bool), count |-> Member(10, Count),
   o |-> Member(11, Box), o_exist |-> Member(15, Bool), o_flags |-> Member(16, Flags),
   i |-> Member(17, Plain("int64_t")), i_exist |-> Member(18, Bool),
   x |-> Member(19, Box), x_exist |-> Member(23, Bool)]

ASSUME TheMacrosCompile ==
  /\ ScalarChecked("BOOL", ItemMembers, "b") /\ ExistChecked(ItemMembers, InferExist("b"))
  /\ ArrayTypedChecked(BoxMembers, "l", Plain("int"), "count")
  /\ ExistChecked(BoxMembers, InferExist("l"))
  /\ ScalarChecked("DOUBLE", RecordMembers, "d") /\ ScalarChecked("INT64", RecordMembers, "i")
  /\ CstrChecked(RecordMembers, "s")
  /\ ArrayTypedChecked(RecordMembers, "p", Item, "count")
  /\ ObjectTypedChecked(RecordMembers, "o", Box) /\ ObjectChecked(RecordMembers, "x")
  /\ \A f \in {"d_flags", "o_flags", NULL} : FlagsChecked(RecordMembers, f)
  /\ \A m \in {"d", "s", "p", "o", "i", "x"} : ExistChecked(RecordMembers, InferExist(m))

\* Uses of the macros that test_macro_compile_fail.c expects not to compile.
WrongMembers ==
  [value |-> Member(0, Plain("double")), number |-> Member(1, Plain("int")),
   number_exist |-> Member(2, Plain("int")), flags |-> Member(3, Bool),
   text |-> Member(4, PointerTo(Plain("char"))), text_exist |-> Member(5, Bool),
   values |-> Member(6, ArrayOf(Plain("double"), 4)), count |-> Member(10, Plain("int")),
   length |-> Member(11, Count), other |-> Member(12, Item)]

ASSUME TheMacrosDoNotCompile ==
  /\ \A type \in {"BOOL", "INT", "INT64"} : ~ScalarChecked(type, WrongMembers, "value")
  /\ ~ScalarChecked("DOUBLE", WrongMembers, "number")
  /\ ~ExistChecked(WrongMembers, InferExist("number"))      \* is there, but no bool
  /\ ~ExistChecked(WrongMembers, InferExist("value"))       \* is not there
  /\ ~FlagsChecked(WrongMembers, "flags")
  /\ ~CstrChecked(WrongMembers, "text")
  /\ ~ArrayChecked(WrongMembers, "values", "count")
  /\ ~ArrayTypedChecked(WrongMembers, "values", Plain("int"), "length")
  /\ ~ObjectTypedChecked(WrongMembers, "other", Box)

MCDescs == {"record", "reader", "d", "s", "p", "item", "b", "o", "x", "l", "elem", "i"}

RecordAttr(member) ==
  MemberAttr(RecordMembers, OwnName(member), InferExist(member), member)
BoxAttrs == <<MemberAttr(BoxMembers, OwnName("l"), InferExist("l"), "l")>>

MCDesc ==
  LET known == <<RecordAttr("d"), RecordAttr("s"), RecordAttr("p"), RecordAttr("o"),
                 RecordAttr("i")>>
  IN [record |-> Object(<<RecordAttr("x")>> \o known, 0, 0, FALSE),
      reader |-> Object(known, 0, 0, FALSE),
      d |-> MemberScalar("DOUBLE", RecordMembers, "d", "d_flags"),
      s |-> MemberCstr(RecordMembers, "s", NULL),
      p |-> MemberArray("item", 2, RecordMembers, "p", "count", NULL),
      item |-> Object(<<MemberAttr(ItemMembers, OwnName("b"), InferExist("b"), "b")>>,
                      0, 0, FALSE),
      b |-> MemberScalar("BOOL", ItemMembers, "b", NULL),
      o |-> MemberObject(BoxAttrs, RecordMembers, "o", "o_flags"),
      x |-> MemberObject(BoxAttrs, RecordMembers, "x", NULL),
      l |-> MemberArray("elem", 2, BoxMembers, "l", "count", NULL),
      elem |-> Scalar("INT", 0, 0, FALSE),
      i |-> MemberScalar("INT64", RecordMembers, "i", NULL)]

-----------------------------------------------------------------------------
Value(kind, val) == [kind |-> kind, val |-> val]

\* A structure with these numbers of elements where the cells of set are the
\* flags that are set.
Record(set, p, o, x, d, s, i) ==
  LET flag(kind, a) == Value(kind, a \in set)
      box(a, n) == <<Value("int", 10), Value("int", -1), Value("size", n),
                     flag("exist", a + 3)>>
      cells == <<Value("double", d), flag("exist", 1), flag("null", 2),
                 Value("cstr", s), flag("exist", 4),
                 flag("bool", 5), flag("exist", 6), flag("bool", 7), flag("exist", 8),
                 flag("exist", 9), Value("size", p)>>
               \o box(11, o) \o <<flag("exist", 15), flag("null", 16),
                                  Value("int64", i), flag("exist", 18)>>
               \o box(19, x) \o <<flag("exist", 23)>>
  IN [a \in 0 .. 23 |-> cells[a + 1]]

Escapes == <<"\"", "\\", "LF">>

\* Every member in some structure and missing in some other, members in front
\* of, between and behind missing ones, objects and arrays that are empty.
MCInputs ==
  {Record({1, 4, 18}, 0, 0, 0, -25, Escapes, -7),
   Record({1, 2, 15, 14}, 0, 2, 0, 30, << >>, 0),         \* flagged null as well
   Record({4, 9, 6, 7, 8}, 2, 0, 0, 0, << >>, 0),
   Record({9, 5, 6, 18, 23, 22}, 1, 0, 2, 0, << >>, 12),
   Record({15, 14, 23, 22}, 0, 1, 1, 0, << >>, 0),
   Record({}, 0, 0, 0, 0, << >>, 0),                      \* {}
   Record({1, 23}, 0, 0, 0, 5, << >>, 0),                 \* {} where it is skipped
   Record({18, 9}, 0, 0, 0, 0, << >>, 3),                 \* []
   Record({9, 6, 18}, 2, 0, 0, 0, << >>, 3)}              \* {} in an array

\* What the reader had: nothing, or another record, flagged null.
MCBefore ==
  {Record({}, 0, 0, 0, 0, << >>, 0),
   Record({1, 2, 4, 5, 6, 9, 15, 16, 18, 22, 23}, 1, 1, 1, 77, <<"z">>, 8)}

MCTokens ==
  LET token(type) ==
        [type |-> type, text |-> << >>, num |-> 0, real |-> 0, wide |-> FALSE]
      number(tenths) ==
        [token("0") EXCEPT !.real = tenths,
           !.num = IF tenths < 0 THEN -((-tenths) \div 10) ELSE tenths \div 10]
  IN {token(c) : c \in {"{", "}", "[", "]", ":", ",", "t", "f"}}
       \cup {[token("s") EXCEPT !.text = s] :
               s \in {Escapes, << >>} \cup {<<c>> : c \in {"d", "s", "p", "b", "o", "x", "l", "i"}}}
       \cup {number(n) : n \in {-25, -20, -10, -70, 0, 5, 10, 30, 100, 120}}
=============================================================================
