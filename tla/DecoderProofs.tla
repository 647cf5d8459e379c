--------------------------- MODULE DecoderProofs ---------------------------
(***************************************************************************)
(* Proofs about the decoder, for every table of descriptors, every memory  *)
(* layout they fit, every set of tokens and every length of the input.     *)
(*                                                                         *)
(* One inductive invariant, IInv, carries the first of them.  Beside the   *)
(* invariants the runs check it says of every active call that it was      *)
(* given a descriptor together with an address that descriptor is for      *)
(* (FrameOK), and how a caller and the call it made agree on whether the   *)
(* value is skipped (SkipClosed, Linked).                                  *)
(* A second one, Stores, carries what flags and counts vouch for; the      *)
(* second half of the module is about it.                                  *)
(***************************************************************************)
EXTENDS DecoderMemory, SequenceTheorems, TLAPS

\* A call with a descriptor has it at one of its places; an array that is
\* still active has room for elements at all.
FrameOK(f) ==
  /\ f \in Frames
  /\ f.attr \in 0 .. Len(Attrs(f.desc))
  /\ f.desc # NULL => <<f.desc, f.out>> \in Places
  /\ f.kind = "array" /\ f.desc # NULL => Desc[f.desc].capacity > 0

\* An array that waits for the value it is decoding has a slot for it.
Roomy(f) == f.kind = "array" /\ f.desc # NULL => f.count < Desc[f.desc].capacity

\* What is called inside a skipped value is skipped.
SkipClosed(s) ==
  \A i, j \in DOMAIN s : i < j /\ s[i].desc = NULL => s[j].desc = NULL

\* The value of an attribute is decoded with a descriptor.
Linked(s) ==
  \A i \in DOMAIN s :
    i < Len(s) /\ s[i].kind = "object" /\ s[i].attr # 0 => s[i + 1].desc # NULL

\* A stack of active calls, and one whose calls all wait for a value.
Calls(s) ==
  /\ s \in Seq(Frames)
  /\ \A i \in DOMAIN s : FrameOK(s[i])
  /\ SkipClosed(s)
  /\ Linked(s)

Waiting(s) == Calls(s) /\ \A i \in DOMAIN s : Roomy(s[i])

\* The tokens taken and read.
HistoryOK ==
  consumed \in Seq(Tokens \cup Faults) /\ read \in Seq(Tokens \cup {Bracket})

MemType(m) == DOMAIN m \subseteq Nat /\ m \in [DOMAIN m -> Cell]

\* CellsKeepTheirType of any memory of which anything is known.
Safe(m, l) ==
  \A a \in DOMAIN m :
    KeepsType(a, m[a]) \/ ("mistyped" \in l /\ StrayCount(a, m[a]))

Shape ==
  /\ pc \in {"key", "colon", "next"} => stack # << >>
  /\ pc \in {"key", "colon"} => Last(stack).kind = "object"

IInv ==
  /\ TypeOK
  /\ ArrayBound
  /\ CellsKeepTheirType
  /\ Calls(stack)
  /\ Shape

-----------------------------------------------------------------------------
(* The helpers.                                                            *)

\* Looking up a key yields an attribute of the table, or 0.
LEMMA FindInTable ==
  ASSUME NEW attrs, NEW n \in Nat, DOMAIN attrs = 1 .. n, NEW key
  PROVE  Find(attrs, key) \in 0 .. n
BY DEF Find

\* The table of a descriptor is a sequence of attributes.
LEMMA AttrsType ==
  ASSUME NEW d \in Descs \cup {NULL}
  PROVE  /\ Attrs(d) \in Seq(AttrOver(Descs))
         /\ d = NULL => Len(Attrs(d)) = 0
<1>1. CASE d = NULL
  BY <1>1 DEF Attrs
<1>2. CASE d # NULL
  <2>1. Desc[d] \in DescOver(Descs)
    BY <1>2, DescAssumption
  <2>2. Desc[d].attr_descs \in Seq(AttrOver(Descs))
    BY <2>1 DEF DescOver
  <2> QED BY <1>2, <2>2 DEF Attrs
<1> QED BY <1>1, <1>2

\* The fields of a descriptor.
LEMMA DescType ==
  ASSUME NEW d \in Descs
  PROVE  /\ Desc[d].value_offset \in Nat /\ Desc[d].flags_offset \in Nat
         /\ Desc[d].capacity \in Nat /\ Desc[d].count_offset \in Nat
         /\ Desc[d].elem_size \in Nat /\ Desc[d].string_capacity \in Nat
         /\ Desc[d].elem_attr_desc \in Descs \cup {NULL}
         /\ Desc[d].type \in Types
         /\ d # NULL
BY DescAssumption DEF DescOver

\* A store keeps the memory typed.
LEMMA StoreType ==
  ASSUME NEW m, MemType(m), NEW a \in Nat, NEW v \in Cell
  PROVE  MemType(Store(m, a, v))
BY DEF MemType, Store

\* A store of an allowed value keeps the memory safe.
LEMMA StoreSafe ==
  ASSUME NEW m, NEW l, Safe(m, l), NEW a, NEW v,
         KeepsType(a, v) \/ ("mistyped" \in l /\ StrayCount(a, v))
  PROVE  Safe(Store(m, a, v), l)
BY DEF Safe, Store

\* The same of a store that reaches over several cells.
LEMMA StoreAllType ==
  ASSUME NEW m, MemType(m), NEW cells, cells \subseteq Nat, NEW v \in Cell
  PROVE  MemType(StoreAll(m, cells, v))
BY DEF MemType, StoreAll

LEMMA StoreAllSafe ==
  ASSUME NEW m, NEW l, Safe(m, l), NEW cells, NEW v,
         \A a \in cells : "mistyped" \in l /\ StrayCount(a, v)
  PROVE  Safe(StoreAll(m, cells, v), l)
BY DEF Safe, StoreAll

\* A store that reaches over nothing but the cell it is for.
LEMMA StoreOne ==
  ASSUME NEW m, NEW a, NEW v
  PROVE  StoreAll(m, {a}, v) = Store(m, a, v)
BY DEF StoreAll, Store
-----------------------------------------------------------------------------
(* The arguments of a call.                                                *)

\* A caller that waits for a value calls decode_value with no descriptor, or
\* with a descriptor at one of its places; never with one while it skips.
LEMMA CallPlaced ==
  ASSUME NEW f, FrameOK(f), Roomy(f)
  PROVE  /\ Call(f).desc \in Descs \cup {NULL}
         /\ Call(f).out \in Nat
         /\ Call(f).desc # NULL => <<Call(f).desc, Call(f).out>> \in Places
         /\ f.desc = NULL => Call(f).desc = NULL
         /\ f.kind = "object" /\ f.attr # 0 => Call(f).desc # NULL
<1> DEFINE d == f.desc
<1>1. f \in Frames
  BY DEF FrameOK
<1>2. CASE f.desc = NULL
  <2>1. f.attr = 0
    BY <1>1, <1>2, AttrsType DEF FrameOK, Frames
  <2> QED BY <1>1, <1>2, <2>1 DEF Call, ElemDesc, ElemSize, Base, Frames
<1>3. CASE f.desc # NULL
  <2>1. /\ f.desc \in Descs /\ f.out \in Nat /\ f.count \in Nat
        /\ f.kind \in {"object", "array"}
    BY <1>1, <1>3 DEF Frames
  <2>2. <<f.desc, f.out>> \in Places /\ FitsAt(f.desc, f.out)
    BY <1>3, LayoutAssumption DEF FrameOK
  <2>3. Base(f) = f.out + Desc[f.desc].value_offset /\ Base(f) \in Nat
    BY <1>3, <2>1, DescType DEF Base
  <2>4. CASE f.kind = "object" /\ f.attr = 0
    BY <2>4, <1>3 DEF Call
  <2>5. CASE f.kind = "object" /\ f.attr # 0
    <3>1. f.attr \in DOMAIN Desc[f.desc].attr_descs
      BY <1>3, <2>1, <2>5, AttrsType DEF FrameOK, Attrs
    <3>2. AttrOf(f).desc \in Descs /\ AttrOf(f).desc # NULL
      <4>1. AttrOf(f) \in AttrOver(Descs)
        BY <3>1, <1>3, <2>1, AttrsType DEF AttrOf, Attrs
      <4> QED BY <4>1, DescAssumption DEF AttrOver
    <3>3. Desc[f.desc].type = "OBJECT"
      BY <3>1, <2>1, ZeroFilled
    <3>4. <<AttrOf(f).desc, Base(f)>> \in Places
      BY <2>2, <2>3, <3>1, <3>3 DEF FitsAt, AttrOf
    <3> QED BY <1>3, <2>3, <2>5, <3>2, <3>4 DEF Call
  <2>6. CASE f.kind = "array"
    <3>1. f.count \in 0 .. Desc[f.desc].capacity - 1
      BY <1>3, <2>1, <2>6, DescType DEF Roomy
    <3>2. Desc[f.desc].type = "ARRAY"
      BY <1>3, <2>1, <2>6, ZeroFilled DEF FrameOK
    <3>3. Desc[f.desc].elem_attr_desc # NULL =>
            <<Desc[f.desc].elem_attr_desc,
              Base(f) + f.count * Desc[f.desc].elem_size>> \in Places
      BY <2>2, <2>3, <3>1, <3>2 DEF FitsAt
    <3>4. f.count * Desc[f.desc].elem_size \in Nat
      BY <2>1, DescType
    <3> QED BY <1>3, <2>1, <2>3, <2>6, <3>3, <3>4, DescType
            DEF Call, ElemDesc, ElemSize
  <2> QED BY <2>1, <2>4, <2>5, <2>6
<1> QED BY <1>2, <1>3

-----------------------------------------------------------------------------
(* The stack.                                                              *)

\* Changing the top frame, but not its kind nor its descriptor.
Replaced(s, g) == [s EXCEPT ![Len(s)] = g]

LEMMA ReplaceTop ==
  ASSUME NEW s, Calls(s), s # << >>, NEW g, FrameOK(g),
         g.kind = Last(s).kind, g.desc = Last(s).desc
  PROVE  LET t == Replaced(s, g) IN
         /\ Calls(t)
         /\ t # << >> /\ Len(t) = Len(s) /\ Last(t) = g
         /\ \A i \in 1 .. Len(s) - 1 : t[i] = s[i]
<1> DEFINE t == Replaced(s, g)
<1>1. s \in Seq(Frames) /\ Len(s) \in DOMAIN s
  BY DEF Calls
<1>2. /\ t \in Seq(Frames) /\ Len(t) = Len(s) /\ DOMAIN t = DOMAIN s
      /\ t[Len(s)] = g
      /\ \A i \in DOMAIN s : i # Len(s) => t[i] = s[i]
  BY <1>1 DEF FrameOK, Replaced
<1> HIDE DEF t
<1>3. \A i \in DOMAIN t : FrameOK(t[i])
  BY <1>2 DEF Calls
<1>4. \A i \in DOMAIN t : t[i].desc = s[i].desc
  BY <1>2 DEF Last
<1>5. SkipClosed(t)
  BY <1>2, <1>4 DEF Calls, SkipClosed
<1>6. Linked(t)
  <2> SUFFICES ASSUME NEW i \in DOMAIN t, i < Len(t), t[i].kind = "object", t[i].attr # 0
               PROVE  t[i + 1].desc # NULL
    BY DEF Linked
  <2>1. t[i] = s[i] /\ i + 1 \in DOMAIN t
    BY <1>1, <1>2
  <2> QED BY <1>2, <1>4, <2>1 DEF Calls, Linked
<1>7. t # << >> /\ Last(t) = g /\ \A i \in 1 .. Len(s) - 1 : t[i] = s[i]
  BY <1>1, <1>2 DEF Last
<1> QED BY <1>2, <1>3, <1>5, <1>6, <1>7 DEF Calls, t

\* Making a call: the new frame has the arguments of the pending call.
LEMMA Push ==
  ASSUME NEW s, Waiting(s), NEW f, FrameOK(f), s # << >> => f.desc = Call(Last(s)).desc
  PROVE  Calls(Append(s, f))
<1> DEFINE t == Append(s, f)
           n == Len(s)
<1>1. s \in Seq(Frames) /\ f \in Frames /\ n \in Nat
  BY DEF Waiting, Calls, FrameOK
<1>2. /\ t \in Seq(Frames) /\ Len(t) = n + 1 /\ t[n + 1] = f
      /\ \A i \in DOMAIN s : t[i] = s[i]
      /\ \A i \in DOMAIN t : i = n + 1 \/ i \in DOMAIN s
  BY <1>1
<1>3. \A i \in DOMAIN t : FrameOK(t[i])
  BY <1>2 DEF Waiting, Calls
<1>4. SkipClosed(t)
  <2> SUFFICES ASSUME NEW i \in DOMAIN t, NEW j \in DOMAIN t, i < j, t[i].desc = NULL
               PROVE  t[j].desc = NULL
    BY DEF SkipClosed
  <2>1. CASE j \in DOMAIN s
    BY <1>1, <1>2, <2>1 DEF Waiting, Calls, SkipClosed
  <2>2. CASE j = n + 1
    <3>1. i \in DOMAIN s /\ n \in DOMAIN s /\ s # << >> /\ s[i].desc = NULL
      BY <1>1, <1>2, <2>2
    <3>2. Last(s).desc = NULL
      BY <1>1, <3>1 DEF Waiting, Calls, SkipClosed, Last
    <3>3. FrameOK(Last(s)) /\ Roomy(Last(s))
      BY <3>1 DEF Waiting, Calls, Last
    <3> QED BY <1>2, <2>2, <3>1, <3>2, <3>3, CallPlaced
  <2> QED BY <1>2, <2>1, <2>2
<1>5. Linked(t)
  <2> SUFFICES ASSUME NEW i \in DOMAIN t, i < Len(t), t[i].kind = "object", t[i].attr # 0
               PROVE  t[i + 1].desc # NULL
    BY DEF Linked
  <2>1. i \in DOMAIN s /\ t[i] = s[i]
    BY <1>1, <1>2
  <2>2. CASE i < n
    BY <1>1, <1>2, <2>1, <2>2 DEF Waiting, Calls, Linked
  <2>3. CASE i = n
    <3>1. FrameOK(s[n]) /\ Roomy(s[n]) /\ s # << >>
      BY <2>1, <2>3 DEF Waiting, Calls
    <3> QED BY <1>2, <2>1, <2>3, <3>1, CallPlaced DEF Last
  <2> QED BY <1>1, <2>1, <2>2, <2>3
<1> QED BY <1>2, <1>3, <1>4, <1>5 DEF Calls

\* Returning from a call: the calls below the top wait for its value.
LEMMA Pop ==
  ASSUME NEW s, Calls(s), s # << >>, \A i \in 1 .. Len(s) - 1 : Roomy(s[i])
  PROVE  /\ Waiting(Front(s))
         /\ Last(s).desc # NULL => \A i \in DOMAIN Front(s) : Front(s)[i].desc # NULL
         /\ Front(s) # << >> /\ Last(s).desc = NULL
              /\ Last(Front(s)).kind = "object" => Last(Front(s)).attr = 0
<1> DEFINE t == Front(s)
           n == Len(s) - 1
<1>1. s \in Seq(Frames) /\ n \in Nat
  BY DEF Calls
<1>2. /\ t \in Seq(Frames) /\ Len(t) = n
      /\ \A i \in 1 .. n : t[i] = s[i]
      /\ DOMAIN t = 1 .. n /\ DOMAIN s = 1 .. n + 1
  <2>1. Len(s) = n + 1 /\ n <= Len(s) /\ DOMAIN s = 1 .. n + 1
    BY <1>1
  <2>2. t = SubSeq(s, 1, n)
    BY DEF Front
  <2>3. t \in Seq(Frames) /\ Len(t) = n
    BY <1>1, <2>1, <2>2, SubSeqProperties
  <2>4. \A i \in 1 .. n : t[i] = s[i]
    BY <1>1, <2>1, <2>2
  <2> QED BY <2>1, <2>3, <2>4
<1>3. \A i \in DOMAIN t : FrameOK(t[i]) /\ Roomy(t[i])
  BY <1>1, <1>2 DEF Calls
<1>4. SkipClosed(t)
  BY <1>1, <1>2 DEF Calls, SkipClosed
<1>5. Linked(t)
  BY <1>1, <1>2 DEF Calls, Linked
<1>6. Last(s).desc # NULL => \A i \in DOMAIN t : t[i].desc # NULL
  BY <1>1, <1>2 DEF Calls, SkipClosed, Last
<1>7. t # << >> /\ Last(s).desc = NULL /\ Last(t).kind = "object" => Last(t).attr = 0
  BY <1>1, <1>2 DEF Calls, Linked, Last
<1> QED BY <1>2, <1>3, <1>4, <1>5, <1>6, <1>7 DEF Waiting, Calls

-----------------------------------------------------------------------------
(* Steps.                                                                  *)

\* A failed call leaves nothing active.
LEMMA FailStep ==
  ASSUME NEW err \in ErrorCodes, Fail(err), MemType(mem'), Safe(mem', lenient'),
         HistoryOK', lenient' \subseteq {"mistyped", "noroom"}
  PROVE  IInv'
<1>1. stack' = << >> /\ pc' = "done" /\ result' = err
  BY DEF Fail
<1>2. TypeOK'
  BY <1>1 DEF TypeOK, MemType, Stopped, HistoryOK
<1>3. Calls(stack')
  BY <1>1 DEF Calls, SkipClosed, Linked
<1>4. ArrayBound' /\ Shape'
  BY <1>1 DEF ArrayBound, Shape
<1>5. CellsKeepTheirType'
  BY DEF CellsKeepTheirType, Safe
<1> QED BY <1>2, <1>3, <1>4, <1>5 DEF IInv

\* A value was decoded: the caller notes it and waits for what separates it
\* from the next one, or the whole call is over.
LEMMA ReturnStep ==
  ASSUME NEW stk, Waiting(stk), NEW m, MemType(m), Safe(m, lenient'),
         Return(stk, m), result \in ErrorCodes,
         HistoryOK', lenient' \subseteq {"mistyped", "noroom"}
  PROVE  IInv'
<1> DEFINE f == Last(stk)
<1>1. stk \in Seq(Frames) /\ Calls(stk)
  BY DEF Waiting, Calls
<1>2. CASE stk = << >>
  <2>1. stack' = << >> /\ pc' = "done" /\ result' = "NONE" /\ mem' = m
    BY <1>2 DEF Return
  <2>2. Fail("NONE")
    BY <2>1 DEF Fail
  <2> QED BY <2>1, <2>2, FailStep DEF ErrorCodes
<1>3. CASE stk # << >>
  <2>1. Len(stk) \in DOMAIN stk /\ f = stk[Len(stk)]
    BY <1>1, <1>3 DEF Last
  <2>2. FrameOK(f) /\ Roomy(f) /\ f \in Frames
    BY <2>1 DEF Waiting, Calls, FrameOK
  <2>3. pc' = "next" /\ result' = result
    BY <1>3 DEF Return
  <2>4. PICK g : /\ stack' = [stk EXCEPT ![Len(stk)] = g]
                 /\ FrameOK(g) /\ g.kind = f.kind /\ g.desc = f.desc
                 /\ g.kind = "array" /\ g.desc # NULL =>
                      g.count <= Desc[g.desc].capacity
    <3>1. CASE f.kind = "object"
      <4> DEFINE g == [f EXCEPT !.attr = 0]
      <4>1. stack' = [stk EXCEPT ![Len(stk)] = g]
        BY <1>1, <1>3, <2>1, <2>2, <3>1 DEF Return, Frames
      <4>2. f.desc \in Descs \cup {NULL}
        BY <2>2 DEF Frames
      <4>3. Len(Attrs(f.desc)) \in Nat
        BY <4>2, AttrsType
      <4>4. FrameOK(g) /\ g.kind = "object" /\ g.kind = f.kind /\ g.desc = f.desc
        BY <2>2, <3>1, <4>3 DEF FrameOK, Frames
      <4> HIDE DEF g
      <4> QED BY <4>1, <4>4
    <3>2. CASE f.kind = "array"
      <4> DEFINE g == [f EXCEPT !.count = f.count + 1]
      <4>1. stack' = [stk EXCEPT ![Len(stk)] = g]
        BY <1>1, <1>3, <2>1, <2>2, <3>2 DEF Return, Frames
      <4>2. FrameOK(g) /\ g.kind = f.kind /\ g.desc = f.desc /\ g.count = f.count + 1
        BY <2>2 DEF FrameOK, Frames
      <4>3. f.desc # NULL => f.count + 1 <= Desc[f.desc].capacity
        BY <2>2, <3>2, DescType DEF Roomy, Frames
      <4> HIDE DEF g
      <4> QED BY <4>1, <4>2, <4>3
    <3> QED BY <2>2, <3>1, <3>2 DEF Frames
  <2>5. /\ Calls(stack') /\ stack' # << >> /\ Len(stack') = Len(stk)
        /\ Last(stack') = g
        /\ \A i \in 1 .. Len(stk) - 1 : stack'[i] = stk[i]
    <3>1. /\ Calls(stk) /\ stk # << >> /\ FrameOK(g)
          /\ g.kind = Last(stk).kind /\ g.desc = Last(stk).desc
      BY <1>1, <1>3, <2>4
    <3>2. stack' = Replaced(stk, g)
      BY <2>4 DEF Replaced
    <3>3. LET t == Replaced(stk, g) IN
          /\ Calls(t)
          /\ t # << >> /\ Len(t) = Len(stk) /\ Last(t) = g
          /\ \A i \in 1 .. Len(stk) - 1 : t[i] = stk[i]
      BY <3>1, ReplaceTop
    <3> QED BY <3>2, <3>3
  <2>6. stack' \in Seq(Frames) /\ Len(stk) \in Nat /\ DOMAIN stack' = 1 .. Len(stk)
    BY <1>1, <2>5 DEF Calls
  <2>7. MemType(mem') /\ Safe(mem', lenient')
    <3>1. CASE mem' = m
      BY <3>1
    <3>2. CASE f.kind = "object" /\ f.attr # 0
      <4> DEFINE d == Desc[f.desc]
      <4>0. mem' = Store(m, Base(f) + AttrOf(f).exist_offset, Value("exist", TRUE))
        BY <1>3, <3>2 DEF Return
      <4>1. f.desc \in Descs /\ f.desc # NULL /\ f.out \in Nat
        BY <2>2, <3>2, AttrsType DEF FrameOK, Frames
      <4>2. f.attr \in DOMAIN d.attr_descs
        BY <2>2, <3>2, <4>1, AttrsType DEF FrameOK, Attrs
      <4>3. d.type = "OBJECT"
        BY <4>1, <4>2, ZeroFilled
      <4>4. FitsAt(f.desc, f.out)
        BY <2>2, <4>1, LayoutAssumption DEF FrameOK
      <4>5. Declares(Base(f) + AttrOf(f).exist_offset, "exist")
        BY <4>1, <4>2, <4>3, <4>4 DEF FitsAt, AttrOf, Base
      <4>6. Base(f) + AttrOf(f).exist_offset \in Nat
        BY <4>5, LayoutAssumption DEF Declares
      <4>7. Value("exist", TRUE) \in Cell /\ Value("exist", TRUE).kind = "exist"
        BY DEF Value, Cell
      <4>8. KeepsType(Base(f) + AttrOf(f).exist_offset, Value("exist", TRUE))
        BY <4>5, <4>7 DEF KeepsType
      <4>9. MemType(mem')
        BY <4>0, <4>6, <4>7, StoreType
      <4>10. Safe(mem', lenient')
        BY <4>0, <4>8, StoreSafe
      <4> QED BY <4>9, <4>10
    <3>3. ~(f.kind = "object" /\ f.attr # 0) => mem' = m
      BY <1>3 DEF Return
    <3> QED BY <3>1, <3>2, <3>3
  <2>8. TypeOK'
    BY <2>3, <2>6, <2>7 DEF TypeOK, MemType, HistoryOK
  <2>9. ArrayBound'
    <3> SUFFICES ASSUME NEW i \in DOMAIN stack', stack'[i].kind = "array",
                        stack'[i].desc # NULL
                 PROVE  \/ stack'[i].count < Desc[stack'[i].desc].capacity
                        \/ /\ stack'[i].count = Desc[stack'[i].desc].capacity
                           /\ i = Len(stack')
      BY <2>3 DEF ArrayBound, InBounds
    <3>1. CASE i = Len(stk)
      <4>1. stack'[i] = g /\ i = Len(stack') /\ g.count \in Nat /\ g.desc \in Descs
        BY <2>4, <2>5, <3>1 DEF Last, FrameOK, Frames
      <4> QED BY <2>4, <4>1, DescType
    <3>2. CASE i # Len(stk)
      <4>1. i \in DOMAIN stk /\ stack'[i] = stk[i]
        BY <1>1, <2>5, <2>6, <3>2
      <4> QED BY <4>1 DEF Waiting, Roomy
    <3> QED BY <3>1, <3>2
  <2>10. Shape'
    BY <2>3, <2>5 DEF Shape
  <2>11. CellsKeepTheirType'
    BY <2>7 DEF CellsKeepTheirType, Safe
  <2> QED BY <2>5, <2>8, <2>9, <2>10, <2>11 DEF IInv
<1> QED BY <1>2, <1>3

\* The pending call: the callers wait for its value, and a descriptor it was
\* given fits the memory where it is used.
LEMMA PendingFits ==
  ASSUME IInv, pc = "value"
  PROVE  /\ Waiting(stack)
         /\ Pending.desc \in Descs \cup {NULL} /\ Pending.out \in Nat
         /\ Pending.desc # NULL => /\ <<Pending.desc, Pending.out>> \in Places
                                   /\ FitsAt(Pending.desc, Pending.out)
         /\ stack # << >> => Pending = Call(Last(stack))
<1>1. Calls(stack) /\ stack \in Seq(Frames)
  BY DEF IInv, Calls
<1>2. \A i \in DOMAIN stack : Roomy(stack[i])
  BY DEF IInv, ArrayBound, InBounds, Roomy
<1>3. Waiting(stack)
  BY <1>1, <1>2 DEF Waiting
<1>4. CASE stack = << >>
  BY <1>3, <1>4, DescAssumption, LayoutAssumption DEF Pending
<1>5. CASE stack # << >>
  <2>1. Len(stack) \in DOMAIN stack
    BY <1>1, <1>5
  <2>2. FrameOK(Last(stack)) /\ Roomy(Last(stack))
    BY <1>3, <2>1 DEF Waiting, Calls, Last
  <2>3. Pending = Call(Last(stack))
    BY <1>5 DEF Pending
  <2> QED BY <1>3, <2>2, <2>3, CallPlaced, LayoutAssumption
<1> QED BY <1>4, <1>5

\* What every step keeps of the input.
LEMMA ConsumeType ==
  ASSUME TypeOK, NEW tok \in Tokens \cup Faults, consumed' = Append(consumed, tok)
  PROVE  consumed' \in Seq(Tokens \cup Faults)
BY DEF TypeOK

LEMMA HistoryType ==
  ASSUME TypeOK, NEW tok, Read(tok)
  PROVE  HistoryOK'
<1>1. tok \in Tokens /\ read' = Append(read, tok) /\ read \in Seq(Tokens \cup {Bracket})
  BY DEF Read, Consume, TypeOK
<1>2. consumed' \in Seq(Tokens \cup Faults)
  BY <1>1, ConsumeType DEF Read, Consume
<1> QED BY <1>1, <1>2 DEF HistoryOK

\* The memory of a state that satisfies the invariant.
LEMMA MemOK ==
  ASSUME IInv
  PROVE  /\ MemType(mem) /\ (pc # "undefined" => Safe(mem, lenient))
         /\ result \in ErrorCodes
         /\ lenient \subseteq {"mistyped", "noroom"}
         /\ TypeOK /\ HistoryOK
BY DEF IInv, TypeOK, MemType, CellsKeepTheirType, Safe, HistoryOK

LEMMA RejectStep ==
  ASSUME IInv, pc # "undefined", NEW err \in ErrorCodes, Reject(err), UNCHANGED lenient,
         HistoryOK'
  PROVE  IInv'
<1>1. MemType(mem') /\ Safe(mem', lenient') /\ lenient' \subseteq {"mistyped", "noroom"}
  BY MemOK DEF Reject
<1> QED BY <1>1, FailStep DEF Reject

LEMMA IgnoreStep ==
  ASSUME IInv, pc = "value", Ignore, UNCHANGED lenient,
         HistoryOK'
  PROVE  IInv'
<1>1. /\ MemType(mem) /\ Safe(mem, lenient') /\ result \in ErrorCodes
      /\ lenient' \subseteq {"mistyped", "noroom"}
  BY MemOK
<1> QED BY <1>1, PendingFits, ReturnStep DEF Ignore

\* Storing a value of the declared kind in the cell of the pending descriptor.
LEMMA StoreStep ==
  ASSUME IInv, pc = "value", Pending.desc # NULL,
         NEW kind, Declares(Pending.out + Desc[Pending.desc].value_offset, kind),
         NEW v \in Cell, v.kind = kind,
         StoreValue(v), UNCHANGED lenient, HistoryOK'
  PROVE  IInv'
<1> DEFINE a == Pending.out + Desc[Pending.desc].value_offset
<1>1. a \in Nat
  BY LayoutAssumption DEF Declares
<1>2. KeepsType(a, v)
  BY DEF KeepsType
<1>3. /\ MemType(mem) /\ Safe(mem, lenient') /\ result \in ErrorCodes
      /\ lenient' \subseteq {"mistyped", "noroom"}
  BY MemOK
<1>4. MemType(Store(mem, a, v))
  BY <1>1, <1>3, StoreType
<1>5. Safe(Store(mem, a, v), lenient')
  BY <1>2, <1>3, StoreSafe
<1>6. Return(stack, Store(mem, a, v))
  BY DEF StoreValue
<1> QED BY <1>3, <1>4, <1>5, <1>6, PendingFits, ReturnStep

\* The end of an array: its count goes where the descriptor declares it, or
\* it is the zero count of an array that is not described as one.
LEMMA EndArrayStep ==
  ASSUME IInv, pc # "undefined", NEW stk, Waiting(stk), NEW f, NEW count \in Nat,
         f.desc \in Descs \cup {NULL}, f.out \in Nat,
         f.desc # NULL => <<f.desc, f.out>> \in Places,
         f.desc # NULL /\ Desc[f.desc].type # "ARRAY" =>
           count = 0 /\ "mistyped" \in lenient',
         EndArray(stk, f, count),
         lenient \subseteq lenient', lenient' \subseteq {"mistyped", "noroom"},
         HistoryOK'
  PROVE  IInv'
<1> DEFINE a == f.out + Desc[f.desc].count_offset
           v == Value("size", count)
<1>1. MemType(mem) /\ Safe(mem, lenient') /\ result \in ErrorCodes
  BY MemOK DEF Safe
<1>2. CASE f.desc = NULL
  BY <1>1, <1>2, ReturnStep DEF EndArray
<1>3. CASE f.desc # NULL
  <2>1. a \in Nat /\ f.desc \in Descs /\ FitsAt(f.desc, f.out)
    BY <1>3, DescType, LayoutAssumption
  <2>2. v \in Cell /\ v.kind = "size"
    BY DEF Value, Cell
  <2>3. Return(stk, StoreAll(mem, Span(a), v))
    BY <1>3 DEF EndArray
  <2>4. CASE Desc[f.desc].type = "ARRAY"
    <3>1. KeepsType(a, v) /\ Span(a) = {a}
      BY <2>1, <2>2, <2>4 DEF FitsAt, KeepsType
    <3>2. Return(stk, Store(mem, a, v))
      BY <2>3, <3>1, StoreOne
    <3> HIDE DEF a, v
    <3> QED BY <1>1, <2>1, <2>2, <3>1, <3>2, StoreType, StoreSafe, ReturnStep
  <2>5. CASE Desc[f.desc].type # "ARRAY"
    <3>1. "mistyped" \in lenient' /\ v = Value("size", 0) /\ a = f.out
      BY <1>3, <2>1, <2>5, ZeroFilled
    <3>2. Span(a) \subseteq Nat
      BY <2>1, ReachAssumption DEF Span
    <3>3. \A c \in Span(a) : StrayCount(c, v)
      BY <1>3, <3>1 DEF StrayCount
    <3> HIDE DEF a, v
    <3>4. MemType(StoreAll(mem, Span(a), v))
      BY <1>1, <2>2, <3>2, StoreAllType
    <3>5. Safe(StoreAll(mem, Span(a), v), lenient')
      BY <1>1, <3>1, <3>3, StoreAllSafe
    <3> QED BY <1>1, <2>3, <3>4, <3>5, ReturnStep
  <2> QED BY <2>4, <2>5
<1> QED BY <1>2, <1>3

-----------------------------------------------------------------------------
(* Every action preserves the invariant.                                   *)

LEMMA NullStep ==
  ASSUME IInv, DecodeNull
  PROVE  IInv'
<1> DEFINE d == Pending.desc
           a == Pending.out + Desc[d].flags_offset
           v == Value("null", TRUE)
<1>1. pc = "value" /\ UNCHANGED lenient /\ HistoryOK'
  BY MemOK, HistoryType DEF DecodeNull, Take
<1>2. CASE Skipped /\ Ignore
  BY <1>1, <1>2, IgnoreStep
<1>3. CASE ~Expects({"NULL"}) /\ Nullable /\ Return(stack, Store(mem, a, v))
  <2>1. d # NULL /\ Desc[d].nullable
    BY <1>3 DEF Nullable
  <2>2. Declares(a, "null") /\ a \in Nat
    BY <1>1, <2>1, PendingFits, LayoutAssumption DEF FitsAt, Declares
  <2>3. v \in Cell /\ KeepsType(a, v)
    BY <2>2 DEF Value, Cell, KeepsType
  <2>4. /\ MemType(mem) /\ Safe(mem, lenient') /\ result \in ErrorCodes
        /\ lenient' \subseteq {"mistyped", "noroom"}
    BY <1>1, MemOK
  <2>5. MemType(Store(mem, a, v)) /\ Safe(Store(mem, a, v), lenient')
    BY <2>2, <2>3, <2>4, StoreType, StoreSafe
  <2> QED BY <1>1, <1>3, <2>4, <2>5, PendingFits, ReturnStep
<1>4. CASE Reject("TYPE_NOT_MATCH") \/ Reject("NOT_SUPPORT")
  BY <1>1, <1>4, RejectStep DEF ErrorCodes
<1> QED BY <1>2, <1>3, <1>4 DEF DecodeNull

\* A scalar descriptor declares the cell it describes.
LEMMA ScalarFits ==
  ASSUME IInv, pc = "value", NEW types, types \subseteq DOMAIN ScalarKind, Expects(types)
  PROVE  /\ Pending.desc # NULL /\ Desc[Pending.desc].type \in types
         /\ Declares(Pending.out + Desc[Pending.desc].value_offset,
                     ScalarKind[Desc[Pending.desc].type])
         /\ Pending.out + Desc[Pending.desc].value_offset \in Nat
BY PendingFits, LayoutAssumption DEF Expects, FitsAt, Declares

LEMMA BoolStep ==
  ASSUME IInv, DecodeBool
  PROVE  IInv'
<1>1. PICK tok \in Tokens :
        /\ Take({"t", "f"}, tok)
        /\ \/ Skipped /\ Ignore
           \/ Expects({"BOOL"}) /\ StoreValue(Value("bool", tok.type = "t"))
           \/ Reject("TYPE_NOT_MATCH")
  BY DEF DecodeBool
<1>2. pc = "value" /\ UNCHANGED lenient /\ HistoryOK'
  BY <1>1, MemOK, HistoryType DEF DecodeBool, Take
<1>3. CASE Skipped /\ Ignore
  BY <1>2, <1>3, IgnoreStep
<1>4. CASE Expects({"BOOL"}) /\ StoreValue(Value("bool", tok.type = "t"))
  <2>1. {"BOOL"} \subseteq DOMAIN ScalarKind /\ ScalarKind["BOOL"] = "bool"
    BY DEF ScalarKind
  <2>2. /\ Pending.desc # NULL
        /\ Declares(Pending.out + Desc[Pending.desc].value_offset, "bool")
    BY <1>2, <1>4, <2>1, ScalarFits
  <2>3. (tok.type = "t") \in BOOLEAN
    OBVIOUS
  <2>4. Value("bool", tok.type = "t") \in Cell /\ Value("bool", tok.type = "t").kind = "bool"
    BY <2>3 DEF Value, Cell
  <2> QED BY <1>2, <1>4, <2>2, <2>4, StoreStep
<1>5. CASE Reject("TYPE_NOT_MATCH")
  BY <1>2, <1>5, RejectStep DEF ErrorCodes
<1> QED BY <1>1, <1>3, <1>4, <1>5

LEMMA StringStep ==
  ASSUME IInv, DecodeString
  PROVE  IInv'
<1> DEFINE cap == Desc[Pending.desc].string_capacity
           a == Pending.out + Desc[Pending.desc].value_offset
<1>1. PICK tok \in Tokens :
        /\ Take({"s"}, tok)
        /\ \/ Skipped /\ Ignore
           \/ Reject("TYPE_NOT_MATCH")
           \/ Expects({"CSTR"}) /\ StoreValue(Value("cstr", tok.text))
           \/ /\ Expects({"CSTR"}) /\ Len(tok.text) >= cap
              /\ Fail("INSUFFICIENT_SPACE") /\ mem' = Torn(tok.text, cap)
  BY DEF DecodeString
<1>2. pc = "value" /\ UNCHANGED lenient /\ HistoryOK'
  BY <1>1, MemOK, HistoryType DEF DecodeString, Take
<1>3. tok.text \in Seq(STRING)
  BY InputAssumption DEF TokenType
<1>4. {"CSTR"} \subseteq DOMAIN ScalarKind /\ ScalarKind["CSTR"] = "cstr"
  BY DEF ScalarKind
<1>5. CASE Skipped /\ Ignore
  BY <1>2, <1>5, IgnoreStep
<1>6. CASE Reject("TYPE_NOT_MATCH")
  BY <1>2, <1>6, RejectStep DEF ErrorCodes
<1>7. CASE Expects({"CSTR"}) /\ StoreValue(Value("cstr", tok.text))
  <2>1. Pending.desc # NULL /\ Declares(a, "cstr")
    BY <1>2, <1>4, <1>7, ScalarFits
  <2>2. Value("cstr", tok.text) \in Cell /\ Value("cstr", tok.text).kind = "cstr"
    BY <1>3 DEF Value, Cell
  <2> QED BY <1>2, <1>7, <2>1, <2>2, StoreStep
<1>8. CASE /\ Expects({"CSTR"}) /\ Len(tok.text) >= cap
           /\ Fail("INSUFFICIENT_SPACE") /\ mem' = Torn(tok.text, cap)
  <2>1. Pending.desc # NULL /\ Declares(a, "cstr") /\ a \in Nat
    BY <1>2, <1>4, <1>8, ScalarFits
  <2>2. /\ MemType(mem) /\ Safe(mem, lenient')
        /\ lenient' \subseteq {"mistyped", "noroom"}
    BY <1>2, MemOK
  <2>3. CASE cap <= 1
    <3>1. mem' = mem
      BY <1>8, <2>3 DEF Torn
    <3> QED BY <1>2, <1>8, <2>2, <3>1, FailStep DEF ErrorCodes
  <2>4. CASE ~(cap <= 1)
    <3> DEFINE v == Value("torn", SubSeq(tok.text, 1, cap - 1))
    <3>1. mem' = Store(mem, a, v)
      BY <1>8, <2>4 DEF Torn
    <3>2. cap \in Nat
      BY <1>2, <2>1, PendingFits, DescType
    <3>3. \A i \in 1 .. cap - 1 : tok.text[i] \in STRING
      BY <1>3, <1>8, <3>2
    <3>4. SubSeq(tok.text, 1, cap - 1) \in Seq(STRING)
      BY <3>2, <3>3, SubSeqProperties
    <3>5. v \in Cell /\ v.kind = "torn"
      BY <3>4 DEF Value, Cell
    <3>6. KeepsType(a, v)
      BY <2>1, <3>5 DEF KeepsType
    <3>7. MemType(mem') /\ Safe(mem', lenient')
      BY <2>1, <2>2, <3>1, <3>5, <3>6, StoreType, StoreSafe
    <3> QED BY <1>2, <1>8, <2>2, <3>7, FailStep DEF ErrorCodes
  <2> QED BY <2>3, <2>4
<1> QED BY <1>1, <1>5, <1>6, <1>7, <1>8

\* The numbers stored are integers, whatever the width of the C types.
LEMMA NumberType ==
  ASSUME NEW type \in NumberTypes, NEW tok \in Tokens
  PROVE  Number(type, tok) \in Cell /\ Number(type, tok).kind = ScalarKind[type]
<1>1. tok.num \in Int /\ tok.real \in Int
  BY InputAssumption DEF TokenType
<1>2. Saturate(tok.num) \in Int
  BY <1>1, InputAssumption DEF Saturate
<1>3. ToInt(Saturate(tok.num)) \in Int
  <2>1. 2 * IntMax + 2 \in Nat \ {0}
    BY InputAssumption
  <2>2. (Saturate(tok.num) + IntMax + 1) % (2 * IntMax + 2) \in Int
    BY <1>2, <2>1, InputAssumption
  <2> QED BY <2>2, InputAssumption DEF ToInt
<1>4. CASE type = "INT"
  <2>1. Number(type, tok) = Value("int", ToInt(Saturate(tok.num)))
    BY <1>4 DEF Number
  <2> QED BY <1>3, <1>4, <2>1 DEF Value, Cell, ScalarKind
<1>5. CASE type = "INT64"
  <2>1. Number(type, tok) = Value("int64", Saturate(tok.num))
    BY <1>5 DEF Number
  <2> QED BY <1>2, <1>5, <2>1 DEF Value, Cell, ScalarKind
<1>6. CASE type = "DOUBLE"
  <2>1. Number(type, tok) = Value("double", tok.real)
    BY <1>6 DEF Number
  <2> QED BY <1>1, <1>6, <2>1 DEF Value, Cell, ScalarKind
<1> QED BY <1>4, <1>5, <1>6 DEF NumberTypes

LEMMA NumberStep ==
  ASSUME IInv, DecodeNumber
  PROVE  IInv'
<1> DEFINE type == Desc[Pending.desc].type
<1>1. PICK tok \in Tokens :
        /\ Take({"0"}, tok)
        /\ \/ Skipped /\ Ignore
           \/ Reject("TYPE_NOT_MATCH")
           \/ Reject("OVERFLOW")
           \/ Expects(NumberTypes) /\ StoreValue(Number(type, tok))
  BY DEF DecodeNumber
<1>2. pc = "value" /\ UNCHANGED lenient /\ HistoryOK'
  BY <1>1, MemOK, HistoryType DEF DecodeNumber, Take
<1>3. CASE Skipped /\ Ignore
  BY <1>2, <1>3, IgnoreStep
<1>4. CASE Reject("TYPE_NOT_MATCH") \/ Reject("OVERFLOW")
  BY <1>2, <1>4, RejectStep DEF ErrorCodes
<1>5. CASE Expects(NumberTypes) /\ StoreValue(Number(type, tok))
  <2>1. NumberTypes \subseteq DOMAIN ScalarKind
    BY DEF ScalarKind, NumberTypes
  <2>2. /\ Pending.desc # NULL /\ type \in NumberTypes
        /\ Declares(Pending.out + Desc[Pending.desc].value_offset, ScalarKind[type])
    BY <1>2, <1>5, <2>1, ScalarFits
  <2>3. Number(type, tok) \in Cell /\ Number(type, tok).kind = ScalarKind[type]
    BY <2>2, NumberType
  <2> QED BY <1>2, <1>5, <2>2, <2>3, StoreStep
<1> QED BY <1>1, <1>3, <1>4, <1>5

LEMMA RefuseStep ==
  ASSUME IInv, RefuseToken
  PROVE  IInv'
<1>1. pc = "value" /\ HistoryOK'
  BY MemOK, HistoryType DEF RefuseToken, Take
<1> QED BY <1>1, RejectStep DEF RefuseToken, ErrorCodes

LEMMA LexErrorStep ==
  ASSUME IInv, LexError
  PROVE  IInv'
<1>1. PICK fault \in Faults : consumed' = Append(consumed, fault) /\ Reject(fault.err)
  BY DEF LexError
<1>2. consumed' \in Seq(Tokens \cup Faults) /\ fault.err \in ErrorCodes
  BY <1>1, MemOK, ConsumeType DEF Faults, ErrorCodes
<1>3. pc # "undefined" /\ UNCHANGED <<read, lenient>>
  BY DEF LexError, Stopped
<1>4. HistoryOK'
  BY <1>2, <1>3, MemOK DEF HistoryOK
<1> QED BY <1>1, <1>2, <1>3, <1>4, RejectStep

\* Entering decode_object or decode_array.
LEMMA PushStep ==
  ASSUME IInv, pc = "value",
         NEW f, FrameOK(f), Roomy(f), f.desc = Pending.desc,
         stack' = Append(stack, f),
         pc' \in {"key", "value"}, pc' = "key" => f.kind = "object",
         UNCHANGED <<mem, result>>,
         lenient \subseteq lenient', lenient' \subseteq {"mistyped", "noroom"},
         HistoryOK'
  PROVE  IInv'
<1>1. stack \in Seq(Frames) /\ Waiting(stack)
  BY PendingFits DEF Waiting, Calls
<1>2. Calls(stack')
  BY <1>1, PendingFits, Push
<1>3. /\ stack' \in Seq(Frames) /\ stack' # << >> /\ Last(stack') = f
      /\ \A i \in DOMAIN stack' : stack'[i] = f \/ (i \in DOMAIN stack /\ stack'[i] = stack[i])
  BY <1>1 DEF FrameOK, Last
<1>4. \A i \in DOMAIN stack' : Roomy(stack'[i])
  BY <1>1, <1>3 DEF Waiting
<1>5. ArrayBound'
  BY <1>4 DEF ArrayBound, InBounds, Roomy
<1>6. CellsKeepTheirType'
  BY DEF IInv, CellsKeepTheirType
<1>7. TypeOK'
  BY <1>3, MemOK DEF TypeOK, HistoryOK
<1>8. Shape'
  BY <1>3 DEF Shape
<1> QED BY <1>2, <1>5, <1>6, <1>7, <1>8 DEF IInv

\* A frame for the pending call.
LEMMA NewFrameOK ==
  ASSUME IInv, pc = "value", NEW kind \in {"object", "array"}
  PROVE  LET f == NewFrame(kind) IN
         /\ f.kind = kind /\ f.desc = Pending.desc /\ f.out = Pending.out
         /\ f.desc \in Descs \cup {NULL} /\ f.out \in Nat /\ f.count = 0
         /\ f.desc # NULL => <<f.desc, f.out>> \in Places
         /\ (f.kind = "array" /\ f.desc # NULL => Desc[f.desc].capacity > 0)
              => FrameOK(f) /\ Roomy(f)
<1> DEFINE f == NewFrame(kind)
<1>1. /\ f.kind = kind /\ f.desc = Pending.desc /\ f.out = Pending.out
      /\ f.count = 0 /\ f.attr = 0
  BY DEF NewFrame
<1>2. /\ f.desc \in Descs \cup {NULL} /\ f.out \in Nat
      /\ f.desc # NULL => <<f.desc, f.out>> \in Places
  BY <1>1, PendingFits
<1>3. f \in Frames
  BY <1>2 DEF NewFrame, Frames
<1>4. 0 \in 0 .. Len(Attrs(f.desc))
  BY <1>2, AttrsType
<1> QED BY <1>1, <1>2, <1>3, <1>4 DEF FrameOK, Roomy

LEMMA OpenObjectStep ==
  ASSUME IInv, OpenObject
  PROVE  IInv'
<1> DEFINE f == NewFrame("object")
<1>1. /\ pc = "value" /\ pc' = "key" /\ stack' = Append(stack, f)
      /\ UNCHANGED <<mem, result>>
      /\ HistoryOK'
      /\ lenient' = Mistyped("OBJECT")
  BY MemOK, HistoryType DEF OpenObject, Take
<1>2. lenient \subseteq lenient' /\ lenient' \subseteq {"mistyped", "noroom"}
  BY <1>1, MemOK DEF Mistyped
<1>3. f.kind = "object" /\ f.desc = Pending.desc /\ FrameOK(f) /\ Roomy(f)
  BY <1>1, NewFrameOK
<1> HIDE DEF f
<1> QED BY <1>1, <1>2, <1>3, PushStep

LEMMA OpenArrayStep ==
  ASSUME IInv, OpenArray
  PROVE  IInv'
<1> DEFINE f == NewFrame("array")
<1>1. /\ pc = "value"
      /\ HistoryOK'
      /\ Mistyped("ARRAY") \subseteq lenient'
      /\ lenient' \subseteq {"mistyped", "noroom"}
      /\ lenient \subseteq lenient'
  <2>1. PICK tok :
          /\ pc = "value" /\ Consume(tok)
          /\ read' \in {Append(read, tok), Append(Append(read, tok), Bracket)}
          /\ lenient' \in {Mistyped("ARRAY"), Mistyped("ARRAY") \cup {"noroom"}}
    BY DEF OpenArray
  <2>2. tok \in Tokens /\ consumed' \in Seq(Tokens \cup Faults)
    BY <2>1, MemOK, ConsumeType DEF Consume
  <2>3. read' \in Seq(Tokens \cup {Bracket})
    <3> DEFINE S == Tokens \cup {Bracket}
    <3>1. read \in Seq(S) /\ tok \in S /\ Bracket \in S
      BY <2>2, MemOK DEF HistoryOK
    <3> HIDE DEF S
    <3>2. Append(read, tok) \in Seq(S)
      BY <3>1
    <3>3. Append(Append(read, tok), Bracket) \in Seq(S)
      BY <3>1, <3>2
    <3> QED BY <2>1, <3>2, <3>3 DEF S
  <2> QED BY <2>1, <2>2, <2>3, MemOK DEF HistoryOK, Mistyped
<1>2. /\ f.kind = "array" /\ f.desc = Pending.desc /\ f.count = 0
      /\ f.desc \in Descs \cup {NULL} /\ f.out \in Nat
      /\ f.desc # NULL => <<f.desc, f.out>> \in Places
      /\ (f.desc # NULL => Desc[f.desc].capacity > 0) => FrameOK(f) /\ Roomy(f)
  BY <1>1, NewFrameOK
<1>3. \/ /\ ~Full(f, 0) /\ pc' = "value" /\ stack' = Append(stack, f)
         /\ UNCHANGED <<mem, result>>
      \/ EndArray(stack, f, 0)
  BY DEF OpenArray
<1>4. f.desc # NULL /\ Desc[f.desc].type # "ARRAY" => "mistyped" \in lenient'
  BY <1>1, <1>2 DEF Mistyped, Skipped, Expects
<1> HIDE DEF f
<1>5. CASE /\ ~Full(f, 0) /\ pc' = "value" /\ stack' = Append(stack, f)
           /\ UNCHANGED <<mem, result>>
  <2>1. FrameOK(f) /\ Roomy(f)
    BY <1>2, <1>5, DescType DEF Full
  <2> QED BY <1>1, <1>2, <1>5, <2>1, PushStep
<1>6. CASE EndArray(stack, f, 0)
  <2>1. Waiting(stack)
    BY <1>1, PendingFits
  <2> QED BY <1>1, <1>2, <1>4, <1>6, <2>1, EndArrayStep
<1> QED BY <1>3, <1>5, <1>6

\* decode_object goes on to its colon, its value or its next key.
LEMMA TopStep ==
  ASSUME IInv, stack # << >>, Last(stack).kind = "object",
         NEW g, FrameOK(g), g.kind = Last(stack).kind, g.desc = Last(stack).desc,
         stack' = Replaced(stack, g),
         pc # "undefined", pc' \in {"key", "colon", "value"},
         UNCHANGED <<mem, result, lenient>>,
         HistoryOK'
  PROVE  IInv'
<1>1. Calls(stack) /\ stack \in Seq(Frames)
  BY DEF IInv, Calls
<1>2. LET t == Replaced(stack, g) IN
      /\ Calls(t)
      /\ t # << >> /\ Len(t) = Len(stack) /\ Last(t) = g
      /\ \A i \in 1 .. Len(stack) - 1 : t[i] = stack[i]
  BY <1>1, ReplaceTop
<1>3. /\ Calls(stack') /\ stack' # << >> /\ Len(stack') = Len(stack)
      /\ Last(stack') = g /\ stack' \in Seq(Frames)
      /\ \A i \in 1 .. Len(stack) - 1 : stack'[i] = stack[i]
  BY <1>2 DEF Calls
<1>4. ArrayBound'
  <2> SUFFICES ASSUME NEW i \in DOMAIN stack', stack'[i].kind = "array",
                      stack'[i].desc # NULL
               PROVE  stack'[i].count < Desc[stack'[i].desc].capacity
    BY DEF ArrayBound, InBounds
  <2>1. i # Len(stack)
    BY <1>3 DEF Last
  <2>2. i \in DOMAIN stack /\ i # Len(stack) /\ stack'[i] = stack[i]
    BY <1>1, <1>3, <2>1
  <2> QED BY <2>2 DEF IInv, ArrayBound, InBounds
<1>5. CellsKeepTheirType'
  BY DEF IInv, CellsKeepTheirType
<1>6. TypeOK'
  BY <1>3, MemOK DEF TypeOK, HistoryOK
<1>7. Shape'
  BY <1>3 DEF Shape
<1> QED BY <1>3, <1>4, <1>5, <1>6, <1>7 DEF IInv

LEMMA ObjectKeyStep ==
  ASSUME IInv, ObjectKey
  PROVE  IInv'
<1> DEFINE f == Last(stack)
<1>1. PICK tok \in Tokens :
        /\ Read(tok)
        /\ \/ /\ pc' = "colon" /\ UNCHANGED <<mem, result>>
              /\ stack' = [stack EXCEPT ![Len(stack)].key = tok.text]
           \/ Reject("INVALID_JSON")
  BY DEF ObjectKey
<1>2. pc = "key" /\ UNCHANGED lenient /\ HistoryOK'
  BY <1>1, MemOK, HistoryType DEF ObjectKey
<1>3. CASE /\ pc' = "colon" /\ UNCHANGED <<mem, result>>
           /\ stack' = [stack EXCEPT ![Len(stack)].key = tok.text]
  <2> DEFINE g == [f EXCEPT !.key = tok.text]
  <2>1. stack \in Seq(Frames) /\ stack # << >> /\ f.kind = "object"
    BY <1>2 DEF IInv, Calls, Shape
  <2>2. Len(stack) \in DOMAIN stack /\ f = stack[Len(stack)]
    BY <2>1 DEF Last
  <2>3. FrameOK(f) /\ f \in Frames
    BY <2>2 DEF IInv, Calls, FrameOK
  <2>4. stack' = Replaced(stack, g)
    BY <1>3, <2>1, <2>2 DEF Replaced
  <2>5. tok.text \in Seq(STRING)
    BY InputAssumption DEF TokenType
  <2>6. FrameOK(g) /\ g.kind = f.kind /\ g.desc = f.desc
    BY <2>3, <2>5 DEF FrameOK, Frames
  <2> HIDE DEF g
  <2> QED BY <1>2, <1>3, <2>1, <2>4, <2>6, TopStep
<1>4. CASE Reject("INVALID_JSON")
  BY <1>2, <1>4, RejectStep DEF ErrorCodes
<1> QED BY <1>1, <1>3, <1>4

\* The table is none: whatever is stored then, nothing more is known of it.
LEMMA AstrayStep ==
  ASSUME IInv, pc = "colon", Astray, UNCHANGED lenient, HistoryOK'
  PROVE  IInv'
<1>1. pc' = "undefined" /\ UNCHANGED <<stack, result>>
  BY DEF Astray
<1>2. MemType(mem')
  <2>1. CASE mem' = mem
    BY <2>1, MemOK
  <2>2. CASE \E w \in Wild : mem' = Store(mem, w[1], w[2])
    BY <2>2, MemOK, ReachAssumption, StoreType
  <2> QED BY <2>1, <2>2 DEF Astray
<1>3. TypeOK'
  BY <1>1, <1>2, MemOK DEF TypeOK, MemType, Stopped, HistoryOK
<1>4. ArrayBound'
  BY <1>1 DEF IInv, ArrayBound, InBounds
<1>5. CellsKeepTheirType' /\ Shape' /\ Calls(stack')
  BY <1>1 DEF IInv, CellsKeepTheirType, Shape
<1> QED BY <1>3, <1>4, <1>5 DEF IInv

LEMMA ObjectColonStep ==
  ASSUME IInv, ObjectColon
  PROVE  IInv'
<1> DEFINE f == Last(stack)
<1>1. /\ pc = "colon" /\ UNCHANGED lenient /\ HistoryOK'
      /\ LookUp(f) \/ Astray \/ Reject("INVALID_JSON")
  BY MemOK, HistoryType DEF ObjectColon
<1>2. CASE LookUp(f)
  <2> DEFINE found == Find(Attrs(f.desc), f.key)
  <2>1. stack \in Seq(Frames) /\ stack # << >> /\ f.kind = "object"
    BY <1>1 DEF IInv, Calls, Shape
  <2>2. Len(stack) \in DOMAIN stack /\ f = stack[Len(stack)]
    BY <2>1 DEF Last
  <2>3. FrameOK(f) /\ f \in Frames /\ f.desc \in Descs \cup {NULL}
    BY <2>2 DEF IInv, Calls, FrameOK, Frames
  <2>4. found \in 0 .. Len(Attrs(f.desc)) /\ found \in Nat
    <3>1. Attrs(f.desc) \in Seq(AttrOver(Descs))
      BY <2>3, AttrsType
    <3>2. Len(Attrs(f.desc)) \in Nat /\ DOMAIN Attrs(f.desc) = 1 .. Len(Attrs(f.desc))
      BY <3>1
    <3>3. found \in 0 .. Len(Attrs(f.desc))
      BY <3>2, FindInTable
    <3> QED BY <3>2, <3>3
  <2> DEFINE g == [f EXCEPT !.attr = found, !.key = << >>]
  <2> HIDE DEF found
  <2>5. stack' = Replaced(stack, g)
    BY <1>2, <2>1, <2>2, <2>3 DEF LookUp, Replaced, found, Frames
  <2>6. FrameOK(g) /\ g.kind = f.kind /\ g.desc = f.desc
    <3>1. /\ g.kind = f.kind /\ g.desc = f.desc /\ g.out = f.out
          /\ g.attr = found /\ g.count = f.count
      BY <2>3 DEF Frames
    <3>2. << >> \in Seq(STRING)
      OBVIOUS
    <3>3. g \in Frames
      BY <2>3, <2>4, <3>2 DEF Frames
    <3> HIDE DEF g
    <3> QED BY <2>3, <2>4, <3>1, <3>3 DEF FrameOK
  <2> HIDE DEF g
  <2>7. pc' = "value" /\ UNCHANGED <<mem, result>>
    BY <1>2 DEF LookUp
  <2> QED BY <1>1, <2>1, <2>5, <2>6, <2>7, TopStep
<1>3. CASE Reject("INVALID_JSON")
  BY <1>1, <1>3, RejectStep DEF ErrorCodes
<1>4. CASE Astray
  BY <1>1, <1>4, AstrayStep
<1> QED BY <1>1, <1>2, <1>3, <1>4

\* The calls below a returning one all wait for a value.
LEMMA Below ==
  ASSUME IInv, stack # << >>
  PROVE  /\ \A i \in 1 .. Len(stack) - 1 : Roomy(stack[i])
         /\ Waiting(Front(stack))
         /\ Last(stack) \in Frames /\ FrameOK(Last(stack))
         /\ Last(stack).count \in Nat
<1>1. Calls(stack) /\ stack \in Seq(Frames) /\ Len(stack) \in DOMAIN stack
  BY DEF IInv, Calls
<1>2. \A i \in 1 .. Len(stack) - 1 : Roomy(stack[i])
  BY <1>1 DEF IInv, ArrayBound, InBounds, Roomy
<1>3. Waiting(Front(stack))
  BY <1>1, <1>2, Pop
<1>4. Last(stack) \in Frames /\ FrameOK(Last(stack))
  BY <1>1 DEF Calls, Last
<1> QED BY <1>2, <1>3, <1>4 DEF Frames

LEMMA ObjectNextStep ==
  ASSUME IInv, ObjectNext
  PROVE  IInv'
<1>1. /\ pc = "next" /\ Last(stack).kind = "object" /\ stack # << >>
      /\ UNCHANGED lenient /\ HistoryOK'
      /\ \/ pc' = "key" /\ UNCHANGED <<stack, mem, result>>
         \/ Return(Front(stack), mem)
         \/ Reject("INVALID_JSON")
  BY MemOK, HistoryType DEF ObjectNext, IInv, Shape
<1>2. CASE pc' = "key" /\ UNCHANGED <<stack, mem, result>>
  <2>1. Calls(stack')
    BY <1>2 DEF IInv
  <2>2. TypeOK'
    BY <1>1, <1>2 DEF IInv, TypeOK, HistoryOK
  <2>3. ArrayBound'
    <3> SUFFICES ASSUME NEW i \in DOMAIN stack, stack[i].kind = "array",
                        stack[i].desc # NULL
                 PROVE  stack[i].count < Desc[stack[i].desc].capacity
      BY <1>2 DEF ArrayBound, InBounds
    <3>1. i # Len(stack)
      BY <1>1 DEF Last
    <3> QED BY <3>1 DEF IInv, ArrayBound, InBounds
  <2>4. CellsKeepTheirType' /\ Shape'
    BY <1>1, <1>2 DEF IInv, CellsKeepTheirType, Shape
  <2> QED BY <2>1, <2>2, <2>3, <2>4 DEF IInv
<1>3. CASE Return(Front(stack), mem)
  <2>1. /\ MemType(mem) /\ Safe(mem, lenient') /\ result \in ErrorCodes
        /\ lenient' \subseteq {"mistyped", "noroom"}
    BY <1>1, MemOK
  <2>2. Waiting(Front(stack))
    BY <1>1, Below
  <2> QED BY <1>1, <1>3, <2>1, <2>2, ReturnStep
<1>4. CASE Reject("INVALID_JSON")
  BY <1>1, <1>4, RejectStep DEF ErrorCodes
<1> QED BY <1>1, <1>2, <1>3, <1>4

LEMMA ArrayNextStep ==
  ASSUME IInv, ArrayNext
  PROVE  IInv'
<1> DEFINE f == Last(stack)
<1>1. /\ pc = "next" /\ f.kind = "array" /\ stack # << >>
      /\ HistoryOK' /\ UNCHANGED lenient
      /\ \/ /\ ~Full(f, f.count) /\ pc' = "value"
            /\ UNCHANGED <<stack, mem, result>>
         \/ EndArray(Front(stack), f, f.count)
         \/ Reject("INVALID_JSON")
  <2>1. /\ pc = "next" /\ f.kind = "array" /\ stack # << >> /\ UNCHANGED lenient
        /\ \/ /\ ~Full(f, f.count) /\ pc' = "value"
              /\ UNCHANGED <<stack, mem, result>>
           \/ EndArray(Front(stack), f, f.count)
           \/ Reject("INVALID_JSON")
    BY DEF ArrayNext, IInv, Shape
  <2>2. PICK tok : Consume(tok) /\ read' \in {Append(read, tok), Append(read, Bracket)}
    BY DEF ArrayNext
  <2>3. tok \in Tokens /\ consumed' \in Seq(Tokens \cup Faults)
    BY <2>2, MemOK, ConsumeType DEF Consume
  <2>4. read' \in Seq(Tokens \cup {Bracket})
    BY <2>2, <2>3, MemOK DEF HistoryOK
  <2> QED BY <2>1, <2>3, <2>4 DEF HistoryOK
<1>2. /\ FrameOK(f) /\ f \in Frames /\ f.count \in Nat
      /\ Waiting(Front(stack)) /\ \A i \in 1 .. Len(stack) - 1 : Roomy(stack[i])
  BY <1>1, Below
<1>3. f.desc \in Descs \cup {NULL} /\ f.out \in Nat
      /\ (f.desc # NULL => <<f.desc, f.out>> \in Places)
      /\ (f.desc # NULL => Desc[f.desc].type = "ARRAY")
  BY <1>1, <1>2, ZeroFilled DEF FrameOK, Frames
<1>4. CASE /\ ~Full(f, f.count) /\ pc' = "value"
           /\ UNCHANGED <<stack, mem, result>>
  <2>1. Calls(stack') /\ stack \in Seq(Frames)
    BY <1>4 DEF IInv, Calls
  <2>2. TypeOK'
    BY <1>1, <1>4 DEF IInv, TypeOK, HistoryOK
  <2>3. ArrayBound'
    <3>1. Roomy(f)
      BY <1>2, <1>3, <1>4, DescType DEF Full, Roomy
    <3>2. \A i \in DOMAIN stack : Roomy(stack[i])
      BY <1>2, <2>1, <3>1 DEF Last
    <3> QED BY <1>4, <3>2 DEF ArrayBound, InBounds, Roomy
  <2>4. CellsKeepTheirType' /\ Shape'
    BY <1>1, <1>4 DEF IInv, CellsKeepTheirType, Shape
  <2> QED BY <2>1, <2>2, <2>3, <2>4 DEF IInv
<1>5. CASE EndArray(Front(stack), f, f.count)
  <2>1. lenient \subseteq lenient' /\ lenient' \subseteq {"mistyped", "noroom"}
    BY <1>1, MemOK
  <2> HIDE DEF f
  <2> QED BY <1>1, <1>2, <1>3, <1>5, <2>1, EndArrayStep
<1>6. CASE Reject("INVALID_JSON")
  BY <1>1, <1>6, RejectStep DEF ErrorCodes
<1> QED BY <1>1, <1>4, <1>5, <1>6

-----------------------------------------------------------------------------
(* The theorems.                                                           *)

LEMMA InitInv == Init => IInv
<1> SUFFICES ASSUME Init PROVE IInv
  OBVIOUS
<1>1. TypeOK
  BY DEF Init, TypeOK, ErrorCodes
<1>2. ArrayBound /\ CellsKeepTheirType /\ Shape
  BY DEF Init, ArrayBound, CellsKeepTheirType, Shape
<1>3. Calls(stack)
  BY DEF Init, Calls, SkipClosed, Linked
<1> QED BY <1>1, <1>2, <1>3 DEF IInv

LEMMA NextInv == IInv /\ [Next]_vars => IInv'
<1> SUFFICES ASSUME IInv, [Next]_vars PROVE IInv'
  OBVIOUS
<1>1. CASE UNCHANGED vars
  BY <1>1 DEF vars, IInv, TypeOK, ArrayBound, InBounds, CellsKeepTheirType, Shape
<1>2. CASE DecodeNull
  BY <1>2, NullStep
<1>3. CASE DecodeBool
  BY <1>3, BoolStep
<1>4. CASE DecodeString
  BY <1>4, StringStep
<1>5. CASE DecodeNumber
  BY <1>5, NumberStep
<1>6. CASE RefuseToken
  BY <1>6, RefuseStep
<1>7. CASE OpenObject
  BY <1>7, OpenObjectStep
<1>8. CASE OpenArray
  BY <1>8, OpenArrayStep
<1>9. CASE ObjectKey
  BY <1>9, ObjectKeyStep
<1>10. CASE ObjectColon
  BY <1>10, ObjectColonStep
<1>11. CASE ObjectNext
  BY <1>11, ObjectNextStep
<1>12. CASE ArrayNext
  BY <1>12, ArrayNextStep
<1>13. CASE LexError
  BY <1>13, LexErrorStep
<1>14. CASE Terminated
  BY <1>1, <1>14 DEF Terminated
<1> QED BY <1>1, <1>2, <1>3, <1>4, <1>5, <1>6, <1>7, <1>8, <1>9, <1>10, <1>11,
           <1>12, <1>13, <1>14 DEF Next

\* Every reachable state of the decoder satisfies the inductive invariant.
THEOREM Invariance == Spec => []IInv
BY InitInv, NextInv, PTL DEF Spec

\* The state of the decoder keeps its shape: in particular the memory only
\* ever holds values of the C types decode_value stores.
THEOREM TypeCorrect == Spec => []TypeOK
<1>1. IInv => TypeOK
  BY DEF IInv
<1> QED BY <1>1, Invariance, PTL

\* decode_array never decodes an element into a slot the array does not have,
\* for every capacity, every nesting and every input.
THEOREM ArraysStayInBounds == Spec => []ArrayBound
<1>1. IInv => ArrayBound
  BY DEF IInv
<1> QED BY <1>1, Invariance, PTL

\* When the descriptors fit the structure, bo_json_decode writes nothing but
\* the cells they declare and only values of the declared types, but for the
\* zero count of a JSON array where no array is described; until it looks a key
\* up in the descriptor of an array, which it does when the input has an object
\* there, and of what it writes then nothing is said.
THEOREM MemorySafety == Spec => []CellsKeepTheirType
<1>1. IInv => CellsKeepTheirType
  BY DEF IInv
<1> QED BY <1>1, Invariance, PTL

\* Returning to a caller that does not note an attribute stores nothing more.
LEMMA QuietReturn ==
  ASSUME NEW stk, NEW m, Return(stk, m),
         stk # << >> /\ Last(stk).kind = "object" => Last(stk).attr = 0
  PROVE  mem' = m
BY DEF Return

\* Inside a skipped member the innermost call is skipped too, and so is the
\* value it waits for.
LEMMA SkippingTop ==
  ASSUME IInv, Skipping
  PROVE  /\ stack # << >> => Last(stack).desc = NULL \/ pc = "value"
         /\ pc = "value" =>
              /\ Skipped
              /\ stack # << >> /\ Last(stack).kind = "object" => Last(stack).attr = 0
<1>1. Calls(stack) /\ stack \in Seq(Frames)
  BY DEF IInv, Calls
<1>2. ASSUME NEW i \in DOMAIN stack, stack[i].desc = NULL
      PROVE  stack # << >> /\ Last(stack).desc = NULL
  <2>1. Len(stack) \in DOMAIN stack /\ stack # << >> /\ i <= Len(stack)
    BY <1>1
  <2> QED BY <1>1, <1>2, <2>1 DEF Calls, SkipClosed, Last
<1>3. ASSUME pc = "value" PROVE Skipped
  <2>1. CASE \E i \in DOMAIN stack : stack[i].desc = NULL
    <3>1. stack # << >> /\ Last(stack).desc = NULL
      BY <1>2, <2>1
    <3>2. FrameOK(Last(stack)) /\ Roomy(Last(stack)) /\ Pending = Call(Last(stack))
      BY <1>1, <1>3, <3>1, PendingFits DEF Waiting, Calls, Last
    <3> QED BY <3>1, <3>2, CallPlaced DEF Skipped
  <2> QED BY <2>1 DEF Skipping
<1>4. ASSUME pc = "value", stack # << >>, Last(stack).kind = "object"
      PROVE  Last(stack).attr = 0
  <2>1. FrameOK(Last(stack)) /\ Roomy(Last(stack)) /\ Pending = Call(Last(stack))
    BY <1>1, <1>4, PendingFits DEF Waiting, Calls, Last
  <2>2. Call(Last(stack)).desc = NULL
    BY <1>3, <1>4, <2>1 DEF Skipped
  <2> QED BY <1>4, <2>1, <2>2, CallPlaced
<1>5. stack # << >> => Last(stack).desc = NULL \/ pc = "value"
  BY <1>2 DEF Skipping
<1> QED BY <1>3, <1>4, <1>5

\* A value that is skipped is not stored, nor is anything noted about it.
LEMMA SkippedValue ==
  ASSUME IInv, Skipping, pc = "value", Next
  PROVE  mem' = mem
<1>1. /\ Skipped
      /\ stack # << >> /\ Last(stack).kind = "object" => Last(stack).attr = 0
  BY SkippingTop
<1>2. ~Nullable /\ \A types : ~Expects(types)
  BY <1>1 DEF Skipped, Nullable, Expects
<1>3. CASE DecodeNull \/ DecodeBool \/ DecodeString \/ DecodeNumber
  <2>1. Ignore
    BY <1>1, <1>2, <1>3 DEF DecodeNull, DecodeBool, DecodeString, DecodeNumber
  <2> QED BY <1>1, <2>1, QuietReturn DEF Ignore
<1>4. CASE RefuseToken \/ LexError
  BY <1>4 DEF RefuseToken, LexError, Reject
<1>5. CASE OpenObject
  BY <1>5 DEF OpenObject
<1>6. CASE OpenArray
  <2>1. NewFrame("array").desc = NULL
    BY <1>1 DEF NewFrame, Skipped
  <2>2. CASE EndArray(stack, NewFrame("array"), 0)
    BY <1>1, <2>1, <2>2, QuietReturn DEF EndArray
  <2> QED BY <1>6, <2>2 DEF OpenArray
<1>7. CASE ObjectKey \/ ObjectColon \/ ObjectNext \/ ArrayNext \/ Terminated
  BY <1>7 DEF ObjectKey, ObjectColon, ObjectNext, ArrayNext, Terminated, Stopped
<1> QED BY <1>3, <1>4, <1>5, <1>6, <1>7 DEF Next

\* What separates and ends the members of a skipped object or array.
LEMMA SkippedRest ==
  ASSUME IInv, Skipping, pc # "value", Next
  PROVE  mem' = mem
<1>1. CASE pc \in Stopped
  BY <1>1 DEF Next, Terminated, vars, Stopped, DecodeNull, DecodeBool, DecodeString,
         DecodeNumber, RefuseToken, OpenObject, OpenArray, ObjectKey, ObjectColon,
         ObjectNext, ArrayNext, LexError, Take
<1>2. CASE pc \in {"key", "colon", "next"}
  <2>1. Calls(stack) /\ stack # << >> /\ Last(stack).desc = NULL
    BY <1>2, SkippingTop DEF IInv, Shape
  <2>2. /\ Front(stack) # << >> /\ Last(Front(stack)).kind = "object"
             => Last(Front(stack)).attr = 0
    BY <2>1, Below, Pop
  <2>3. CASE ObjectKey \/ LexError
    BY <2>3 DEF ObjectKey, LexError, Reject
  <2>8. CASE ObjectColon
    BY <2>1, <2>8 DEF ObjectColon, LookUp, Garbage, Reject
  <2>4. CASE ObjectNext
    <3>1. CASE Return(Front(stack), mem)
      BY <2>2, <3>1, QuietReturn
    <3> QED BY <2>4, <3>1 DEF ObjectNext, Reject
  <2>5. CASE ArrayNext
    <3>1. CASE EndArray(Front(stack), Last(stack), Last(stack).count)
      BY <2>1, <2>2, <3>1, QuietReturn DEF EndArray
    <3> QED BY <2>5, <3>1 DEF ArrayNext, Reject
  <2>6. CASE Terminated
    BY <2>6 DEF Terminated, vars
  <2>7. ~(DecodeNull \/ DecodeBool \/ DecodeString \/ DecodeNumber \/ RefuseToken
          \/ OpenObject \/ OpenArray)
    BY <1>2 DEF DecodeNull, DecodeBool, DecodeString, DecodeNumber, RefuseToken,
           OpenObject, OpenArray, Take
  <2> QED BY <2>3, <2>4, <2>5, <2>6, <2>7, <2>8 DEF Next
<1> QED BY <1>1, <1>2 DEF IInv, TypeOK

\* A member no attribute asks for is skipped without a trace in the structure,
\* however deeply it nests and whatever it contains.
THEOREM SkippingIsSilent == Spec => SkipIsSilent
<1>1. IInv /\ [Next]_vars => [Skipping => mem' = mem]_vars
  BY SkippedValue, SkippedRest
<1> QED BY <1>1, Invariance, PTL DEF Spec, SkipIsSilent

-----------------------------------------------------------------------------
(* What a reader of the structure may rely on: an exist flag that is set   *)
(* means that the member has its value (ExistMeansStored), and a count     *)
(* promises no more elements than were decoded (CountCoversElements), on   *)
(* success and on failure.                                                 *)
(*                                                                         *)
(* Neither is inductive.  Before the flag or the count is stored, what it  *)
(* will vouch for is known to the active calls only: Stores says how far   *)
(* each of them has come (Halfway) and that a call works on what its       *)
(* caller waits for (Nested).  Afterwards it must not be spoilt: no store  *)
(* of another kind can reach the cell (Extends, from CellsKeepTheirType),  *)
(* and the one that leaves a string unterminated ends the call.            *)

\* Holds and Stored of any memory, for a call that has not failed.
HoldsIn(m, a, kind) == a \in DOMAIN m /\ m[a].kind = kind

Kept(m, d, o) ==
  \/ HoldsIn(m, o + Desc[d].value_offset, ScalarKind[Desc[d].type])
  \/ Desc[d].nullable /\ HoldsIn(m, o + Desc[d].flags_offset, "null")

\* The first n elements from address o on have their values.
Decoded(m, d, o, n, size) ==
  d # NULL /\ IsScalar(d) => \A i \in 0 .. n - 1 : Kept(m, d, o + i * size)

\* ExistMeansStored and CountCoversElements of any memory.
Flagged(m) ==
  \A p \in Tables : \A i \in DOMAIN Desc[p[1]].attr_descs :
    HoldsIn(m, FlagAt(p, i), "exist") /\ IsScalar(AttrAt(p, i).desc) =>
      Kept(m, AttrAt(p, i).desc, Here(p))

Summed(m) ==
  \A p \in Arrays :
    HoldsIn(m, CountAt(p), "size") =>
      /\ m[CountAt(p)].val <= Desc[p[1]].capacity
      /\ Decoded(m, Desc[p[1]].elem_attr_desc, Here(p), m[CountAt(p)].val,
                 Desc[p[1]].elem_size)

\* An active call works on a value of its type; an array has decoded every
\* element it has counted.
Halfway(m, f) ==
  f.desc # NULL =>
    /\ f.kind = "object" => Desc[f.desc].type = "OBJECT"
    /\ f.kind = "array" =>
         /\ Desc[f.desc].type = "ARRAY"
         /\ Decoded(m, ElemDesc(f), Base(f), f.count, ElemSize(f))

AllHalfway(m, s) == \A i \in DOMAIN s : Halfway(m, s[i])

\* A call has the descriptor of the value its caller waits for.
Nested(s) == \A i \in DOMAIN s : i < Len(s) => s[i + 1].desc = Call(s[i]).desc

\* The value the innermost call waits for is there.
Delivered(m, s) ==
  s # << >> /\ Call(Last(s)).desc # NULL /\ IsScalar(Call(Last(s)).desc) =>
    Kept(m, Call(Last(s)).desc, Call(Last(s)).out)

Running == pc \notin Stopped

Stores ==
  /\ Nested(stack)
  /\ Running => result = "NONE"
  /\ Running /\ "mistyped" \notin lenient =>
       Flagged(mem) /\ Summed(mem) /\ AllHalfway(mem, stack)
  /\ ExistMeansStored
  /\ CountCoversElements

-----------------------------------------------------------------------------
(* Places.                                                                 *)

\* What an attribute of a table describes.
LEMMA TablePlace ==
  ASSUME NEW p \in Tables, NEW i \in DOMAIN Desc[p[1]].attr_descs
  PROVE  /\ AttrAt(p, i).desc \in Descs /\ AttrAt(p, i).desc # NULL
         /\ <<AttrAt(p, i).desc, Here(p)>> \in Places
         /\ Declares(FlagAt(p, i), "exist")
<1>1. p \in Places /\ p[1] \in Descs /\ Desc[p[1]].type = "OBJECT" /\ FitsAt(p[1], p[2])
  BY LayoutAssumption DEF Tables
<1>2. Desc[p[1]].attr_descs \in Seq(AttrOver(Descs))
  BY <1>1, DescAssumption DEF DescOver
<1>3. AttrAt(p, i) \in AttrOver(Descs)
  BY <1>2 DEF AttrAt
<1>4. AttrAt(p, i).desc \in Descs /\ AttrAt(p, i).desc # NULL
  BY <1>3, DescAssumption DEF AttrOver
<1>5. /\ <<AttrAt(p, i).desc, Here(p)>> \in Places
      /\ Declares(FlagAt(p, i), "exist")
  BY <1>1 DEF FitsAt, AttrAt, FlagAt, Here
<1> QED BY <1>4, <1>5

\* What an array descriptor describes.
LEMMA ArrayPlace ==
  ASSUME NEW p \in Arrays
  PROVE  /\ p[1] \in Descs /\ p[2] \in Nat /\ Here(p) \in Nat
         /\ Desc[p[1]].capacity \in Nat /\ Desc[p[1]].elem_size \in Nat
         /\ Desc[p[1]].elem_attr_desc \in Descs \cup {NULL}
         /\ Declares(CountAt(p), "size")
<1>1. p \in Places /\ p[1] \in Descs /\ p[2] \in Nat
      /\ Desc[p[1]].type = "ARRAY" /\ FitsAt(p[1], p[2])
  BY LayoutAssumption DEF Arrays
<1> QED BY <1>1, DescType DEF FitsAt, CountAt, Here

-----------------------------------------------------------------------------
(* Stores that keep what is there.                                         *)

\* Cells are added and keep their kind; what was cut short may be replaced.
Extends(m, n) ==
  \A a \in DOMAIN m :
    a \in DOMAIN n /\ (m[a].kind # "torn" => n[a].kind = m[a].kind)

LEMMA StoreExtends ==
  ASSUME NEW m, NEW l, Safe(m, l), "mistyped" \notin l,
         NEW a, NEW v, KeepsType(a, v), v.kind # "torn"
  PROVE  Extends(m, Store(m, a, v))
BY DEF Extends, Store, Safe, KeepsType, Declares

LEMMA KeptExtends ==
  ASSUME NEW m, NEW n, Extends(m, n), NEW d, IsScalar(d), NEW o, Kept(m, d, o)
  PROVE  Kept(n, d, o)
<1>1. ScalarKind[Desc[d].type] # "torn"
  BY DEF IsScalar, ScalarKind
<1> QED BY <1>1 DEF Extends, Kept, HoldsIn

LEMMA DecodedExtends ==
  ASSUME NEW m, NEW n, Extends(m, n), NEW d, NEW o, NEW k, NEW size,
         Decoded(m, d, o, k, size)
  PROVE  Decoded(n, d, o, k, size)
BY KeptExtends DEF Decoded

LEMMA HalfwayExtends ==
  ASSUME NEW m, NEW n, Extends(m, n), NEW f, Halfway(m, f)
  PROVE  Halfway(n, f)
BY DecodedExtends DEF Halfway

\* No flag is new, so every flag still means that its member is there.
LEMMA FlaggedExtends ==
  ASSUME NEW m, NEW n, Extends(m, n), Flagged(m),
         \A a : HoldsIn(n, a, "exist") => HoldsIn(m, a, "exist")
  PROVE  Flagged(n)
BY KeptExtends DEF Flagged

\* No count is new, so every count still covers its elements.
LEMMA SummedExtends ==
  ASSUME NEW m, NEW n, Extends(m, n), Summed(m),
         \A a : HoldsIn(n, a, "size") => HoldsIn(m, a, "size") /\ n[a] = m[a]
  PROVE  Summed(n)
<1> SUFFICES ASSUME NEW p \in Arrays, HoldsIn(n, CountAt(p), "size")
             PROVE  /\ n[CountAt(p)].val <= Desc[p[1]].capacity
                    /\ Decoded(n, Desc[p[1]].elem_attr_desc, Here(p),
                               n[CountAt(p)].val, Desc[p[1]].elem_size)
  BY DEF Summed
<1>1. HoldsIn(m, CountAt(p), "size") /\ n[CountAt(p)] = m[CountAt(p)]
  OBVIOUS
<1>2. /\ m[CountAt(p)].val <= Desc[p[1]].capacity
      /\ Decoded(m, Desc[p[1]].elem_attr_desc, Here(p), m[CountAt(p)].val,
                 Desc[p[1]].elem_size)
  BY <1>1 DEF Summed
<1> QED BY <1>1, <1>2, DecodedExtends

\* Storing a value or a null flag.
LEMMA ValueStore ==
  ASSUME NEW m, NEW l, Safe(m, l), "mistyped" \notin l, Flagged(m), Summed(m),
         NEW a, NEW v, KeepsType(a, v), v.kind \notin {"exist", "size", "torn"}
  PROVE  LET n == Store(m, a, v) IN
         Extends(m, n) /\ Flagged(n) /\ Summed(n) /\ HoldsIn(n, a, v.kind)
<1> DEFINE n == Store(m, a, v)
<1>1. Extends(m, n)
  BY StoreExtends
<1>2. \A c : HoldsIn(n, c, "exist") => HoldsIn(m, c, "exist")
  BY DEF HoldsIn, Store
<1>3. \A c : HoldsIn(n, c, "size") => HoldsIn(m, c, "size") /\ n[c] = m[c]
  BY DEF HoldsIn, Store
<1>4. HoldsIn(n, a, v.kind)
  BY DEF HoldsIn, Store
<1> HIDE DEF n
<1> QED BY <1>1, <1>2, <1>3, <1>4, FlaggedExtends, SummedExtends DEF n

\* Setting the exist flag of a member that has its value.
LEMMA FlagStore ==
  ASSUME NEW m, NEW l, Safe(m, l), "mistyped" \notin l, Flagged(m), Summed(m),
         NEW p \in Tables, NEW i \in DOMAIN Desc[p[1]].attr_descs,
         IsScalar(AttrAt(p, i).desc) => Kept(m, AttrAt(p, i).desc, Here(p))
  PROVE  LET n == Store(m, FlagAt(p, i), Value("exist", TRUE)) IN
         Extends(m, n) /\ Flagged(n) /\ Summed(n)
<1> DEFINE v == Value("exist", TRUE)
           n == Store(m, FlagAt(p, i), v)
<1>1. Declares(FlagAt(p, i), "exist") /\ v.kind = "exist"
  BY TablePlace DEF Value
<1>2. Extends(m, n)
  BY <1>1, StoreExtends DEF KeepsType
<1>3. \A c : HoldsIn(n, c, "size") => HoldsIn(m, c, "size") /\ n[c] = m[c]
  BY <1>1 DEF HoldsIn, Store
<1>4. \A c : HoldsIn(n, c, "exist") => HoldsIn(m, c, "exist") \/ c = FlagAt(p, i)
  BY DEF HoldsIn, Store
<1> HIDE DEF n
<1>5. Summed(n)
  BY <1>2, <1>3, SummedExtends
<1>6. Flagged(n)
  <2> SUFFICES ASSUME NEW q \in Tables, NEW j \in DOMAIN Desc[q[1]].attr_descs,
                      HoldsIn(n, FlagAt(q, j), "exist"), IsScalar(AttrAt(q, j).desc)
               PROVE  Kept(n, AttrAt(q, j).desc, Here(q))
    BY DEF Flagged
  <2>1. CASE HoldsIn(m, FlagAt(q, j), "exist")
    BY <1>2, <2>1, KeptExtends DEF Flagged
  <2>2. CASE FlagAt(q, j) = FlagAt(p, i)
    <3>1. Here(p) = Here(q) /\ AttrAt(p, i).desc = AttrAt(q, j).desc
      BY <2>2, SharingAssumption
    <3> QED BY <1>2, <3>1, KeptExtends
  <2> QED BY <1>4, <2>1, <2>2
<1> QED BY <1>2, <1>5, <1>6 DEF n

\* Storing the count of elements that were decoded.
LEMMA CountStore ==
  ASSUME NEW m, NEW l, Safe(m, l), "mistyped" \notin l, Flagged(m), Summed(m),
         NEW p \in Arrays, NEW k \in Nat, k <= Desc[p[1]].capacity,
         Decoded(m, Desc[p[1]].elem_attr_desc, Here(p), k, Desc[p[1]].elem_size)
  PROVE  LET n == Store(m, CountAt(p), Value("size", k)) IN
         Extends(m, n) /\ Flagged(n) /\ Summed(n)
<1> DEFINE v == Value("size", k)
           n == Store(m, CountAt(p), v)
<1>1. Declares(CountAt(p), "size") /\ v.kind = "size"
  BY ArrayPlace DEF Value
<1>2. Extends(m, n)
  BY <1>1, StoreExtends DEF KeepsType
<1>3. \A c : HoldsIn(n, c, "exist") => HoldsIn(m, c, "exist")
  BY <1>1 DEF HoldsIn, Store
<1>4. /\ \A c : c # CountAt(p) /\ HoldsIn(n, c, "size") =>
                  HoldsIn(m, c, "size") /\ n[c] = m[c]
      /\ n[CountAt(p)].val = k
  BY DEF HoldsIn, Store, Value
<1> HIDE DEF n
<1>5. Flagged(n)
  BY <1>2, <1>3, FlaggedExtends
<1>6. Summed(n)
  <2> SUFFICES ASSUME NEW q \in Arrays, HoldsIn(n, CountAt(q), "size")
               PROVE  /\ n[CountAt(q)].val <= Desc[q[1]].capacity
                      /\ Decoded(n, Desc[q[1]].elem_attr_desc, Here(q),
                                 n[CountAt(q)].val, Desc[q[1]].elem_size)
    BY DEF Summed
  <2>1. CASE CountAt(q) = CountAt(p)
    <3>1. Counted(p) = Counted(q)
      BY <2>1, SharingAssumption
    <3>2. /\ Desc[p[1]].elem_attr_desc = Desc[q[1]].elem_attr_desc
          /\ Desc[p[1]].elem_size = Desc[q[1]].elem_size
          /\ Desc[p[1]].capacity = Desc[q[1]].capacity
          /\ Here(p) = Here(q)
      BY <3>1 DEF Counted
    <3> QED BY <1>2, <1>4, <2>1, <3>2, DecodedExtends
  <2>2. CASE CountAt(q) # CountAt(p)
    <3>1. HoldsIn(m, CountAt(q), "size") /\ n[CountAt(q)] = m[CountAt(q)]
      BY <1>4, <2>2
    <3>2. /\ m[CountAt(q)].val <= Desc[q[1]].capacity
          /\ Decoded(m, Desc[q[1]].elem_attr_desc, Here(q), m[CountAt(q)].val,
                     Desc[q[1]].elem_size)
      BY <3>1 DEF Summed
    <3> QED BY <1>2, <3>1, <3>2, DecodedExtends
  <2> QED BY <2>1, <2>2
<1> QED BY <1>2, <1>5, <1>6 DEF n

-----------------------------------------------------------------------------
(* The stack.                                                              *)

LEMMA NestedTop ==
  ASSUME NEW s \in Seq(Frames), s # << >>, Nested(s), NEW g, g.desc = Last(s).desc
  PROVE  Nested(Replaced(s, g))
<1> DEFINE t == Replaced(s, g)
<1>1. /\ Len(t) = Len(s) /\ DOMAIN t = DOMAIN s /\ Len(s) \in DOMAIN s
      /\ t[Len(s)] = g
      /\ \A i \in DOMAIN s : i # Len(s) => t[i] = s[i]
  BY DEF Replaced
<1> HIDE DEF t
<1> SUFFICES ASSUME NEW i \in DOMAIN t, i < Len(t)
             PROVE  t[i + 1].desc = Call(t[i]).desc
  BY DEF Nested, t
<1>2. i \in DOMAIN s /\ i + 1 \in DOMAIN s /\ i < Len(s) /\ t[i] = s[i]
  BY <1>1
<1>3. t[i + 1].desc = s[i + 1].desc
  BY <1>1, <1>2 DEF Last
<1> QED BY <1>2, <1>3 DEF Nested

LEMMA NestedPush ==
  ASSUME NEW s \in Seq(Frames), Nested(s), NEW f \in Frames,
         s # << >> => f.desc = Call(Last(s)).desc
  PROVE  Nested(Append(s, f))
<1> DEFINE t == Append(s, f)
<1>1. /\ Len(t) = Len(s) + 1 /\ DOMAIN t = 1 .. Len(s) + 1 /\ Len(s) \in Nat
      /\ t[Len(s) + 1] = f
      /\ \A i \in 1 .. Len(s) : t[i] = s[i]
  OBVIOUS
<1> HIDE DEF t
<1> SUFFICES ASSUME NEW i \in DOMAIN t, i < Len(t)
             PROVE  t[i + 1].desc = Call(t[i]).desc
  BY DEF Nested, t
<1>2. i \in 1 .. Len(s) /\ t[i] = s[i]
  BY <1>1
<1>3. CASE i = Len(s)
  BY <1>1, <1>2, <1>3 DEF Last
<1>4. CASE i # Len(s)
  <2>1. i + 1 \in 1 .. Len(s) /\ i < Len(s) /\ t[i + 1] = s[i + 1]
    BY <1>1, <1>2, <1>4
  <2> QED BY <1>2, <2>1 DEF Nested
<1> QED BY <1>3, <1>4

LEMMA NestedPop ==
  ASSUME NEW s \in Seq(Frames), s # << >>, Nested(s)
  PROVE  /\ Nested(Front(s))
         /\ Front(s) # << >> => Call(Last(Front(s))).desc = Last(s).desc
         /\ \A m : AllHalfway(m, s) => AllHalfway(m, Front(s)) /\ Halfway(m, Last(s))
<1> DEFINE t == Front(s)
           n == Len(s) - 1
<1>1. /\ n \in Nat /\ Len(t) = n /\ DOMAIN t = 1 .. n /\ DOMAIN s = 1 .. n + 1
      /\ \A i \in 1 .. n : t[i] = s[i]
  <2>1. Len(s) = n + 1 /\ n \in Nat
    OBVIOUS
  <2>2. t \in Seq(Frames) /\ Len(t) = n
    BY <2>1, SubSeqProperties DEF Front
  <2> QED BY <2>1, <2>2 DEF Front
<1> HIDE DEF t
<1>2. Nested(t)
  BY <1>1 DEF Nested
<1>3. ASSUME t # << >> PROVE Call(Last(t)).desc = Last(s).desc
  <2>1. n \in DOMAIN s /\ n < Len(s) /\ t[n] = s[n] /\ Last(t) = s[n]
    BY <1>1, <1>3 DEF Last
  <2>2. s[n + 1].desc = Call(s[n]).desc
    BY <2>1 DEF Nested
  <2> QED BY <2>1, <2>2 DEF Last
<1>4. ASSUME NEW m, AllHalfway(m, s) PROVE AllHalfway(m, t) /\ Halfway(m, Last(s))
  BY <1>1, <1>4 DEF AllHalfway, Last
<1> QED BY <1>2, <1>3, <1>4 DEF t

-----------------------------------------------------------------------------
(* Steps.                                                                  *)

\* The two properties, from what is kept.
LEMMA Tells ==
  ASSUME "mistyped" \notin lenient' => Flagged(mem') /\ Summed(mem')
  PROVE  ExistMeansStored' /\ CountCoversElements'
<1>1. \A d, o : Kept(mem', d, o) => Stored(d, o)'
  BY DEF Kept, HoldsIn, Stored, Holds
<1>2. ExistMeansStored'
  BY <1>1 DEF ExistMeansStored, Flagged, Holds, HoldsIn
<1>3. CountCoversElements'
  BY <1>1 DEF CountCoversElements, Summed, Holds, HoldsIn, Decoded
<1> QED BY <1>2, <1>3

\* A call that fails stores nothing, or it fails for a string cut short.
LEMMA RejectStores ==
  ASSUME Stores, Running, NEW err, Reject(err), lenient \subseteq lenient'
  PROVE  Stores'
<1>1. stack' = << >> /\ pc' = "done" /\ mem' = mem
  BY DEF Reject, Fail
<1>2. Nested(stack') /\ ~Running'
  BY <1>1 DEF Nested, Running, Stopped
<1>3. "mistyped" \notin lenient' => Flagged(mem') /\ Summed(mem')
  BY <1>1 DEF Stores
<1> QED BY <1>2, <1>3, Tells DEF Stores

\* The caller of a call that returns goes on with what it waited for.
LEMMA ReturnStores ==
  ASSUME Stores, Running,
         NEW stk, Waiting(stk), Nested(stk), NEW m, Return(stk, m),
         "mistyped" \notin lenient' =>
           /\ Safe(m, lenient') /\ Flagged(m) /\ Summed(m)
           /\ AllHalfway(m, stk) /\ Delivered(m, stk)
  PROVE  Stores'
<1> DEFINE f == Last(stk)
<1>1. stk \in Seq(Frames)
  BY DEF Waiting, Calls
<1>2. CASE stk = << >>
  <2>1. stack' = << >> /\ pc' = "done" /\ mem' = m
    BY <1>2 DEF Return
  <2>2. Nested(stack') /\ ~Running'
    BY <2>1 DEF Nested, Running, Stopped
  <2> QED BY <2>1, <2>2, Tells DEF Stores
<1>3. CASE stk # << >>
  <2>1. Len(stk) \in DOMAIN stk /\ f = stk[Len(stk)]
    BY <1>1, <1>3 DEF Last
  <2>2. FrameOK(f) /\ Roomy(f) /\ f \in Frames
    BY <2>1 DEF Waiting, Calls, FrameOK
  <2>3. pc' = "next" /\ result' = "NONE"
    BY <1>3 DEF Return, Stores
  <2>4. PICK g : /\ stack' = Replaced(stk, g) /\ g.desc = f.desc /\ g.kind = f.kind
                 /\ g.out = f.out
                 /\ g.count = IF f.kind = "array" THEN f.count + 1 ELSE f.count
    <3>1. CASE f.kind = "object"
      <4> DEFINE g == [f EXCEPT !.attr = 0]
      <4>1. stack' = Replaced(stk, g)
        BY <1>1, <1>3, <2>1, <3>1 DEF Return, Replaced
      <4> QED BY <2>2, <3>1, <4>1 DEF Frames
    <3>2. CASE f.kind = "array"
      <4> DEFINE g == [f EXCEPT !.count = f.count + 1]
      <4>1. stack' = Replaced(stk, g)
        BY <1>1, <1>3, <2>1, <3>2 DEF Return, Replaced
      <4> QED BY <2>2, <3>2, <4>1 DEF Frames
    <3> QED BY <2>2, <3>1, <3>2 DEF Frames
  <2>5. Nested(stack')
    BY <1>1, <1>3, <2>4, NestedTop
  <2>6. ASSUME "mistyped" \notin lenient'
        PROVE  Flagged(mem') /\ Summed(mem') /\ AllHalfway(mem', stack')
    <3> DEFINE p == <<f.desc, f.out>>
    <3>1. Extends(m, mem') /\ Flagged(mem') /\ Summed(mem')
      <4>1. CASE mem' = m
        BY <2>6, <4>1 DEF Extends
      <4>2. CASE f.kind = "object" /\ f.attr # 0
        <5>1. f.desc \in Descs /\ f.desc # NULL /\ p \in Places
          BY <2>2, <4>2, AttrsType DEF FrameOK, Frames
        <5>2. f.attr \in DOMAIN Desc[f.desc].attr_descs
          BY <2>2, <4>2, <5>1, AttrsType DEF FrameOK, Attrs
        <5>3. p \in Tables /\ f.attr \in DOMAIN Desc[p[1]].attr_descs
          BY <5>1, <5>2, ZeroFilled DEF Tables
        <5>4. /\ AttrAt(p, f.attr) = AttrOf(f) /\ Here(p) = Base(f)
              /\ FlagAt(p, f.attr) = Base(f) + AttrOf(f).exist_offset
              /\ Call(f).desc = AttrAt(p, f.attr).desc /\ Call(f).out = Here(p)
          BY <4>2, <5>1 DEF AttrAt, AttrOf, Here, Base, FlagAt, Call
        <5>5. mem' = Store(m, FlagAt(p, f.attr), Value("exist", TRUE))
          BY <1>3, <4>2, <5>4 DEF Return
        <5>6. IsScalar(AttrAt(p, f.attr).desc) => Kept(m, AttrAt(p, f.attr).desc, Here(p))
          BY <1>3, <2>6, <5>3, <5>4, TablePlace DEF Delivered
        <5> QED BY <2>6, <5>3, <5>5, <5>6, FlagStore
      <4> QED BY <1>3, <4>1, <4>2 DEF Return
    <3>2. Halfway(mem', g)
      <4>1. Halfway(mem', f)
        BY <2>1, <2>6, <3>1, HalfwayExtends DEF AllHalfway
      <4>2. CASE f.kind = "object"
        BY <2>4, <4>1, <4>2 DEF Halfway
      <4>3. CASE f.kind = "array" /\ f.desc # NULL
        <5> DEFINE d == ElemDesc(f)
        <5>1. ElemDesc(g) = d /\ Base(g) = Base(f) /\ ElemSize(g) = ElemSize(f)
          BY <2>4 DEF ElemDesc, Base, ElemSize
        <5>2. Desc[f.desc].type = "ARRAY" /\ Decoded(mem', d, Base(f), f.count, ElemSize(f))
          BY <4>1, <4>3 DEF Halfway
        <5>3. /\ Call(f).desc = d /\ Call(f).out = Base(f) + f.count * ElemSize(f)
              /\ g.count = f.count + 1 /\ f.count \in Nat
          BY <2>2, <2>4, <4>3 DEF Call, Frames
        <5>4. d # NULL /\ IsScalar(d) => Kept(mem', d, Base(f) + f.count * ElemSize(f))
          BY <1>3, <2>6, <3>1, <5>3, KeptExtends DEF Delivered
        <5>5. Decoded(mem', d, Base(f), f.count + 1, ElemSize(f))
          <6> SUFFICES ASSUME d # NULL, IsScalar(d), NEW i \in 0 .. f.count
                       PROVE  Kept(mem', d, Base(f) + i * ElemSize(f))
            BY <5>3 DEF Decoded
          <6>1. CASE i = f.count
            BY <5>4, <6>1
          <6>2. CASE i # f.count
            <7>1. i \in 0 .. f.count - 1
              BY <5>3, <6>2
            <7> QED BY <5>2, <7>1 DEF Decoded
          <6> QED BY <6>1, <6>2
        <5> QED BY <2>4, <4>3, <5>1, <5>2, <5>3, <5>5 DEF Halfway
      <4> QED BY <2>2, <2>4, <4>2, <4>3 DEF Halfway, Frames
    <3>3. AllHalfway(mem', stack')
      <4> SUFFICES ASSUME NEW i \in DOMAIN stack' PROVE Halfway(mem', stack'[i])
        BY DEF AllHalfway
      <4>1. i \in DOMAIN stk /\ stack'[i] = IF i = Len(stk) THEN g ELSE stk[i]
        BY <1>1, <2>1, <2>4 DEF Replaced
      <4> QED BY <2>6, <3>1, <3>2, <4>1, HalfwayExtends DEF AllHalfway
    <3> QED BY <3>1, <3>3
  <2>7. ExistMeansStored' /\ CountCoversElements'
    BY <2>6, Tells
  <2> QED BY <2>3, <2>5, <2>6, <2>7 DEF Stores
<1> QED BY <1>2, <1>3

\* A value was decoded, or skipped, for the caller that asked for it.
LEMMA ValueStores ==
  ASSUME IInv, Stores, pc = "value", lenient \subseteq lenient',
         NEW m, Return(stack, m),
         "mistyped" \notin lenient' =>
           /\ Extends(mem, m) /\ Safe(m, lenient') /\ Flagged(m) /\ Summed(m)
           /\ Pending.desc # NULL /\ IsScalar(Pending.desc) =>
                Kept(m, Pending.desc, Pending.out)
  PROVE  Stores'
<1>1. Running /\ Nested(stack) /\ Waiting(stack)
  BY PendingFits DEF Running, Stopped, Stores
<1>2. ASSUME "mistyped" \notin lenient'
      PROVE  AllHalfway(m, stack) /\ Delivered(m, stack)
  <2>1. AllHalfway(mem, stack)
    BY <1>1, <1>2 DEF Stores
  <2>2. AllHalfway(m, stack)
    BY <1>2, <2>1, HalfwayExtends DEF AllHalfway
  <2>3. Delivered(m, stack)
    BY <1>2, PendingFits DEF Delivered
  <2> QED BY <2>2, <2>3
<1> QED BY <1>1, <1>2, ReturnStores

\* What is kept while the call runs.
LEMMA Keeping ==
  ASSUME IInv, Stores, Running, "mistyped" \notin lenient
  PROVE  Safe(mem, lenient) /\ Flagged(mem) /\ Summed(mem) /\ Extends(mem, mem)
<1>1. pc # "undefined"
  BY DEF Running, Stopped
<1>2. Extends(mem, mem)
  BY DEF Extends
<1> QED BY <1>1, <1>2, MemOK DEF Stores

LEMMA IgnoreStores ==
  ASSUME IInv, Stores, pc = "value", UNCHANGED lenient, Skipped, Ignore
  PROVE  Stores'
<1>1. Running
  BY DEF Running, Stopped
<1> QED BY <1>1, Keeping, ValueStores DEF Ignore, Skipped

LEMMA ScalarStores ==
  ASSUME IInv, Stores, pc = "value", UNCHANGED lenient,
         NEW types, types \subseteq DOMAIN ScalarKind, Expects(types),
         NEW v, v.kind = ScalarKind[Desc[Pending.desc].type], StoreValue(v)
  PROVE  Stores'
<1> DEFINE a == Pending.out + Desc[Pending.desc].value_offset
           m == Store(mem, a, v)
<1>1. Running /\ Return(stack, m)
  BY DEF Running, Stopped, StoreValue
<1>2. KeepsType(a, v) /\ v.kind \notin {"exist", "size", "torn"}
  BY ScalarFits DEF KeepsType, ScalarKind
<1>3. ASSUME "mistyped" \notin lenient'
      PROVE  /\ Extends(mem, m) /\ Safe(m, lenient') /\ Flagged(m) /\ Summed(m)
             /\ Kept(m, Pending.desc, Pending.out)
  <2>1. Safe(mem, lenient) /\ Flagged(mem) /\ Summed(mem)
    BY <1>1, <1>3, Keeping
  <2>2. Extends(mem, m) /\ Flagged(m) /\ Summed(m) /\ HoldsIn(m, a, v.kind)
    BY <1>2, <1>3, <2>1, ValueStore
  <2>3. Safe(m, lenient')
    BY <1>2, <2>1, StoreSafe
  <2> QED BY <2>2, <2>3 DEF Kept
<1> HIDE DEF m
<1> QED BY <1>1, <1>3, ValueStores

LEMMA NullStores ==
  ASSUME IInv, Stores, DecodeNull
  PROVE  Stores'
<1> DEFINE d == Pending.desc
           a == Pending.out + Desc[d].flags_offset
           v == Value("null", TRUE)
           m == Store(mem, a, v)
<1>1. pc = "value" /\ Running /\ UNCHANGED lenient
  BY DEF DecodeNull, Take, Running, Stopped
<1>2. CASE Skipped /\ Ignore
  BY <1>1, <1>2, IgnoreStores
<1>3. CASE ~Expects({"NULL"}) /\ Nullable /\ Return(stack, m)
  <2>1. d # NULL /\ Desc[d].nullable
    BY <1>3 DEF Nullable
  <2>2. KeepsType(a, v) /\ v.kind = "null"
    BY <1>1, <2>1, PendingFits DEF FitsAt, KeepsType, Value
  <2>3. ASSUME "mistyped" \notin lenient'
        PROVE  /\ Extends(mem, m) /\ Safe(m, lenient') /\ Flagged(m) /\ Summed(m)
               /\ Kept(m, Pending.desc, Pending.out)
    <3>1. Safe(mem, lenient) /\ Flagged(mem) /\ Summed(mem)
      BY <1>1, <2>3, Keeping
    <3>2. Extends(mem, m) /\ Flagged(m) /\ Summed(m) /\ HoldsIn(m, a, "null")
      BY <1>1, <2>2, <2>3, <3>1, ValueStore
    <3>3. Safe(m, lenient')
      BY <1>1, <2>2, <3>1, StoreSafe
    <3> QED BY <2>1, <3>2, <3>3 DEF Kept
  <2> HIDE DEF m
  <2> QED BY <1>1, <1>3, <2>3, ValueStores
<1>4. CASE Reject("TYPE_NOT_MATCH") \/ Reject("NOT_SUPPORT")
  BY <1>1, <1>4, RejectStores
<1> QED BY <1>2, <1>3, <1>4 DEF DecodeNull

LEMMA BoolStores ==
  ASSUME IInv, Stores, DecodeBool
  PROVE  Stores'
<1>1. PICK tok \in Tokens :
        /\ Take({"t", "f"}, tok)
        /\ \/ Skipped /\ Ignore
           \/ Expects({"BOOL"}) /\ StoreValue(Value("bool", tok.type = "t"))
           \/ Reject("TYPE_NOT_MATCH")
  BY DEF DecodeBool
<1>2. pc = "value" /\ Running /\ UNCHANGED lenient
  BY <1>1 DEF DecodeBool, Take, Running, Stopped
<1>3. CASE Skipped /\ Ignore
  BY <1>2, <1>3, IgnoreStores
<1>4. CASE Expects({"BOOL"}) /\ StoreValue(Value("bool", tok.type = "t"))
  <2>1. {"BOOL"} \subseteq DOMAIN ScalarKind /\ Desc[Pending.desc].type = "BOOL"
    BY <1>4 DEF ScalarKind, Expects
  <2>2. Value("bool", tok.type = "t").kind = ScalarKind[Desc[Pending.desc].type]
    BY <2>1 DEF Value, ScalarKind
  <2> QED BY <1>2, <1>4, <2>1, <2>2, ScalarStores
<1>5. CASE Reject("TYPE_NOT_MATCH")
  BY <1>2, <1>5, RejectStores
<1> QED BY <1>1, <1>3, <1>4, <1>5

LEMMA NumberStores ==
  ASSUME IInv, Stores, DecodeNumber
  PROVE  Stores'
<1> DEFINE type == Desc[Pending.desc].type
<1>1. PICK tok \in Tokens :
        /\ Take({"0"}, tok)
        /\ \/ Skipped /\ Ignore
           \/ Reject("TYPE_NOT_MATCH")
           \/ Reject("OVERFLOW")
           \/ Expects(NumberTypes) /\ StoreValue(Number(type, tok))
  BY DEF DecodeNumber
<1>2. pc = "value" /\ Running /\ UNCHANGED lenient
  BY <1>1 DEF DecodeNumber, Take, Running, Stopped
<1>3. CASE Skipped /\ Ignore
  BY <1>2, <1>3, IgnoreStores
<1>4. CASE Reject("TYPE_NOT_MATCH") \/ Reject("OVERFLOW")
  BY <1>2, <1>4, RejectStores
<1>5. CASE Expects(NumberTypes) /\ StoreValue(Number(type, tok))
  <2>1. NumberTypes \subseteq DOMAIN ScalarKind /\ type \in NumberTypes
    BY <1>5 DEF ScalarKind, NumberTypes, Expects
  <2>2. Number(type, tok).kind = ScalarKind[type]
    BY <2>1, NumberType
  <2> QED BY <1>2, <1>5, <2>1, <2>2, ScalarStores
<1> QED BY <1>1, <1>3, <1>4, <1>5

\* A string cut short spoils the member it is for, and perhaps one that shares
\* its cell; the error code tells.
LEMMA TornStores ==
  ASSUME Stores, Running, "mistyped" \notin lenient, Safe(mem, lenient),
         NEW a, Declares(a, "cstr"), NEW v, v.kind = "torn",
         mem' = Store(mem, a, v), result' = "INSUFFICIENT_SPACE"
  PROVE  ExistMeansStored' /\ CountCoversElements'
<1>1. Flagged(mem) /\ Summed(mem)
  BY DEF Stores
<1>2. \A c \in DOMAIN mem : KeepsType(c, mem[c])
  BY DEF Safe
<1>3. \A c, kind : /\ kind \in {"exist", "size"}
                   /\ HoldsIn(mem', c, kind)
                   => HoldsIn(mem, c, kind) /\ mem'[c] = mem[c]
  BY DEF HoldsIn, Store
<1>4. ASSUME NEW d, IsScalar(d), NEW o, Kept(mem, d, o)
      PROVE  Stored(d, o)'
  <2>1. CASE HoldsIn(mem, o + Desc[d].value_offset, ScalarKind[Desc[d].type])
    BY <2>1 DEF Stored, Holds, HoldsIn, Store
  <2>2. CASE Desc[d].nullable /\ HoldsIn(mem, o + Desc[d].flags_offset, "null")
    <3>1. o + Desc[d].flags_offset # a
      BY <1>2, <2>2 DEF HoldsIn, KeepsType, Declares
    <3> QED BY <2>2, <3>1 DEF Stored, Holds, HoldsIn, Store
  <2> QED BY <1>4, <2>1, <2>2 DEF Kept
<1>5. ExistMeansStored'
  BY <1>1, <1>3, <1>4 DEF ExistMeansStored, Flagged, Holds, HoldsIn
<1>6. CountCoversElements'
  BY <1>1, <1>3, <1>4 DEF CountCoversElements, Summed, Decoded, Holds, HoldsIn
<1> QED BY <1>5, <1>6

LEMMA StringStores ==
  ASSUME IInv, Stores, DecodeString
  PROVE  Stores'
<1> DEFINE cap == Desc[Pending.desc].string_capacity
           a == Pending.out + Desc[Pending.desc].value_offset
<1>1. PICK tok \in Tokens :
        /\ Take({"s"}, tok)
        /\ \/ Skipped /\ Ignore
           \/ Reject("TYPE_NOT_MATCH")
           \/ Expects({"CSTR"}) /\ StoreValue(Value("cstr", tok.text))
           \/ /\ Expects({"CSTR"})
              /\ Fail("INSUFFICIENT_SPACE") /\ mem' = Torn(tok.text, cap)
  BY DEF DecodeString
<1>2. pc = "value" /\ Running /\ UNCHANGED lenient
  BY <1>1 DEF DecodeString, Take, Running, Stopped
<1>3. CASE Skipped /\ Ignore
  BY <1>2, <1>3, IgnoreStores
<1>4. CASE Reject("TYPE_NOT_MATCH")
  BY <1>2, <1>4, RejectStores
<1>5. ASSUME Expects({"CSTR"})
      PROVE  {"CSTR"} \subseteq DOMAIN ScalarKind /\ ScalarKind[Desc[Pending.desc].type] = "cstr"
  BY <1>5 DEF ScalarKind, Expects
<1>6. CASE Expects({"CSTR"}) /\ StoreValue(Value("cstr", tok.text))
  <2>1. Value("cstr", tok.text).kind = ScalarKind[Desc[Pending.desc].type]
    BY <1>5, <1>6 DEF Value
  <2> QED BY <1>2, <1>5, <1>6, <2>1, ScalarStores
<1>7. CASE /\ Expects({"CSTR"})
           /\ Fail("INSUFFICIENT_SPACE") /\ mem' = Torn(tok.text, cap)
  <2>1. CASE mem' = mem
    BY <1>2, <1>7, <2>1, RejectStores DEF Reject
  <2>2. CASE mem' # mem
    <3> DEFINE v == Value("torn", SubSeq(tok.text, 1, cap - 1))
    <3>1. mem' = Store(mem, a, v) /\ v.kind = "torn"
      BY <1>7, <2>2 DEF Torn, Value
    <3>2. Declares(a, "cstr")
      BY <1>2, <1>5, <1>7, ScalarFits
    <3>3. stack' = << >> /\ pc' = "done" /\ result' = "INSUFFICIENT_SPACE"
      BY <1>7 DEF Fail
    <3>4. Nested(stack') /\ ~Running'
      BY <3>3 DEF Nested, Running, Stopped
    <3> HIDE DEF v
    <3>5. "mistyped" \notin lenient => ExistMeansStored' /\ CountCoversElements'
      BY <1>2, <3>1, <3>2, <3>3, Keeping, TornStores
    <3>6. "mistyped" \in lenient => ExistMeansStored' /\ CountCoversElements'
      BY <1>2 DEF ExistMeansStored, CountCoversElements
    <3> QED BY <3>4, <3>5, <3>6 DEF Stores
  <2> QED BY <2>1, <2>2
<1> QED BY <1>1, <1>3, <1>4, <1>6, <1>7

\* The end of an array: what it has counted is there.
LEMMA EndArrayStores ==
  ASSUME IInv, Stores, Running, lenient \subseteq lenient',
         NEW stk, Waiting(stk), Nested(stk), NEW f, NEW count \in Nat,
         f.desc # NULL => <<f.desc, f.out>> \in Places,
         stk # << >> => Call(Last(stk)).desc = f.desc,
         EndArray(stk, f, count),
         "mistyped" \notin lenient' =>
           /\ AllHalfway(mem, stk)
           /\ f.desc # NULL =>
                /\ Desc[f.desc].type = "ARRAY" /\ count <= Desc[f.desc].capacity
                /\ Decoded(mem, ElemDesc(f), Base(f), count, ElemSize(f))
  PROVE  Stores'
<1> DEFINE p == <<f.desc, f.out>>
           m == IF f.desc = NULL THEN mem
                ELSE StoreAll(mem, Span(f.out + Desc[f.desc].count_offset),
                              Value("size", count))
<1>1. Return(stk, m)
  BY DEF EndArray
<1>2. ASSUME "mistyped" \notin lenient'
      PROVE  /\ Safe(m, lenient') /\ Flagged(m) /\ Summed(m)
             /\ AllHalfway(m, stk) /\ Delivered(m, stk)
  <2>1. Safe(mem, lenient') /\ Flagged(mem) /\ Summed(mem)
    BY <1>2, Keeping DEF Safe
  <2>2. CASE f.desc = NULL
    BY <1>2, <2>1, <2>2 DEF Delivered
  <2>3. CASE f.desc # NULL
    <3>1. p \in Arrays /\ m = Store(mem, CountAt(p), Value("size", count))
      <4>1. p \in Arrays /\ FitsAt(p[1], p[2])
        BY <1>2, <2>3, LayoutAssumption DEF Arrays
      <4>2. Span(CountAt(p)) = {CountAt(p)}
        BY <1>2, <2>3, <4>1 DEF FitsAt, CountAt
      <4>3. m = StoreAll(mem, Span(CountAt(p)), Value("size", count))
        BY <2>3 DEF CountAt
      <4> QED BY <4>1, <4>2, <4>3, StoreOne
    <3>2. Decoded(mem, Desc[p[1]].elem_attr_desc, Here(p), count, Desc[p[1]].elem_size)
      BY <1>2, <2>3 DEF ElemDesc, Base, ElemSize, Here
    <3>3. count <= Desc[p[1]].capacity
      BY <1>2, <2>3
    <3> HIDE DEF m
    <3>4. Extends(mem, m) /\ Flagged(m) /\ Summed(m)
      BY <1>2, <2>1, <3>1, <3>2, <3>3, CountStore
    <3>5. KeepsType(CountAt(p), Value("size", count))
      BY <3>1, ArrayPlace DEF KeepsType, Value
    <3>6. Safe(m, lenient')
      BY <2>1, <3>1, <3>5, StoreSafe
    <3>7. AllHalfway(m, stk)
      BY <1>2, <3>4, HalfwayExtends DEF AllHalfway
    <3>8. Delivered(m, stk)
      BY <1>2, <2>3 DEF Delivered, IsScalar, ScalarKind
    <3> QED BY <3>4, <3>6, <3>7, <3>8
  <2> QED BY <2>2, <2>3
<1> HIDE DEF m
<1> QED BY <1>1, <1>2, ReturnStores

\* Entering decode_object or decode_array.
LEMMA PushStores ==
  ASSUME IInv, Stores, pc = "value", NEW f \in Frames, f.desc = Pending.desc, f.count = 0,
         "mistyped" \notin lenient' /\ f.desc # NULL =>
           /\ f.kind = "object" => Desc[f.desc].type = "OBJECT"
           /\ f.kind = "array" => Desc[f.desc].type = "ARRAY",
         stack' = Append(stack, f), UNCHANGED <<mem, result>>,
         lenient \subseteq lenient'
  PROVE  Stores'
<1>1. Running /\ stack \in Seq(Frames) /\ Nested(stack)
  BY PendingFits DEF Running, Stopped, Stores, Waiting, Calls
<1>2. Nested(stack')
  BY <1>1, PendingFits, NestedPush
<1>3. result' = "NONE"
  BY <1>1 DEF Stores
<1>4. ASSUME "mistyped" \notin lenient'
      PROVE  Flagged(mem') /\ Summed(mem') /\ AllHalfway(mem', stack')
  <2>1. Flagged(mem) /\ Summed(mem) /\ AllHalfway(mem, stack)
    BY <1>1, <1>4 DEF Stores
  <2>2. Decoded(mem, ElemDesc(f), Base(f), 0, ElemSize(f))
    BY DEF Decoded
  <2>3. Halfway(mem, f)
    BY <1>4, <2>2 DEF Halfway
  <2>4. \A i \in DOMAIN stack' : stack'[i] = f \/ (i \in DOMAIN stack /\ stack'[i] = stack[i])
    BY <1>1
  <2> QED BY <2>1, <2>3, <2>4 DEF AllHalfway
<1> QED BY <1>2, <1>3, <1>4, Tells DEF Stores

LEMMA OpenObjectStores ==
  ASSUME IInv, Stores, OpenObject
  PROVE  Stores'
<1> DEFINE f == NewFrame("object")
<1>1. /\ pc = "value" /\ stack' = Append(stack, f) /\ UNCHANGED <<mem, result>>
      /\ lenient' = Mistyped("OBJECT") /\ lenient \subseteq lenient'
  BY DEF OpenObject, Take, Mistyped
<1>2. f.kind = "object" /\ f.desc = Pending.desc /\ f.count = 0 /\ f \in Frames
  BY <1>1, NewFrameOK DEF FrameOK
<1>3. "mistyped" \notin lenient' /\ f.desc # NULL => Desc[f.desc].type = "OBJECT"
  BY <1>1, <1>2 DEF Mistyped, Skipped, Expects
<1> HIDE DEF f
<1> QED BY <1>1, <1>2, <1>3, PushStores

LEMMA OpenArrayStores ==
  ASSUME IInv, Stores, OpenArray
  PROVE  Stores'
<1> DEFINE f == NewFrame("array")
<1>1. /\ pc = "value" /\ Running
      /\ lenient \subseteq lenient' /\ Mistyped("ARRAY") \subseteq lenient'
  BY DEF OpenArray, Mistyped, Running, Stopped
<1>2. /\ f.kind = "array" /\ f.desc = Pending.desc /\ f.count = 0
      /\ f.desc \in Descs \cup {NULL}
      /\ f.desc # NULL => <<f.desc, f.out>> \in Places
      /\ (f.desc # NULL => Desc[f.desc].capacity > 0) => FrameOK(f)
  BY <1>1, NewFrameOK
<1>3. "mistyped" \notin lenient' /\ f.desc # NULL => Desc[f.desc].type = "ARRAY"
  BY <1>1, <1>2 DEF Mistyped, Skipped, Expects
<1>4. \/ ~Full(f, 0) /\ stack' = Append(stack, f) /\ UNCHANGED <<mem, result>>
      \/ EndArray(stack, f, 0)
  BY DEF OpenArray
<1> HIDE DEF f
<1>5. CASE ~Full(f, 0) /\ stack' = Append(stack, f) /\ UNCHANGED <<mem, result>>
  <2>1. f \in Frames
    BY <1>2, <1>5, DescType DEF Full, FrameOK
  <2> QED BY <1>1, <1>2, <1>3, <1>5, <2>1, PushStores
<1>6. CASE EndArray(stack, f, 0)
  <2>1. Waiting(stack) /\ Nested(stack) /\ (stack # << >> => Call(Last(stack)).desc = f.desc)
    BY <1>1, <1>2, PendingFits DEF Stores
  <2>2. "mistyped" \notin lenient' => AllHalfway(mem, stack)
    BY <1>1 DEF Stores
  <2>3. Decoded(mem, ElemDesc(f), Base(f), 0, ElemSize(f))
    BY DEF Decoded
  <2>4. f.desc # NULL => 0 <= Desc[f.desc].capacity
    BY <1>2, DescType
  <2> QED BY <1>1, <1>2, <1>3, <1>6, <2>1, <2>2, <2>3, <2>4, EndArrayStores
<1> QED BY <1>4, <1>5, <1>6

\* The top call goes on to its next token.
LEMMA TopStores ==
  ASSUME IInv, Stores, Running, stack # << >>,
         NEW g, g.desc = Last(stack).desc, g.kind = "object", Last(stack).kind = "object",
         stack' = Replaced(stack, g), UNCHANGED <<mem, result, lenient>>
  PROVE  Stores'
<1>1. stack \in Seq(Frames) /\ Len(stack) \in DOMAIN stack
  BY DEF IInv, Calls
<1>2. Nested(stack')
  BY <1>1, NestedTop DEF Stores
<1>3. ASSUME "mistyped" \notin lenient'
      PROVE  Flagged(mem') /\ Summed(mem') /\ AllHalfway(mem', stack')
  <2>1. Flagged(mem) /\ Summed(mem) /\ AllHalfway(mem, stack)
    BY <1>3 DEF Stores
  <2>2. Halfway(mem, g)
    BY <1>1, <2>1 DEF AllHalfway, Halfway, Last
  <2>3. \A i \in DOMAIN stack' : i \in DOMAIN stack /\ stack'[i] \in {g, stack[i]}
    BY <1>1 DEF Replaced
  <2> QED BY <2>1, <2>2, <2>3 DEF AllHalfway
<1> QED BY <1>2, <1>3, Tells DEF Stores

LEMMA ObjectKeyStores ==
  ASSUME IInv, Stores, ObjectKey
  PROVE  Stores'
<1> DEFINE f == Last(stack)
<1>1. PICK tok \in Tokens :
        \/ /\ UNCHANGED <<mem, result>>
           /\ stack' = [stack EXCEPT ![Len(stack)].key = tok.text]
        \/ Reject("INVALID_JSON")
  BY DEF ObjectKey
<1>2. Running /\ UNCHANGED lenient /\ stack # << >> /\ f.kind = "object"
  BY DEF ObjectKey, Running, Stopped, IInv, Shape
<1>3. CASE /\ UNCHANGED <<mem, result>>
           /\ stack' = [stack EXCEPT ![Len(stack)].key = tok.text]
  <2> DEFINE g == [f EXCEPT !.key = tok.text]
  <2>1. f \in Frames /\ stack \in Seq(Frames)
    BY <1>2, Below DEF IInv, Calls
  <2>2. stack' = Replaced(stack, g) /\ g.desc = f.desc /\ g.kind = "object"
    BY <1>2, <1>3, <2>1 DEF Replaced, Last, Frames
  <2> HIDE DEF g
  <2> QED BY <1>2, <1>3, <2>2, TopStores
<1>4. CASE Reject("INVALID_JSON")
  BY <1>2, <1>4, RejectStores
<1> QED BY <1>1, <1>3, <1>4

LEMMA ObjectColonStores ==
  ASSUME IInv, Stores, ObjectColon
  PROVE  Stores'
<1> DEFINE f == Last(stack)
           found == Find(Attrs(f.desc), f.key)
<1>1. \/ /\ UNCHANGED <<mem, result>>
         /\ stack' = [stack EXCEPT ![Len(stack)].attr = found, ![Len(stack)].key = << >>]
      \/ Garbage(f.desc) /\ Astray
      \/ Reject("INVALID_JSON")
  BY DEF ObjectColon, LookUp
<1> HIDE DEF found
<1>2. Running /\ UNCHANGED lenient /\ stack # << >> /\ f.kind = "object"
  BY DEF ObjectColon, Running, Stopped, IInv, Shape
<1>3. CASE /\ UNCHANGED <<mem, result>>
           /\ stack' = [stack EXCEPT ![Len(stack)].attr = found, ![Len(stack)].key = << >>]
  <2> DEFINE g == [f EXCEPT !.attr = found, !.key = << >>]
  <2>1. f \in Frames /\ stack \in Seq(Frames)
    BY <1>2, Below DEF IInv, Calls
  <2>2. stack' = Replaced(stack, g) /\ g.desc = f.desc /\ g.kind = "object"
    BY <1>2, <1>3, <2>1 DEF Replaced, Last, Frames
  <2> HIDE DEF g
  <2> QED BY <1>2, <1>3, <2>2, TopStores
<1>4. CASE Reject("INVALID_JSON")
  BY <1>2, <1>4, RejectStores
<1>5. CASE Garbage(f.desc) /\ Astray
  <2>1. pc' = "undefined" /\ UNCHANGED <<stack, result>>
    BY <1>5 DEF Astray
  <2>2. "mistyped" \in lenient
    <3>1. Len(stack) \in DOMAIN stack /\ f = stack[Len(stack)]
      BY <1>2 DEF IInv, Calls, Last
    <3>2. ~Halfway(mem, f)
      BY <1>2, <1>5 DEF Halfway, Garbage
    <3> QED BY <1>2, <3>1, <3>2 DEF Stores, AllHalfway
  <2>3. Nested(stack') /\ ~Running'
    BY <2>1 DEF Stores, Running, Stopped
  <2> QED BY <1>2, <2>2, <2>3, Tells DEF Stores
<1> QED BY <1>1, <1>3, <1>4, <1>5

\* Going on without a trace.
LEMMA QuietStores ==
  ASSUME Stores, Running, UNCHANGED <<stack, mem, result, lenient>>
  PROVE  Stores'
<1>1. Nested(stack') /\ result' = "NONE"
  BY DEF Stores
<1>2. "mistyped" \notin lenient' =>
        Flagged(mem') /\ Summed(mem') /\ AllHalfway(mem', stack')
  BY DEF Stores
<1> QED BY <1>1, <1>2, Tells DEF Stores

LEMMA ObjectNextStores ==
  ASSUME IInv, Stores, ObjectNext
  PROVE  Stores'
<1> DEFINE f == Last(stack)
<1>1. /\ Running /\ f.kind = "object" /\ stack # << >> /\ UNCHANGED lenient
      /\ \/ UNCHANGED <<stack, mem, result>>
         \/ Return(Front(stack), mem)
         \/ Reject("INVALID_JSON")
  BY DEF ObjectNext, Running, Stopped, IInv, Shape
<1>2. CASE UNCHANGED <<stack, mem, result>>
  BY <1>1, <1>2, QuietStores
<1>3. CASE Return(Front(stack), mem)
  <2>1. stack \in Seq(Frames) /\ Nested(stack) /\ Waiting(Front(stack))
    BY <1>1, Below DEF IInv, Calls, Stores
  <2>2. /\ Nested(Front(stack))
        /\ Front(stack) # << >> => Call(Last(Front(stack))).desc = f.desc
        /\ AllHalfway(mem, stack) => AllHalfway(mem, Front(stack)) /\ Halfway(mem, f)
    BY <1>1, <2>1, NestedPop
  <2>3. ASSUME "mistyped" \notin lenient'
        PROVE  /\ Safe(mem, lenient') /\ Flagged(mem) /\ Summed(mem)
               /\ AllHalfway(mem, Front(stack)) /\ Delivered(mem, Front(stack))
    <3>1. Safe(mem, lenient') /\ Flagged(mem) /\ Summed(mem) /\ AllHalfway(mem, stack)
      BY <1>1, <2>3, Keeping DEF Stores
    <3>2. f.desc # NULL => Desc[f.desc].type = "OBJECT"
      BY <1>1, <2>2, <3>1 DEF Halfway
    <3>3. Delivered(mem, Front(stack))
      BY <2>2, <3>2 DEF Delivered, IsScalar, ScalarKind
    <3> QED BY <2>2, <3>1, <3>3
  <2> QED BY <1>1, <1>3, <2>1, <2>2, <2>3, ReturnStores
<1>4. CASE Reject("INVALID_JSON")
  BY <1>1, <1>4, RejectStores
<1> QED BY <1>1, <1>2, <1>3, <1>4

LEMMA ArrayNextStores ==
  ASSUME IInv, Stores, ArrayNext
  PROVE  Stores'
<1> DEFINE f == Last(stack)
<1>1. /\ Running /\ pc = "next" /\ f.kind = "array" /\ stack # << >>
      /\ UNCHANGED lenient
      /\ \/ UNCHANGED <<stack, mem, result, lenient>>
         \/ EndArray(Front(stack), f, f.count)
         \/ Reject("INVALID_JSON")
  BY DEF ArrayNext, Running, Stopped, IInv, Shape
<1>2. CASE UNCHANGED <<stack, mem, result, lenient>>
  BY <1>1, <1>2, QuietStores
<1>3. CASE EndArray(Front(stack), f, f.count)
  <2>1. /\ stack \in Seq(Frames) /\ Nested(stack) /\ Waiting(Front(stack))
        /\ f \in Frames /\ FrameOK(f) /\ f.count \in Nat
    BY <1>1, Below DEF IInv, Calls, Stores
  <2>2. /\ Nested(Front(stack))
        /\ Front(stack) # << >> => Call(Last(Front(stack))).desc = f.desc
        /\ AllHalfway(mem, stack) => AllHalfway(mem, Front(stack)) /\ Halfway(mem, f)
    BY <1>1, <2>1, NestedPop
  <2>3. f.desc # NULL => <<f.desc, f.out>> \in Places
    BY <2>1 DEF FrameOK
  <2>4. f.desc # NULL => f.count <= Desc[f.desc].capacity
    <3>1. Len(stack) \in DOMAIN stack /\ f = stack[Len(stack)]
      BY <1>1, <2>1 DEF Last
    <3>2. f.desc # NULL => Desc[f.desc].capacity \in Nat
      BY <2>1, DescType DEF Frames
    <3> QED BY <1>1, <2>1, <3>1, <3>2 DEF IInv, ArrayBound, InBounds
  <2>5. ASSUME "mistyped" \notin lenient'
        PROVE  /\ AllHalfway(mem, Front(stack))
               /\ f.desc # NULL =>
                    /\ Desc[f.desc].type = "ARRAY"
                    /\ Decoded(mem, ElemDesc(f), Base(f), f.count, ElemSize(f))
    <3>1. AllHalfway(mem, stack)
      BY <1>1, <2>5 DEF Stores
    <3> QED BY <1>1, <2>2, <3>1 DEF Halfway
  <2> HIDE DEF f
  <2> QED BY <1>1, <1>3, <2>1, <2>2, <2>3, <2>4, <2>5, EndArrayStores
<1>4. CASE Reject("INVALID_JSON")
  BY <1>1, <1>4, RejectStores
<1> QED BY <1>1, <1>2, <1>3, <1>4

-----------------------------------------------------------------------------
(* The theorems.                                                           *)

LEMMA InitStores == Init => Stores
<1> SUFFICES ASSUME Init PROVE Stores
  OBVIOUS
<1>1. Nested(stack) /\ AllHalfway(mem, stack) /\ result = "NONE"
  BY DEF Init, Nested, AllHalfway
<1>2. Flagged(mem) /\ Summed(mem)
  BY DEF Init, Flagged, Summed, HoldsIn
<1>3. ExistMeansStored /\ CountCoversElements
  BY DEF Init, ExistMeansStored, CountCoversElements, Holds
<1> QED BY <1>1, <1>2, <1>3 DEF Stores

LEMMA NextStores == IInv /\ Stores /\ [Next]_vars => Stores'
<1> SUFFICES ASSUME IInv, Stores, [Next]_vars PROVE Stores'
  OBVIOUS
<1>1. CASE UNCHANGED vars
  <2>1. UNCHANGED <<pc, stack, mem, result, lenient>>
    BY <1>1 DEF vars
  <2>2. \A d, o : Stored(d, o) => Stored(d, o)'
    BY <2>1 DEF Stored, Holds
  <2>3. ExistMeansStored'
    BY <2>1, <2>2 DEF Stores, ExistMeansStored, Holds
  <2>4. CountCoversElements'
    BY <2>1, <2>2 DEF Stores, CountCoversElements, Holds
  <2> QED BY <2>1, <2>3, <2>4 DEF Stores, Running
<1>2. CASE DecodeNull
  BY <1>2, NullStores
<1>3. CASE DecodeBool
  BY <1>3, BoolStores
<1>4. CASE DecodeString
  BY <1>4, StringStores
<1>5. CASE DecodeNumber
  BY <1>5, NumberStores
<1>6. CASE RefuseToken
  BY <1>6, RejectStores DEF RefuseToken, Take, Running, Stopped
<1>7. CASE OpenObject
  BY <1>7, OpenObjectStores
<1>8. CASE OpenArray
  BY <1>8, OpenArrayStores
<1>9. CASE ObjectKey
  BY <1>9, ObjectKeyStores
<1>10. CASE ObjectColon
  BY <1>10, ObjectColonStores
<1>11. CASE ObjectNext
  BY <1>11, ObjectNextStores
<1>12. CASE ArrayNext
  BY <1>12, ArrayNextStores
<1>13. CASE LexError
  BY <1>13, RejectStores DEF LexError, Running
<1>14. CASE Terminated
  BY <1>1, <1>14 DEF Terminated
<1> QED BY <1>1, <1>2, <1>3, <1>4, <1>5, <1>6, <1>7, <1>8, <1>9, <1>10, <1>11,
           <1>12, <1>13, <1>14 DEF Next

\* Every reachable state of the decoder satisfies Stores.
THEOREM StoresInvariance == Spec => []Stores
BY Invariance, InitStores, NextStores, PTL DEF Spec

\* Whatever the input, and whether decoding succeeds or fails: an exist flag
\* that decode_object_key_value has set stands for a scalar member that
\* decode_value has stored, unless the input brought an array or an object
\* where none is described.
THEOREM ExistFlagsTellTheTruth == Spec => []ExistMeansStored
<1>1. Stores => ExistMeansStored
  BY DEF Stores
<1> QED BY <1>1, StoresInvariance, PTL

\* Whatever the input: the count decode_array stores promises no element that
\* was not decoded into a slot of the array.
THEOREM CountsTellTheTruth == Spec => []CountCoversElements
<1>1. Stores => CountCoversElements
  BY DEF Stores
<1> QED BY <1>1, StoresInvariance, PTL
=============================================================================
