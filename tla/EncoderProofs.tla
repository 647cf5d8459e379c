--------------------------- MODULE EncoderProofs ---------------------------
(***************************************************************************)
(* The encoder and its simple writer, for every table of descriptors,      *)
(* every structure that holds what they describe, every size of the buffer *)
(* and every width of a size_t: the types and the ranges of the loops,     *)
(* what is read of the structure, what happens to the buffer, that the     *)
(* writer keeps its contract, what text is written and when it is said to  *)
(* be complete.                                                            *)
(***************************************************************************)
EXTENDS EncoderText, Induction, SequenceTheorems

\* What the encoder does next, once the writes it has to do are done.
Now == IF pc = "write" THEN after ELSE pc

\* An active call encodes what its descriptor describes where it was called.
FrameOK(m, f) ==
  /\ <<f.desc, f.in>> \in PlacesOf(m)
  /\ Desc[f.desc].type = IF f.kind = "object" THEN "OBJECT" ELSE "ARRAY"

\* Where the loop of an active call can be in the structure m.
RangeIn(m, f) ==
  f.i \in 1 .. 1 + IF f.kind = "object"
                     THEN Len(AttrsOf(f))
                     ELSE m[f.in + Desc[f.desc].count_offset].val

\* The loop is at a member that exists, or at an element.
PartIn(m, f) ==
  IF f.kind = "object"
    THEN /\ f.i \in 1 .. Len(AttrsOf(f))
         /\ m[Base(f) + AttrsOf(f)[f.i].exist_offset].val
    ELSE f.i \in 1 .. m[f.in + Desc[f.desc].count_offset].val

\* A stack of calls over the structure m: every loop below the top is at a
\* part; the top one is when its part is about to be encoded or has just been.
StackIn(m, stack, now) ==
  /\ stack \in Seq(Calls)
  /\ \A k \in DOMAIN stack : RangeIn(m, stack[k]) /\ FrameOK(m, stack[k])
  /\ \A k \in DOMAIN stack :
       k < Len(stack) \/ now \in {"value", "return"} => PartIn(m, stack[k])

\* The fields of the writer, and its buffer.
WriterOK ==
  /\ len \in 0 .. WordSize - 1 /\ cap \in Capacities
  /\ buf \in Seq(STRING \cup {Junk})
  /\ BufferKept

\* The state of the encoder: it writes nothing but what is in Writes.
EncoderOK ==
  /\ pc \in {"value", "write", "loop", "return", "done"}
  /\ after \in {"value", "loop", "return"}
  /\ todo \in Seq(Seq(STRING))
  /\ result \in {"NONE", "INSUFFICIENT_SPACE", "NOT_SUPPORT"}
  /\ in \in Inputs
  /\ StackIn(in, calls, Now)
  /\ Now = "loop" => calls # << >>
  /\ pc = "write" => todo # << >>
  /\ \A k \in DOMAIN todo : todo[k] \in Writes

\* The inductive invariant.
IInv == WriterOK /\ EncoderOK

-----------------------------------------------------------------------------
(* The text of scalars.                                                    *)

\* Digits, the text snprintf gives of a number, is defined by recursion: a
\* function follows its rule, by the lemma of recursion, and Digits is one.
LEMMA DigitsRule ==
  Digits = [n \in Nat |->
              IF n < 10 THEN <<Char[48 + n]>>
              ELSE Append(Digits[n \div 10], Char[48 + (n % 10)])]
<1> DEFINE V == Seq(STRING)
           mu == [n \in Nat |-> n]
           Rule(f, n) == IF n < 10 THEN <<Char[48 + n]>>
                         ELSE Append(f[n \div 10], Char[48 + (n % 10)])
           R == [t \in [Nat -> V] \X Nat |-> Rule(t[1], t[2])]
<1>1. /\ \A n \in Nat : n >= 10 => n \div 10 \in Nat /\ n \div 10 < n
      /\ \A n \in Nat : n < 10 => 48 + n \in 48 .. 57
      /\ \A n \in Nat : n % 10 \in 0 .. 9
  OBVIOUS
<1>2. \A k \in 0 .. 9 : <<Char[48 + k]>> \in V /\ \A v \in V : Append(v, Char[48 + k]) \in V
  <2>1. \A k \in 0 .. 9 : Char[48 + k] \in STRING
    BY BytesAreStrings DEF Bytes
  <2> QED BY <2>1
<1>3. R \in [[Nat -> V] \X Nat -> V]
  <2>1. ASSUME NEW f \in [Nat -> V], NEW n \in Nat PROVE Rule(f, n) \in V
    <3>1. CASE n < 10
      <4>1. n \in 0 .. 9 /\ Rule(f, n) = <<Char[48 + n]>>
        BY <3>1
      <4> HIDE DEF Rule, V
      <4> QED BY <1>2, <4>1
    <3>2. CASE ~(n < 10)
      <4>1. /\ Rule(f, n) = Append(f[n \div 10], Char[48 + (n % 10)])
            /\ n \div 10 \in Nat /\ n % 10 \in 0 .. 9
        BY <1>1, <3>2
      <4> HIDE DEF Rule, V
      <4>2. f[n \div 10] \in V
        BY <4>1
      <4> QED BY <1>2, <4>1, <4>2
    <3> QED BY <3>1, <3>2
  <2> HIDE DEF Rule, V
  <2> QED BY <2>1
<1>4. \A f \in [Nat -> V] : \A n \in Nat : R[<<f, n>>] = Rule(f, n)
  <2> HIDE DEF Rule, V
  <2> QED OBVIOUS
<1>5. LooksBelow(Nat, V, mu, R)
  <2>1. ASSUME NEW n \in Nat, NEW f \in [Nat -> V], NEW g \in [Nat -> V],
               \A m \in Nat : mu[m] < mu[n] => f[m] = g[m]
        PROVE  Rule(f, n) = Rule(g, n)
    <3>1. n >= 10 => f[n \div 10] = g[n \div 10]
      BY <1>1, <2>1
    <3> QED BY <3>1
  <2> HIDE DEF R, Rule, mu, V
  <2> QED BY <1>4, <2>1 DEF LooksBelow
<1>6. V # {} /\ mu \in [Nat -> Nat]
  <2>1. << >> \in V
    OBVIOUS
  <2> HIDE DEF V
  <2> QED BY <2>1
<1> HIDE DEF R, Rule, mu, V
<1>7. \E f : f = [n \in Nat |-> Rule(f, n)]
  <2>1. PICK f : IsSolution(Nat, V, R, f)
    BY <1>3, <1>5, <1>6, Recursion
  <2>2. f = [n \in Nat |-> Rule(f, n)]
    BY <1>4, <2>1 DEF IsSolution
  <2> QED BY <2>2
<1>8. Digits = CHOOSE f : f = [n \in Nat |-> Rule(f, n)]
  BY DEF Digits, Rule
<1>9. Digits = [n \in Nat |-> Rule(Digits, n)]
  BY <1>7, <1>8
<1> QED BY <1>9 DEF Rule

LEMMA DigitsType == \A n \in Nat : Digits[n] \in Seq(STRING)
<1> DEFINE S == {k \in Nat : \A n \in 0 .. k : Digits[n] \in Seq(STRING)}
<1> DEFINE rule(n) == IF n < 10 THEN <<Char[48 + n]>>
                      ELSE Append(Digits[n \div 10], Char[48 + (n % 10)])
<1>0. \A n \in Nat : Digits[n] = rule(n)
  <2> HIDE DEF rule
  <2>1. Digits = [n \in Nat |-> rule(n)]
    BY DigitsRule DEF rule
  <2> QED BY <2>1
<1>1. \A k \in 0 .. 9 : Char[48 + k] \in STRING
  BY BytesAreStrings DEF Bytes
<1>2. ASSUME NEW n \in Nat, n >= 10 => Digits[n \div 10] \in Seq(STRING)
      PROVE  Digits[n] \in Seq(STRING)
  <2>1. CASE n < 10
    <3>0. rule(n) = <<Char[48 + n]>> /\ n \in 0 .. 9
      BY <2>1
    <3> HIDE DEF rule
    <3>1. Digits[n] = <<Char[48 + n]>> /\ n \in 0 .. 9
      BY <1>0, <3>0
    <3>2. Char[48 + n] \in STRING
      BY <1>1, <3>1
    <3> QED BY <3>1, <3>2
  <2>2. CASE n >= 10
    <3>0. rule(n) = Append(Digits[n \div 10], Char[48 + (n % 10)])
      BY <2>2
    <3> HIDE DEF rule
    <3>1. Digits[n] = Append(Digits[n \div 10], Char[48 + (n % 10)])
      BY <1>0, <3>0
    <3>2. n % 10 \in 0 .. 9
      OBVIOUS
    <3>3. Char[48 + (n % 10)] \in STRING
      BY <1>1, <3>2
    <3> QED BY <1>2, <2>2, <3>1, <3>3
  <2> QED BY <2>1, <2>2
<1>3. 0 \in S
  BY <1>2
<1>4. ASSUME NEW k \in Nat, k \in S PROVE k + 1 \in S
  <2>1. k + 1 >= 10 => (k + 1) \div 10 \in 0 .. k
    OBVIOUS
  <2>2. k + 1 >= 10 => Digits[(k + 1) \div 10] \in Seq(STRING)
    BY <1>4, <2>1
  <2>3. Digits[k + 1] \in Seq(STRING)
    BY <1>2, <2>2
  <2> QED BY <1>4, <2>3
<1> HIDE DEF S
<1>5. \A k \in Nat : k \in S
  BY <1>3, <1>4, SetInduction
<1>6. \A n \in Nat : n \in 0 .. n
  OBVIOUS
<1> QED BY <1>5, <1>6 DEF S

LEMMA NumbersType ==
  ASSUME NEW n \in Int
  PROVE  Decimal(n) \in Seq(STRING) /\ Tenths(n) \in Seq(STRING)
<1>1. <<"-">> \in Seq(STRING) /\ <<".">> \in Seq(STRING) /\ << >> \in Seq(STRING)
  <2>1. "-" \in STRING /\ "." \in STRING
    BY LiteralsAreStrings DEF Literals
  <2> QED BY <2>1
<1>2. Decimal(n) \in Seq(STRING)
  <2>1. CASE n < 0
    <3>1. Digits[-n] \in Seq(STRING)
      BY <2>1, DigitsType
    <3> QED BY <1>1, <2>1, <3>1 DEF Decimal
  <2>2. CASE ~(n < 0)
    BY <2>2, DigitsType DEF Decimal
  <2> QED BY <2>1, <2>2
<1>3. Tenths(n) \in Seq(STRING)
  <2> DEFINE abs == IF n < 0 THEN -n ELSE n
             sign == IF n < 0 THEN <<"-">> ELSE << >>
             fraction == IF abs % 10 = 0 THEN << >> ELSE <<".">> \o Digits[abs % 10]
  <2>1. abs \in Nat /\ abs % 10 \in Nat /\ abs \div 10 \in Nat
    OBVIOUS
  <2>2. Digits[abs \div 10] \in Seq(STRING) /\ Digits[abs % 10] \in Seq(STRING)
    BY <2>1, DigitsType
  <2>3. sign \in Seq(STRING)
    BY <1>1
  <2> HIDE DEF abs, sign
  <2>4. fraction \in Seq(STRING)
    <3>1. CASE abs % 10 = 0
      BY <1>1, <3>1
    <3>2. CASE abs % 10 # 0
      BY <1>1, <2>2, <3>2
    <3> QED BY <3>1, <3>2
  <2>5. Tenths(n) = sign \o Digits[abs \div 10] \o fraction
    BY DEF Tenths, abs, sign
  <2> HIDE DEF fraction
  <2> QED BY <2>2, <2>3, <2>4, <2>5
<1> QED BY <1>2, <1>3

LEMMA EscapesType == \A c \in DOMAIN EscapeLetter : EscapeLetter[c] \in STRING
<1> DEFINE table == {<<e[2], e[1]>> : e \in ControlLetters} \cup {<<c, c>> : c \in {"\"", "\\"}}
           letter(c) == CHOOSE e \in table : e[1] = c
<1>1. \A e \in table : e[2] \in STRING
  <2>0. {"b", "f", "n", "r", "t"} \subseteq STRING
    BY LiteralsAreStrings, Zenon DEF Literals
  <2>1. \A e \in ControlLetters : e[1] \in STRING
    BY <2>0 DEF ControlLetters
  <2>2. \A c \in {"\"", "\\"} : c \in STRING
    BY LiteralsAreStrings, Zenon DEF Literals
  <2>3. ASSUME NEW e \in table PROVE e[2] \in STRING
    <3>1. ASSUME NEW f \in ControlLetters, e = <<f[2], f[1]>> PROVE e[2] \in STRING
      BY <2>1, <3>1
    <3>2. ASSUME NEW c \in {"\"", "\\"}, e = <<c, c>> PROVE e[2] \in STRING
      BY <2>2, <3>2
    <3> QED BY <3>1, <3>2
  <2> QED BY <2>3
<1>2. EscapeLetter = [c \in {e[1] : e \in table} |-> letter(c)[2]]
  BY DEF EscapeLetter
<1> HIDE DEF table
<1>3. \A c \in {e[1] : e \in table} : letter(c) \in table
  OBVIOUS
<1> HIDE DEF letter
<1> QED BY <1>1, <1>2, <1>3

\* Literals in sequences (the provers read them only as members of a set).
LEMMA OneText == \A S : \A c \in S : <<c>> \in Seq(S)
OBVIOUS

LEMMA TwoTexts == \A S : \A b, c \in S : <<b, c>> \in Seq(S)
OBVIOUS

LEMMA QuoteType == Quote \in Seq(STRING)
<1>1. "\"" \in STRING
  BY LiteralsAreStrings, Zenon DEF Literals
<1> QED BY <1>1, OneText, Zenon DEF Quote

LEMMA EscapedType == ASSUME NEW c \in STRING PROVE Escaped(c) \in Seq(STRING)
<1>1. "\\" \in STRING
  BY LiteralsAreStrings, Zenon DEF Literals
<1>2. CASE c \in DOMAIN EscapeLetter
  <2>1. EscapeLetter[c] \in STRING
    BY <1>2, EscapesType
  <2>2. <<"\\", EscapeLetter[c]>> \in Seq(STRING)
    BY <1>1, <2>1, TwoTexts, Zenon
  <2> QED BY <1>2, <2>2, Zenon DEF Escaped
<1>3. CASE c \notin DOMAIN EscapeLetter
  BY <1>3, OneText, Zenon DEF Escaped
<1> QED BY <1>2, <1>3

LEMMA CstrWritesType ==
  ASSUME NEW string \in Seq(STRING)
  PROVE  CstrWrites(string) \in Seq(Seq(STRING)) /\ CstrWrites(string) # << >>
<1> DEFINE middle == [i \in DOMAIN string |-> Escaped(string[i])]
<1>1. middle \in Seq(Seq(STRING))
  <2>1. ASSUME NEW i \in DOMAIN string PROVE Escaped(string[i]) \in Seq(STRING)
    <3>1. string[i] \in STRING
      OBVIOUS
    <3> QED BY <3>1, EscapedType
  <2>2. DOMAIN string = 1 .. Len(string) /\ Len(string) \in Nat
    OBVIOUS
  <2> QED BY <2>1, <2>2
<1>2. CstrWrites(string) = <<Quote>> \o middle \o <<Quote>>
  BY DEF CstrWrites
<1> HIDE DEF middle
<1> QED BY <1>1, <1>2, QuoteType

LEMMA ScalarWritesType ==
  ASSUME NEW type \in DOMAIN ScalarCell, NEW val \in ValuesOf[ScalarCell[type]]
  PROVE  ScalarWrites(type, val) \in Seq(Seq(STRING)) /\ ScalarWrites(type, val) # << >>
<1>1. type \in {"BOOL", "INT", "INT64", "DOUBLE", "CSTR"}
  BY DEF ScalarCell
<1>2. CASE type = "BOOL"
  <2> DEFINE text == IF val THEN <<"t", "r", "u", "e">> ELSE <<"f", "a", "l", "s", "e">>
  <2>1. <<"t", "r", "u", "e">> \in Seq(STRING) /\ <<"f", "a", "l", "s", "e">> \in Seq(STRING)
    <3>1. {"t", "r", "u", "e", "f", "a", "l", "s"} \subseteq STRING
      BY LiteralsAreStrings, Zenon DEF Literals
    <3> QED BY <3>1
  <2>2. ScalarWrites(type, val) = <<text>>
    BY <1>2 DEF ScalarWrites
  <2>3. text \in Seq(STRING)
    BY <2>1, Zenon
  <2> HIDE DEF text
  <2> QED BY <2>2, <2>3
<1>3. CASE type \in {"INT", "INT64"}
  <2>1. val \in Int /\ ScalarWrites(type, val) = <<Decimal(val)>>
    BY <1>3 DEF ScalarCell, ValuesOf, ScalarWrites
  <2> QED BY <2>1, NumbersType
<1>4. CASE type = "DOUBLE"
  <2>1. val \in Int /\ ScalarWrites(type, val) = <<Tenths(val)>>
    BY <1>4 DEF ScalarCell, ValuesOf, ScalarWrites
  <2> QED BY <2>1, NumbersType
<1>5. CASE type = "CSTR"
  <2>1. val \in Seq(STRING) /\ ScalarWrites(type, val) = CstrWrites(val)
    BY <1>5 DEF ScalarCell, ValuesOf, ScalarWrites
  <2> QED BY <2>1, CstrWritesType
<1> QED BY <1>1, <1>2, <1>3, <1>4, <1>5

-----------------------------------------------------------------------------
(* What can be written at once.                                            *)

LEMMA PunctuationWrites ==
  ASSUME NEW c \in Punctuation
  PROVE  <<c>> \in Writes /\ <<c>> \in Seq(STRING)
<1>1. c \in STRING
  BY LiteralsAreStrings, Zenon DEF Literals, Punctuation
<1>2. <<c>> \in Seq(STRING)
  BY <1>1, OneText, Zenon
<1>3. <<c>> \in Writes
  BY Zenon DEF Writes
<1> QED BY <1>2, <1>3

LEMMA QuoteWrites == Quote \in Writes
BY DEF Writes

LEMMA NameWrites ==
  ASSUME NEW d \in Descs, NEW i \in DOMAIN Desc[d].attr_descs
  PROVE  LET name == Desc[d].attr_descs[i].name
         IN  name \in Writes /\ name \in Seq(STRING)
<1> DEFINE a == Desc[d].attr_descs[i]
<1>1. a \in AttrOver(Descs) /\ a \in Range(Desc[d].attr_descs)
  BY EncoderAssumption DEF DescOver, Range
<1>2. a.name \in Seq(STRING)
  BY <1>1 DEF AttrOver
<1> HIDE DEF a
<1>3. a.name \in Names
  BY <1>1 DEF Names
<1> QED BY <1>2, <1>3 DEF a, Writes

LEMMA ScalarsInWrites ==
  ASSUME NEW d \in Descs, Desc[d].type \in DOMAIN ScalarCell,
         NEW m \in Inputs, NEW a, Holds(m, a, ScalarCell[Desc[d].type]),
         NEW w \in Range(ScalarWrites(Desc[d].type, m[a].val))
  PROVE  w \in Writes
<1>1. m[a].val \in CellValues(ScalarCell[Desc[d].type])
  <2>1. m[a] \in UNION {Range(n) : n \in Inputs} /\ m[a].kind = ScalarCell[Desc[d].type]
    BY DEF Holds, Range
  <2> QED BY <2>1 DEF CellValues
<1>2. w \in ScalarTexts
  BY <1>1 DEF ScalarTexts
<1> QED BY <1>2 DEF Writes
-----------------------------------------------------------------------------
(* The writer.                                                             *)

LEMMA SameSequence ==
  ASSUME NEW S, NEW s \in Seq(S), NEW t \in Seq(S), Len(s) = Len(t),
         \A i \in 1 .. Len(s) : s[i] = t[i]
  PROVE  s = t
OBVIOUS

LEMMA TextType == ASSUME WriterOK PROVE Text \in Seq(STRING) /\ Len(Text) = len
<1>1. len \in Nat /\ cap \in Nat /\ Len(buf) = cap /\ len <= cap
  BY CapacityAssumption DEF WriterOK, BufferKept
<1>2. Text \in Seq(STRING \cup {Junk}) /\ Len(Text) = len
  BY <1>1 DEF WriterOK, Text
<1>3. \A i \in DOMAIN Text : Text[i] # Junk
  BY DEF WriterOK, BufferKept, Range
<1>4. \A i \in 1 .. Len(Text) : Text[i] \in STRING
  BY <1>2, <1>3
<1> QED BY <1>2, <1>4

\* A write that is taken is added to the text, and stays within the buffer.
LEMMA TakenStep ==
  ASSUME WriterOK, NEW data \in Seq(STRING), Taken(data)
  PROVE  WriterOK' /\ Text' = Text \o data
<1>1. len \in Nat /\ cap \in Nat /\ Len(buf) = cap /\ len <= cap /\ cap < WordSize
      /\ WordSize \in Nat /\ Len(data) \in Nat /\ DOMAIN buf = 1 .. cap
  BY CapacityAssumption DEF WriterOK, BufferKept
<1>2. Room = cap - len
  BY <1>1 DEF Room
<1>3. len' = len + Len(data) /\ len' <= cap /\ cap' = cap
  BY <1>1, <1>2 DEF Taken
<1>4. buf' = [i \in 1 .. cap |->
                IF i \in len + 1 .. len' THEN data[i - len] ELSE buf[i]]
  BY <1>1, <1>3 DEF Taken
<1>5. \A i \in len + 1 .. len' : data[i - len] \in STRING
  <2>1. \A j \in 1 .. Len(data) : data[j] \in STRING
    OBVIOUS
  <2>2. \A i \in len + 1 .. len' : i - len \in 1 .. Len(data)
    BY <1>1, <1>3
  <2> QED BY <2>1, <2>2
<1>6. buf' \in Seq(STRING \cup {Junk}) /\ Len(buf') = cap
  <2>1. \A i \in 1 .. cap : buf[i] \in STRING \cup {Junk}
    BY <1>1 DEF WriterOK
  <2>2. \A i \in 1 .. cap : buf'[i] \in STRING \cup {Junk}
    BY <1>4, <1>5, <2>1
  <2> QED BY <1>1, <1>4, <2>2
<1>7. Text \in Seq(STRING) /\ Len(Text) = len
  BY TextType
<1>8. Text' = Text \o data
  <2>1. Text' = SubSeq(buf', 1, len')
    BY DEF Text
  <2>2. Text' \in Seq(STRING \cup {Junk}) /\ Len(Text') = len'
    BY <1>1, <1>3, <1>6, <2>1
  <2>3. ASSUME NEW i \in 1 .. len' PROVE Text'[i] = (Text \o data)[i]
    <3>1. Text'[i] = buf'[i]
      BY <1>1, <1>3, <1>6, <2>1
    <3>2. CASE i \in 1 .. len
      <4>1. buf'[i] = buf[i] /\ Text[i] = buf[i]
        BY <1>1, <1>3, <1>4, <3>2 DEF Text
      <4> QED BY <1>1, <1>7, <3>1, <3>2, <4>1
    <3>3. CASE i \notin 1 .. len
      <4>1. i \in len + 1 .. len'
        BY <1>1, <1>3, <3>3
      <4>2. buf'[i] = data[i - len]
        BY <1>1, <1>3, <1>4, <4>1
      <4> QED BY <1>1, <1>3, <1>7, <3>1, <4>1, <4>2
    <3> QED BY <3>2, <3>3
  <2>4. Text \o data \in Seq(STRING \cup {Junk}) /\ Len(Text \o data) = len'
    BY <1>1, <1>3, <1>7
  <2> QED BY <2>2, <2>3, <2>4, SameSequence
<1>9. Junk \notin Range(Text')
  <2>1. Text' \in Seq(STRING)
    BY <1>7, <1>8
  <2>2. \A i \in DOMAIN Text' : Text'[i] \in STRING
    BY <2>1
  <2> QED BY <2>2, JunkAssumption DEF Range
<1>10. \A i \in len' + 1 .. cap : buf'[i] = Junk
  <2>1. \A i \in len + 1 .. cap : buf[i] = Junk
    BY DEF WriterOK, BufferKept
  <2> QED BY <1>1, <1>3, <1>4, <2>1
<1>11. BufferKept'
  BY <1>3, <1>6, <1>9, <1>10 DEF BufferKept
<1> QED BY <1>1, <1>3, <1>6, <1>8, <1>11 DEF WriterOK

\* A write that is refused leaves no trace, and neither do the encoder's own
\* steps.
LEMMA RefusedStep ==
  ASSUME WriterOK, UNCHANGED <<buf, cap, len>>
  PROVE  WriterOK' /\ Text' = Text
BY DEF WriterOK, BufferKept, Text

-----------------------------------------------------------------------------
(* What is read of the structure.                                          *)

\* An object's flags are there, and the members that exist.
LEMMA ObjectFacts ==
  ASSUME in \in Inputs, NEW f \in Calls, FrameOK(in, f), f.kind = "object"
  PROVE  /\ AttrsOf(f) \in Seq(AttrOver(Descs))
         /\ \A i \in DOMAIN AttrsOf(f) :
              Exists(f, i) => <<AttrsOf(f)[i].desc, Base(f)>> \in PlacesOf(in)
<1>1. f.desc \in Descs /\ Desc[f.desc].type = "OBJECT" /\ ReadableAt(in, f.desc, f.in)
  <2>1. <<f.desc, f.in>> \in PlacesOf(in) /\ Desc[f.desc].type = "OBJECT"
    BY DEF FrameOK
  <2> QED BY <2>1, ReadableAssumption DEF Calls
<1>2. AttrsOf(f) \in Seq(AttrOver(Descs))
  BY <1>1, EncoderAssumption DEF AttrsOf, DescOver
<1>3. ASSUME NEW i \in DOMAIN AttrsOf(f), Exists(f, i)
      PROVE  <<AttrsOf(f)[i].desc, Base(f)>> \in PlacesOf(in)
  <2>1. HasParts(f.desc) /\ i \in 1 .. PartCount(in, f.desc, f.in)
    BY <1>1, <1>2, <1>3 DEF HasParts, PartCount, AttrsOf
  <2>2. Present(in, f.desc, f.in, i)
    BY <1>3 DEF Present, FlagAt, Exists, Base, AttrsOf
  <2>3. PartAt(f.desc, f.in, i) \in PlacesOf(in)
    BY <1>1, <2>1, <2>2 DEF ReadableAt
  <2> QED BY <1>1, <2>3 DEF PartAt, AttrsOf, Base
<1> QED BY <1>2, <1>3

\* An array's count is there, and that many elements.
LEMMA ArrayFacts ==
  ASSUME in \in Inputs, NEW f \in Calls, FrameOK(in, f), f.kind = "array"
  PROVE  /\ ElemCount(f) \in Nat
         /\ \A i \in 1 .. ElemCount(f) :
              <<Desc[f.desc].elem_attr_desc,
                Base(f) + (i - 1) * Desc[f.desc].elem_size>> \in PlacesOf(in)
<1>1. Desc[f.desc].type = "ARRAY" /\ ReadableAt(in, f.desc, f.in)
  <2>1. <<f.desc, f.in>> \in PlacesOf(in) /\ Desc[f.desc].type = "ARRAY"
    BY DEF FrameOK
  <2> QED BY <2>1, ReadableAssumption DEF Calls
<1>2. ElemCount(f) \in Nat
  BY <1>1 DEF ReadableAt, CountAt, Holds, ValuesOf, ElemCount
<1>3. ASSUME NEW i \in 1 .. ElemCount(f)
      PROVE  <<Desc[f.desc].elem_attr_desc,
               Base(f) + (i - 1) * Desc[f.desc].elem_size>> \in PlacesOf(in)
  <2>1. HasParts(f.desc) /\ i \in 1 .. PartCount(in, f.desc, f.in)
    BY <1>1 DEF HasParts, PartCount, CountAt, ElemCount
  <2>2. Present(in, f.desc, f.in, i)
    BY <1>1 DEF Present
  <2>3. PartAt(f.desc, f.in, i) \in PlacesOf(in)
    BY <1>1, <2>1, <2>2 DEF ReadableAt
  <2> QED BY <1>1, <2>3 DEF PartAt, Base
<1> QED BY <1>2, <1>3

\* The attribute the loop goes to exists, and is none it has left behind.
LEMMA NextAttrFacts ==
  ASSUME in \in Inputs, NEW f \in Calls, FrameOK(in, f), f.kind = "object", NextAttr(f) # 0
  PROVE  NextAttr(f) \in f.i .. Len(AttrsOf(f)) /\ Exists(f, NextAttr(f))
<1> DEFINE present == {i \in f.i .. Len(AttrsOf(f)) : Exists(f, i)}
<1>1. present # {} /\ NextAttr(f) = CHOOSE i \in present : \A j \in present : i <= j
  BY DEF NextAttr
<1>2. present \subseteq Nat
  <2>1. f.i \in Nat
    BY DEF Calls
  <2> QED BY <2>1
<1> HIDE DEF present
<1>3. \E i \in present : \A j \in present : i <= j
  BY <1>1, <1>2, LeastElement
<1>4. NextAttr(f) \in present
  BY <1>1, <1>3
<1> QED BY <1>4 DEF present

\* What is to be encoded next is described where it is.
LEMMA PendingPlace ==
  ASSUME IInv, Now = "value"
  PROVE  /\ <<Pending.desc, Pending.in>> \in PlacesOf(in)
         /\ Pending.desc \in Descs /\ Pending.in \in Nat
         /\ ReadableAt(in, Pending.desc, Pending.in)
<1> DEFINE f == Last(calls)
<1>1. <<Pending.desc, Pending.in>> \in PlacesOf(in)
  <2>1. CASE calls = << >>
    <3>1. in \in Inputs /\ Pending.desc = Root /\ Pending.in = 0
      BY <2>1 DEF Pending, IInv, EncoderOK
    <3> QED BY <3>1, ReadableAssumption
  <2>2. CASE calls # << >>
    <3>1. calls \in Seq(Calls) /\ Len(calls) \in DOMAIN calls
      BY <2>2 DEF IInv, EncoderOK, StackIn
    <3>2. f \in Calls /\ FrameOK(in, f) /\ PartIn(in, f)
      BY <3>1 DEF IInv, EncoderOK, StackIn, Last
    <3>3. f.kind \in {"object", "array"}
      BY <3>2 DEF Calls
    <3>4. Pending = IF f.kind = "object"
                      THEN [desc |-> AttrsOf(f)[f.i].desc, in |-> Base(f)]
                      ELSE [desc |-> Desc[f.desc].elem_attr_desc,
                            in |-> Base(f) + (f.i - 1) * Desc[f.desc].elem_size]
      BY <2>2 DEF Pending
    <3> HIDE DEF f
    <3>5. in \in Inputs
      BY DEF IInv, EncoderOK
    <3>6. CASE f.kind = "object"
      <4>1. AttrsOf(f) \in Seq(AttrOver(Descs)) /\ f.i \in DOMAIN AttrsOf(f) /\ Exists(f, f.i)
        BY <3>2, <3>5, <3>6, ObjectFacts DEF PartIn, Exists
      <4>2. <<AttrsOf(f)[f.i].desc, Base(f)>> \in PlacesOf(in)
        BY <3>2, <3>5, <3>6, <4>1, ObjectFacts
      <4> QED BY <3>4, <3>6, <4>2
    <3>7. CASE f.kind = "array"
      <4>1. f.i \in 1 .. ElemCount(f)
        BY <3>2, <3>7 DEF PartIn, ElemCount
      <4>2. <<Desc[f.desc].elem_attr_desc,
              Base(f) + (f.i - 1) * Desc[f.desc].elem_size>> \in PlacesOf(in)
        BY <3>2, <3>5, <3>7, <4>1, ArrayFacts
      <4> QED BY <3>4, <3>7, <4>2
    <3> QED BY <3>3, <3>6, <3>7
  <2> QED BY <2>1, <2>2
<1>2. Pending.desc \in Descs /\ Pending.in \in Nat
  <2>1. in \in Inputs
    BY DEF IInv, EncoderOK
  <2>2. <<Pending.desc, Pending.in>> \in Descs \X Nat
    BY <1>1, <2>1, ReadableAssumption
  <2> QED BY <2>2
<1>3. ReadableAt(in, Pending.desc, Pending.in)
  <2>1. in \in Inputs
    BY DEF IInv, EncoderOK
  <2> HIDE DEF f
  <2> DEFINE p == <<Pending.desc, Pending.in>>
  <2>2. p[1] = Pending.desc /\ p[2] = Pending.in /\ p \in PlacesOf(in)
    BY <1>1
  <2> HIDE DEF p
  <2>3. ReadableAt(in, p[1], p[2])
    BY <2>1, <2>2, ReadableAssumption
  <2> QED BY <2>2, <2>3
<1> QED BY <1>1, <1>2, <1>3

-----------------------------------------------------------------------------
(* The stack of calls.                                                     *)

LEMMA StackKept ==
  ASSUME NEW m, NEW s, NEW now, StackIn(m, s, now),
         NEW then, then \in {"value", "return"} => now \in {"value", "return"}
  PROVE  StackIn(m, s, then)
BY DEF StackIn

LEMMA StackPushed ==
  ASSUME NEW m, NEW s, StackIn(m, s, "value"),
         NEW f \in Calls, RangeIn(m, f), FrameOK(m, f)
  PROVE  StackIn(m, Append(s, f), "loop")
<1> DEFINE t == Append(s, f)
<1>1. s \in Seq(Calls) /\ t \in Seq(Calls) /\ Len(t) = Len(s) + 1 /\ Len(s) \in Nat
  BY DEF StackIn
<1>2. ASSUME NEW k \in DOMAIN t
      PROVE  \/ k = Len(t) /\ t[k] = f
             \/ k \in DOMAIN s /\ k < Len(t) /\ t[k] = s[k]
  BY <1>1
<1>3. \A k \in DOMAIN s : RangeIn(m, s[k]) /\ FrameOK(m, s[k]) /\ PartIn(m, s[k])
  BY DEF StackIn
<1>4. Len(t) \in Nat
  BY <1>1
<1> HIDE DEF t
<1>5. \A k \in DOMAIN t : RangeIn(m, t[k]) /\ FrameOK(m, t[k])
  BY <1>2, <1>3
<1>6. \A k \in DOMAIN t : k < Len(t) => PartIn(m, t[k])
  BY <1>2, <1>3, <1>4
<1>7. StackIn(m, t, "loop")
  BY <1>1, <1>5, <1>6 DEF StackIn
<1> QED BY <1>7 DEF t

LEMMA StackPopped ==
  ASSUME NEW m, NEW s, NEW now, StackIn(m, s, now), s # << >>, NEW then
  PROVE  StackIn(m, Front(s), then)
<1> DEFINE t == SubSeq(s, 1, Len(s) - 1)
<1>0. s \in Seq(Calls) /\ Len(s) \in Nat /\ Len(s) >= 1
  BY DEF StackIn
<1>a. \A k \in 1 .. Len(s) - 1 : s[k] \in Calls
  BY <1>0
<1>1. /\ t \in Seq(Calls) /\ Len(t) = Len(s) - 1
      /\ \A k \in 1 .. Len(s) - 1 : t[k] = s[k]
  <2> DEFINE n == Len(s) - 1
  <2>0. n \in Nat
    BY <1>0
  <2> HIDE DEF n
  <2>1. n \in Int /\ 1 \in Int /\ n - 1 + 1 = n /\ (~(1 <= n) => n = 0)
    BY <2>0
  <2> HIDE DEF n
  <2>2. /\ SubSeq(s, 1, n) \in Seq(Calls)
        /\ Len(SubSeq(s, 1, n)) = IF 1 <= n THEN n - 1 + 1 ELSE 0
        /\ \A k \in 1 .. n - 1 + 1 : SubSeq(s, 1, n)[k] = s[1 + k - 1]
    BY <1>a, <2>1, SubSeqProperties DEF n
  <2> QED BY <2>1, <2>2 DEF n
<1>2. ASSUME NEW k \in DOMAIN t
      PROVE  k \in DOMAIN s /\ k < Len(s) /\ t[k] = s[k]
  BY <1>0, <1>1
<1>3. \A k \in DOMAIN s : RangeIn(m, s[k]) /\ FrameOK(m, s[k])
                          /\ (k < Len(s) => PartIn(m, s[k]))
  BY DEF StackIn
<1> HIDE DEF t
<1>4. \A k \in DOMAIN t : RangeIn(m, t[k]) /\ FrameOK(m, t[k]) /\ PartIn(m, t[k])
  BY <1>2, <1>3
<1>5. StackIn(m, t, then)
  BY <1>1, <1>4 DEF StackIn
<1> QED BY <1>5 DEF t, Front

LEMMA StackReplaced ==
  ASSUME NEW m, NEW s, NEW now, StackIn(m, s, now), s # << >>,
         NEW f \in Calls, RangeIn(m, f), FrameOK(m, f),
         NEW then, then \in {"value", "return"} => PartIn(m, f)
  PROVE  StackIn(m, [s EXCEPT ![Len(s)] = f], then)
<1> DEFINE t == [s EXCEPT ![Len(s)] = f]
<1>1. s \in Seq(Calls) /\ t \in Seq(Calls) /\ Len(t) = Len(s) /\ Len(s) \in Nat
      /\ Len(s) \in DOMAIN s
  BY DEF StackIn
<1>2. ASSUME NEW k \in DOMAIN t
      PROVE  k \in DOMAIN s /\ t[k] = IF k = Len(s) THEN f ELSE s[k]
  BY <1>1
<1>3. \A k \in DOMAIN s : RangeIn(m, s[k]) /\ FrameOK(m, s[k])
                          /\ (k < Len(s) => PartIn(m, s[k]))
  BY DEF StackIn
<1>4. \A k \in DOMAIN t : k # Len(s) => k < Len(t)
  BY <1>1
<1> HIDE DEF t
<1>5. \A k \in DOMAIN t : RangeIn(m, t[k]) /\ FrameOK(m, t[k])
  BY <1>2, <1>3
<1>6. \A k \in DOMAIN t : k < Len(t) \/ then \in {"value", "return"} => PartIn(m, t[k])
  BY <1>1, <1>2, <1>3, <1>4
<1>7. StackIn(m, t, then)
  BY <1>1, <1>5, <1>6 DEF StackIn
<1> QED BY <1>7 DEF t

-----------------------------------------------------------------------------
(* The steps.                                                              *)

\* The inductive invariant covers the type invariant.
LEMMA InvariantTypes == IInv => TypeOK
<1>1. \A f : InRange(f) <=> RangeIn(in, f)
  BY DEF InRange, RangeIn, ElemCount
<1> QED BY <1>1 DEF IInv, TypeOK, WriterOK, EncoderOK, StackIn

\* The step of an encoder that ends it.
LEMMA StopStep ==
  ASSUME EncoderOK, NEW err \in {"INSUFFICIENT_SPACE", "NOT_SUPPORT", "NONE"},
         Stop(err), UNCHANGED in
  PROVE  EncoderOK'
<1>1. pc' = "done" /\ Now' = "done" /\ UNCHANGED <<in, calls, todo, after>> /\ result' = err
  BY DEF Stop, Now
<1>2. StackIn(in', calls', Now')
  BY <1>1, StackKept DEF EncoderOK
<1> QED BY <1>1, <1>2 DEF EncoderOK

\* The step of an encoder that has something to write.
LEMMA DoStep ==
  ASSUME EncoderOK, UNCHANGED <<in, result>>,
         NEW writes \in Seq(Seq(STRING)), writes # << >>,
         \A k \in DOMAIN writes : writes[k] \in Writes,
         NEW then \in {"value", "loop", "return"}, then = "loop" => calls' # << >>,
         Do(writes, then), StackIn(in, calls', then)
  PROVE  EncoderOK'
<1>1. pc' = "write" /\ todo' = writes /\ after' = then
  BY DEF Do
<1>2. Now' = then
  BY <1>1 DEF Now
<1> QED BY <1>1, <1>2 DEF EncoderOK

LEMMA EncodeScalarStep == ASSUME IInv, EncodeScalar PROVE EncoderOK'
<1> DEFINE d == Pending.desc
           a == Pending.in + Desc[Pending.desc].value_offset
           writes == ScalarWrites(PendingType, in[a].val)
<1>1. EncoderOK /\ Now = "value"
  BY DEF IInv, EncodeScalar, Now
<1>2. /\ UNCHANGED <<in, calls, result>> /\ Do(writes, "return")
      /\ PendingType = Desc[d].type /\ Desc[d].type \in DOMAIN ScalarCell
  BY DEF EncodeScalar, PendingType, ScalarCell
<1>3. d \in Descs /\ Holds(in, a, ScalarCell[Desc[d].type])
  <2>1. ReadableAt(in, Pending.desc, Pending.in) /\ Pending.desc \in Descs
    BY <1>1, PendingPlace
  <2> QED BY <1>2, <2>1 DEF ReadableAt
<1> HIDE DEF d, a
<1>4. writes \in Seq(Seq(STRING)) /\ writes # << >>
  <2>1. in[a].val \in ValuesOf[ScalarCell[Desc[d].type]]
    BY <1>3 DEF Holds
  <2> QED BY <1>2, <2>1, ScalarWritesType
<1>5. \A k \in DOMAIN writes : writes[k] \in Writes
  <2>1. in \in Inputs
    BY <1>1 DEF EncoderOK
  <2>2. \A w \in Range(ScalarWrites(Desc[d].type, in[a].val)) : w \in Writes
    BY <1>2, <1>3, <2>1, ScalarsInWrites
  <2> QED BY <1>2, <2>2 DEF Range
<1>6. StackIn(in, calls', "return")
  BY <1>1, <1>2, StackKept DEF EncoderOK
<1> HIDE DEF writes
<1> QED BY <1>1, <1>2, <1>4, <1>5, <1>6, DoStep

\* A single character to write.
LEMMA OneWrite ==
  ASSUME NEW c \in Punctuation
  PROVE  /\ <<<<c>>>> \in Seq(Seq(STRING)) /\ <<<<c>>>> # << >>
         /\ \A k \in DOMAIN <<<<c>>>> : <<<<c>>>>[k] \in Writes
<1> DEFINE w == <<c>>
<1>1. w \in Writes /\ w \in Seq(STRING)
  BY PunctuationWrites
<1> HIDE DEF w
<1>2. <<w>> \in Seq(Seq(STRING)) /\ <<w>> # << >> /\ \A k \in DOMAIN <<w>> : <<w>>[k] \in Writes
  BY <1>1
<1> QED BY <1>2 DEF w

\* A call is entered with its loop at the first attribute or element.
LEMMA NewCallFacts ==
  ASSUME IInv, Now = "value", NEW kind \in {"object", "array"},
         PendingType = IF kind = "object" THEN "OBJECT" ELSE "ARRAY"
  PROVE  /\ NewCall(kind) \in Calls /\ FrameOK(in, NewCall(kind))
         /\ RangeIn(in, NewCall(kind))
<1> DEFINE f == NewCall(kind)
<1>1. /\ <<Pending.desc, Pending.in>> \in PlacesOf(in)
      /\ Pending.desc \in Descs /\ Pending.in \in Nat
      /\ Desc[Pending.desc].type = IF kind = "object" THEN "OBJECT" ELSE "ARRAY"
  BY PendingPlace DEF PendingType
<1>2. /\ f.kind = kind /\ f.desc = Pending.desc /\ f.in = Pending.in /\ f.i = 1
      /\ f \in Calls
  BY <1>1 DEF NewCall, Calls
<1> HIDE DEF f
<1>3. FrameOK(in, f)
  BY <1>1, <1>2 DEF FrameOK
<1>4. in \in Inputs
  BY DEF IInv, EncoderOK
<1>5. RangeIn(in, f)
  <2>1. CASE kind = "object"
    <3>1. Len(AttrsOf(f)) \in Nat
      BY <1>2, <1>3, <1>4, <2>1, ObjectFacts
    <3> QED BY <1>2, <2>1, <3>1 DEF RangeIn
  <2>2. CASE kind = "array"
    <3>1. ElemCount(f) \in Nat
      BY <1>2, <1>3, <1>4, <2>2, ArrayFacts
    <3> QED BY <1>2, <2>2, <3>1 DEF RangeIn, ElemCount
  <2> QED BY <2>1, <2>2
<1> QED BY <1>2, <1>3, <1>5 DEF f

LEMMA EncodeObjectStep == ASSUME IInv, EncodeObject PROVE EncoderOK'
<1> DEFINE f == NewCall("object")
<1>1. EncoderOK /\ Now = "value" /\ PendingType = "OBJECT"
  BY DEF IInv, EncodeObject, Now
<1>2. UNCHANGED <<in, result>> /\ calls' = Append(calls, f) /\ Do(<<<<"{">>>>, "loop")
  BY DEF EncodeObject
<1>3. f \in Calls /\ FrameOK(in, f) /\ RangeIn(in, f)
  BY <1>1, NewCallFacts
<1> HIDE DEF f
<1>4. StackIn(in, calls', "loop") /\ calls' # << >>
  <2>1. StackIn(in, calls, "value") /\ calls \in Seq(Calls)
    BY <1>1 DEF EncoderOK, StackIn
  <2>2. StackIn(in, Append(calls, f), "loop")
    BY <1>3, <2>1, StackPushed
  <2>3. Append(calls, f) # << >>
    BY <1>3, <2>1
  <2> QED BY <1>2, <2>2, <2>3
<1>5. "{" \in Punctuation
  BY DEF Punctuation
<1> QED BY <1>1, <1>2, <1>4, <1>5, OneWrite, DoStep, Zenon

LEMMA EncodeArrayStep == ASSUME IInv, EncodeArray PROVE EncoderOK'
<1> DEFINE f == NewCall("array")
<1>1. EncoderOK /\ Now = "value" /\ PendingType = "ARRAY"
  BY DEF IInv, EncodeArray, Now
<1>2. UNCHANGED <<in, result>> /\ calls' = Append(calls, f) /\ Do(<<<<"[">>>>, "loop")
  BY DEF EncodeArray
<1>3. f \in Calls /\ FrameOK(in, f) /\ RangeIn(in, f)
  BY <1>1, NewCallFacts
<1> HIDE DEF f
<1>4. StackIn(in, calls', "loop") /\ calls' # << >>
  <2>1. StackIn(in, calls, "value") /\ calls \in Seq(Calls)
    BY <1>1 DEF EncoderOK, StackIn
  <2>2. StackIn(in, Append(calls, f), "loop")
    BY <1>3, <2>1, StackPushed
  <2>3. Append(calls, f) # << >>
    BY <1>3, <2>1
  <2> QED BY <1>2, <2>2, <2>3
<1>5. "[" \in Punctuation
  BY DEF Punctuation
<1> QED BY <1>1, <1>2, <1>4, <1>5, OneWrite, DoStep, Zenon

\* A write is done, and what follows it does not change; or it is refused and
\* the encoder stops.
LEMMA WriteNextStep == ASSUME IInv, WriteNext PROVE IInv'
<1> DEFINE w == Head(todo)
<1>1. WriterOK /\ EncoderOK /\ pc = "write" /\ UNCHANGED in
  BY DEF IInv, WriteNext
<1>2. /\ todo \in Seq(Seq(STRING)) /\ todo # << >> /\ w = todo[1] /\ 1 \in DOMAIN todo
      /\ w \in Seq(STRING) /\ w \in Writes
  BY <1>1 DEF EncoderOK
<1> HIDE DEF w
<1>3. CASE /\ Taken(w) /\ todo' = Tail(todo)
           /\ pc' = IF Tail(todo) = << >> THEN after ELSE "write"
           /\ UNCHANGED <<after, calls, result>>
  <2>1. WriterOK'
    BY <1>1, <1>2, <1>3, TakenStep
  <2>2. Now' = Now /\ pc' \in {"value", "write", "loop", "return", "done"}
    BY <1>1, <1>3 DEF Now, EncoderOK
  <2>3. todo' \in Seq(Seq(STRING)) /\ (pc' = "write" => todo' # << >>)
    <3>1. pc' = "write" => Tail(todo) # << >>
      BY <1>1, <1>3 DEF EncoderOK
    <3> QED BY <1>2, <1>3, <3>1
  <2>4. \A k \in DOMAIN todo' : todo'[k] \in Writes
    <3>1. \A k \in DOMAIN Tail(todo) : k + 1 \in DOMAIN todo /\ Tail(todo)[k] = todo[k + 1]
      BY <1>2
    <3> QED BY <1>1, <1>3, <3>1 DEF EncoderOK
  <2>5. EncoderOK'
    BY <1>1, <1>3, <2>2, <2>3, <2>4 DEF EncoderOK
  <2> QED BY <2>1, <2>5 DEF IInv
<1>4. CASE Refused(w) /\ Stop("INSUFFICIENT_SPACE")
  <2>1. WriterOK'
    BY <1>1, <1>4, RefusedStep DEF Refused
  <2>2. EncoderOK'
    BY <1>1, <1>4, StopStep
  <2> QED BY <2>1, <2>2 DEF IInv
<1> QED BY <1>3, <1>4 DEF WriteNext, w

\* The call on top of the stack.
LEMMA TopCall ==
  ASSUME IInv, calls # << >>
  PROVE  /\ Last(calls) \in Calls /\ FrameOK(in, Last(calls)) /\ RangeIn(in, Last(calls))
         /\ Now \in {"value", "return"} => PartIn(in, Last(calls))
         /\ in \in Inputs /\ Last(calls).kind \in {"object", "array"}
<1>1. calls \in Seq(Calls) /\ Len(calls) \in DOMAIN calls /\ Last(calls) = calls[Len(calls)]
  BY DEF IInv, EncoderOK, StackIn, Last
<1>2. Last(calls) \in Calls
  BY <1>1
<1> QED BY <1>1, <1>2 DEF IInv, EncoderOK, StackIn, Calls

\* The writes in front of the value of a member.
LEMMA MemberWrites ==
  ASSUME NEW d \in Descs, NEW i \in DOMAIN Desc[d].attr_descs, NEW comma \in BOOLEAN
  PROVE  LET writes == (IF comma THEN <<<<",">>>> ELSE << >>)
                         \o <<Quote, Desc[d].attr_descs[i].name, Quote, <<":">>>>
         IN  /\ writes \in Seq(Seq(STRING)) /\ writes # << >>
             /\ \A k \in DOMAIN writes : writes[k] \in Writes
<1> DEFINE T == Writes \cap Seq(STRING)
           name == Desc[d].attr_descs[i].name
           colon == <<":">>
           front == IF comma THEN <<<<",">>>> ELSE << >>
           rest == <<Quote, name, Quote, colon>>
<1>1. Quote \in T /\ name \in T
  BY QuoteType, QuoteWrites, NameWrites
<1>2. colon \in T
  <2>1. ":" \in Punctuation
    BY DEF Punctuation
  <2> QED BY <2>1, PunctuationWrites, Zenon
<1>3. front \in Seq(T)
  <2>1. "," \in Punctuation
    BY DEF Punctuation
  <2>2. <<",">> \in T
    BY <2>1, PunctuationWrites, Zenon
  <2>3. <<<<",">>>> \in Seq(T)
    BY <2>2, OneText, Zenon
  <2>4. << >> \in Seq(T)
    OBVIOUS
  <2> QED BY <2>3, <2>4, Zenon
<1> HIDE DEF name, colon, front
<1>4. rest \in Seq(T) /\ Len(rest) = 4
  BY <1>1, <1>2
<1> HIDE DEF rest
<1> DEFINE writes == front \o rest
<1>5. writes \in Seq(T) /\ writes # << >>
  <2> HIDE DEF T
  <2>1. Len(front) \in Nat
    BY <1>3
  <2>2. writes \in Seq(T) /\ Len(writes) = Len(front) + Len(rest)
    BY <1>3, <1>4, ConcatProperties
  <2> HIDE DEF writes
  <2> QED BY <1>4, <2>1, <2>2
<1> HIDE DEF writes
<1>6. writes \in Seq(Seq(STRING)) /\ \A k \in DOMAIN writes : writes[k] \in Writes
  <2>1. \A k \in 1 .. Len(writes) : writes[k] \in T
    BY <1>5
  <2> QED BY <1>5, <2>1
<1> QED BY <1>5, <1>6 DEF writes, front, rest, name, colon

LEMMA ObjectMemberStep == ASSUME IInv, ObjectMember PROVE EncoderOK'
<1> DEFINE f == Last(calls)
           i == NextAttr(f)
           g == [f EXCEPT !.i = i]
           writes == (IF f.count > 0 THEN <<<<",">>>> ELSE << >>)
                       \o <<Quote, AttrsOf(f)[i].name, Quote, <<":">>>>
<1>1. EncoderOK /\ Now = "loop" /\ calls # << >>
  BY DEF IInv, EncoderOK, ObjectMember, Now
<1>2. /\ UNCHANGED <<in, result>> /\ f.kind = "object" /\ i # 0
      /\ calls' = [calls EXCEPT ![Len(calls)].i = i] /\ Do(writes, "value")
  BY DEF ObjectMember
<1>3. /\ f \in Calls /\ FrameOK(in, f) /\ in \in Inputs
      /\ calls \in Seq(Calls) /\ f = calls[Len(calls)] /\ Len(calls) \in DOMAIN calls
  BY <1>1, TopCall DEF EncoderOK, StackIn, Last
<1>4. calls' = [calls EXCEPT ![Len(calls)] = g]
  BY <1>2, <1>3
<1> HIDE DEF f
<1>5. /\ i \in f.i .. Len(AttrsOf(f)) /\ Exists(f, i) /\ f.i \in Nat /\ i \in Nat
      /\ AttrsOf(f) \in Seq(AttrOver(Descs)) /\ f.desc \in Descs
  <2>1. i \in f.i .. Len(AttrsOf(f)) /\ Exists(f, i)
    BY <1>2, <1>3, NextAttrFacts
  <2>2. f.i \in Nat /\ f.desc \in Descs
    BY <1>3 DEF Calls
  <2>3. AttrsOf(f) \in Seq(AttrOver(Descs))
    BY <1>2, <1>3, ObjectFacts
  <2> HIDE DEF i
  <2> QED BY <2>1, <2>2, <2>3
<1>6. RangeIn(in, f)
  BY <1>1, TopCall DEF f
<1> HIDE DEF i
<1>7. i \in DOMAIN AttrsOf(f)
  <2>1. f.i >= 1
    <3>a. f.kind = "object"
      BY <1>2
    <3>b. AttrsOf(f) \in Seq(AttrOver(Descs))
      BY <1>5
    <3>1. f.kind = "object" /\ Len(AttrsOf(f)) \in Nat
      BY <3>a, <3>b
    <3>2. f.i \in 1 .. 1 + Len(AttrsOf(f))
      BY <1>6, <3>1 DEF RangeIn
    <3> QED BY <3>1, <3>2
  <2> QED BY <1>5, <2>1
<1>8. g \in Calls /\ FrameOK(in, g) /\ RangeIn(in, g) /\ PartIn(in, g)
  <2>1. g \in Calls /\ g.kind = "object" /\ g.i = i /\ g.desc = f.desc /\ g.in = f.in
    BY <1>2, <1>3, <1>5 DEF Calls
  <2> HIDE DEF g
  <2>2. AttrsOf(g) = AttrsOf(f) /\ Base(g) = Base(f)
    BY <2>1 DEF AttrsOf, Base
  <2>3. i \in 1 .. Len(AttrsOf(g)) /\ Len(AttrsOf(g)) \in Nat
    BY <1>5, <1>7, <2>2
  <2>4. RangeIn(in, g)
    BY <2>1, <2>3 DEF RangeIn
  <2>5. PartIn(in, g)
    BY <1>5, <2>1, <2>2, <2>3 DEF PartIn, Exists
  <2>6. FrameOK(in, g)
    BY <1>2, <1>3, <2>1 DEF FrameOK
  <2> QED BY <2>1, <2>4, <2>5, <2>6
<1> HIDE DEF g
<1>9. StackIn(in, calls', "value")
  <2>1. StackIn(in, calls, "loop")
    BY <1>1 DEF EncoderOK
  <2> QED BY <1>1, <1>4, <1>8, <2>1, StackReplaced
<1>10. /\ writes \in Seq(Seq(STRING)) /\ writes # << >>
       /\ \A k \in DOMAIN writes : writes[k] \in Writes
  <2> DEFINE d == f.desc
             comma == f.count > 0
             w == (IF comma THEN <<<<",">>>> ELSE << >>)
                    \o <<Quote, Desc[d].attr_descs[i].name, Quote, <<":">>>>
  <2>1. d \in Descs /\ i \in DOMAIN Desc[d].attr_descs /\ comma \in BOOLEAN
    BY <1>5, <1>7 DEF AttrsOf
  <2>2. writes = w
    BY DEF AttrsOf
  <2> HIDE DEF d, comma, writes
  <2>3. /\ w \in Seq(Seq(STRING)) /\ w # << >>
        /\ \A k \in DOMAIN w : w[k] \in Writes
    BY <2>1, MemberWrites, Zenon
  <2> HIDE DEF w
  <2> QED BY <2>2, <2>3
<1> HIDE DEF writes
<1> QED BY <1>1, <1>2, <1>9, <1>10, DoStep

\* A bracket is closed and the call returns.
LEMMA EndStep ==
  ASSUME EncoderOK, UNCHANGED <<in, result>>, calls # << >>, calls' = Front(calls),
         NEW c \in Punctuation, Do(<<<<c>>>>, "return")
  PROVE  EncoderOK'
<1>1. StackIn(in, calls', "return")
  <2>1. StackIn(in, calls, Now)
    BY DEF EncoderOK
  <2> QED BY <2>1, StackPopped
<1> DEFINE writes == <<<<c>>>>
<1>2. /\ writes \in Seq(Seq(STRING)) /\ writes # << >>
      /\ \A k \in DOMAIN writes : writes[k] \in Writes
  BY OneWrite
<1> HIDE DEF writes
<1>3. Do(writes, "return")
  BY DEF writes
<1> QED BY <1>1, <1>2, <1>3, DoStep

LEMMA ObjectEndStep == ASSUME IInv, ObjectEnd PROVE EncoderOK'
<1>1. EncoderOK /\ calls # << >>
  BY DEF IInv, EncoderOK, ObjectEnd, Now
<1>2. UNCHANGED <<in, result>> /\ calls' = Front(calls) /\ Do(<<<<"}">>>>, "return")
  BY DEF ObjectEnd
<1>3. "}" \in Punctuation
  BY DEF Punctuation
<1> QED BY <1>1, <1>2, <1>3, EndStep, Zenon

LEMMA ArrayEndStep == ASSUME IInv, ArrayEnd PROVE EncoderOK'
<1>1. EncoderOK /\ calls # << >>
  BY DEF IInv, EncoderOK, ArrayEnd, Now
<1>2. UNCHANGED <<in, result>> /\ calls' = Front(calls) /\ Do(<<<<"]">>>>, "return")
  BY DEF ArrayEnd
<1>3. "]" \in Punctuation
  BY DEF Punctuation
<1> QED BY <1>1, <1>2, <1>3, EndStep, Zenon

LEMMA ArrayElementStep == ASSUME IInv, ArrayElement PROVE EncoderOK'
<1> DEFINE f == Last(calls)
<1>1. EncoderOK /\ Now = "loop" /\ calls # << >> /\ StackIn(in, calls, Now) /\ pc = "loop"
  BY DEF IInv, EncoderOK, ArrayElement, Now
<1>2. /\ UNCHANGED <<in, calls, result, todo, after>> /\ f.kind = "array"
      /\ f.i <= ElemCount(f) /\ pc' = "value"
  BY DEF ArrayElement
<1>3. f \in Calls /\ FrameOK(in, f) /\ RangeIn(in, f) /\ in \in Inputs
  BY <1>1, TopCall
<1>4. calls \in Seq(Calls) /\ f = calls[Len(calls)] /\ Len(calls) \in DOMAIN calls
  BY <1>1 DEF StackIn, Last
<1> HIDE DEF f
<1>5. PartIn(in, f)
  <2>1. ElemCount(f) \in Nat
    BY <1>2, <1>3, ArrayFacts
  <2>2. f.i \in 1 .. 1 + ElemCount(f)
    BY <1>2, <1>3 DEF RangeIn, ElemCount
  <2>3. f.i <= ElemCount(f)
    BY <1>2
  <2>4. f.i \in 1 .. ElemCount(f)
    BY <2>1, <2>2, <2>3
  <2> QED BY <1>2, <2>4 DEF PartIn, ElemCount
<1>6. StackIn(in, calls, "value")
  <2>1. ASSUME NEW k \in DOMAIN calls PROVE PartIn(in, calls[k])
    <3>1. k < Len(calls) \/ k = Len(calls)
      BY <1>4
    <3> QED BY <1>1, <1>4, <1>5, <3>1 DEF StackIn
  <2> QED BY <1>1, <2>1 DEF StackIn
<1>7. Now' = "value"
  BY <1>2 DEF Now
<1> QED BY <1>1, <1>2, <1>6, <1>7 DEF EncoderOK

LEMMA ReturnStep == ASSUME IInv, Return PROVE EncoderOK'
<1> DEFINE f == Last(calls)
           g == [f EXCEPT !.i = f.i + 1, !.count = f.count + 1]
<1>1. EncoderOK /\ Now = "return" /\ StackIn(in, calls, "return")
  BY DEF IInv, EncoderOK, Return, Now
<1>2. CASE Stop("NONE") /\ UNCHANGED in
  BY <1>1, <1>2, StopStep
<1>3. CASE /\ calls # << >>
           /\ calls' = [calls EXCEPT ![Len(calls)].i = @ + 1,
                                     ![Len(calls)].count = @ + 1]
           /\ UNCHANGED <<in, result>>
           /\ \/ MoreFollow(f) /\ Do(<<<<",">>>>, "value")
              \/ pc' = "loop" /\ UNCHANGED <<after, todo>>
  <2>1. /\ f \in Calls /\ FrameOK(in, f) /\ PartIn(in, f) /\ in \in Inputs
        /\ f.kind \in {"object", "array"}
    BY <1>1, <1>3, TopCall
  <2>2. calls \in Seq(Calls) /\ f = calls[Len(calls)] /\ Len(calls) \in DOMAIN calls
    <3>1. calls \in Seq(Calls)
      BY <1>1 DEF StackIn
    <3>2. calls # << >>
      BY <1>3
    <3> QED BY <3>1, <3>2 DEF Last
  <2>3. calls' = [calls EXCEPT ![Len(calls)] = g]
    BY <1>3, <2>1, <2>2 DEF Calls
  <2> HIDE DEF f
  <2>4. /\ g \in Calls /\ g.kind = f.kind /\ g.i = f.i + 1
        /\ g.desc = f.desc /\ g.in = f.in
    <3>1. f.i + 1 \in Nat /\ f.count + 1 \in Nat
      BY <2>1 DEF Calls
    <3>2. \A i, n \in Nat :
            LET h == [f EXCEPT !.i = i, !.count = n]
            IN  /\ h \in Calls /\ h.kind = f.kind /\ h.i = i
                /\ h.desc = f.desc /\ h.in = f.in
      BY <2>1 DEF Calls
    <3> QED BY <3>1, <3>2
  <2> HIDE DEF g
  <2>5. FrameOK(in, g)
    BY <2>1, <2>4 DEF FrameOK
  <2>6. RangeIn(in, g)
    <3>1. CASE f.kind = "object"
      <4>1. Len(AttrsOf(f)) \in Nat
        BY <2>1, <3>1, ObjectFacts
      <4>2. f.i \in 1 .. Len(AttrsOf(f))
        BY <2>1, <3>1 DEF PartIn
      <4>3. g.i \in 1 .. 1 + Len(AttrsOf(f))
        BY <2>4, <4>1, <4>2
      <4> QED BY <2>4, <3>1, <4>3 DEF RangeIn, AttrsOf
    <3>2. CASE f.kind = "array"
      <4>1. ElemCount(f) \in Nat
        BY <2>1, <3>2, ArrayFacts
      <4>2. f.i \in 1 .. ElemCount(f)
        BY <2>1, <3>2 DEF PartIn, ElemCount
      <4>3. g.i \in 1 .. 1 + ElemCount(f)
        BY <2>4, <4>1, <4>2
      <4> QED BY <2>4, <3>2, <4>3 DEF RangeIn, ElemCount
    <3> QED BY <2>1, <3>1, <3>2
  <2>7. StackIn(in, calls', "loop")
    <3>1. StackIn(in, [calls EXCEPT ![Len(calls)] = g], "loop")
      BY <1>1, <1>3, <2>4, <2>5, <2>6, StackReplaced
    <3> QED BY <2>3, <3>1
  <2>8. calls' # << >> /\ Len(calls') = Len(calls) /\ calls'[Len(calls)] = g
    BY <2>2, <2>3
  <2>9. CASE pc' = "loop" /\ UNCHANGED <<after, todo>>
    <3>1. Now' = "loop"
      BY <2>9 DEF Now
    <3> QED BY <1>1, <1>3, <2>7, <2>8, <2>9, <3>1 DEF EncoderOK
  <2>10. CASE MoreFollow(f) /\ Do(<<<<",">>>>, "value")
    <3> DEFINE writes == <<<<",">>>>
    <3>1. /\ writes \in Seq(Seq(STRING)) /\ writes # << >>
          /\ \A k \in DOMAIN writes : writes[k] \in Writes
      <4>1. "," \in Punctuation
        BY DEF Punctuation
      <4> QED BY <4>1, OneWrite, Zenon
    <3>2. PartIn(in, g)
      <4>1. f.kind = "array" /\ f.i < ElemCount(f)
        BY <2>10 DEF MoreFollow
      <4>2. ElemCount(f) \in Nat
        BY <2>1, <4>1, ArrayFacts
      <4>3. f.i \in 1 .. ElemCount(f)
        BY <2>1, <4>1 DEF PartIn, ElemCount
      <4>4. g.i \in 1 .. ElemCount(f)
        BY <2>4, <4>1, <4>2, <4>3
      <4> QED BY <2>4, <4>1, <4>4 DEF PartIn, ElemCount
    <3>3. StackIn(in, calls', "value")
      <4>1. ASSUME NEW k \in DOMAIN calls' PROVE PartIn(in, calls'[k])
        <5>1. k < Len(calls') \/ k = Len(calls')
          BY <2>7 DEF StackIn
        <5> QED BY <2>7, <2>8, <3>2, <5>1 DEF StackIn
      <4> QED BY <2>7, <4>1 DEF StackIn
    <3>4. Do(writes, "value")
      BY <2>10
    <3> HIDE DEF writes
    <3> QED BY <1>1, <1>3, <3>1, <3>3, <3>4, DoStep
  <2> QED BY <1>3, <2>9, <2>10 DEF f
<1> QED BY <1>2, <1>3 DEF Return

LEMMA IdleStep == ASSUME IInv, UNCHANGED vars PROVE IInv'
<1>1. UNCHANGED <<in, pc, after, todo, calls, result, buf, cap, len>>
  BY DEF vars, encoder, writer
<1>2. WriterOK'
  BY <1>1, RefusedStep DEF IInv
<1>3. EncoderOK'
  BY <1>1 DEF IInv, EncoderOK, Now
<1> QED BY <1>2, <1>3 DEF IInv

LEMMA InitInv == Init => IInv
<1> SUFFICES ASSUME Init PROVE IInv
  OBVIOUS
<1>1. cap \in Nat /\ cap \in 0 .. WordSize - 1 /\ WordSize \in Nat
  BY CapacityAssumption DEF Init, WriterInit
<1>2. WriterOK
  <2>1. buf = [i \in 1 .. cap |-> Junk] /\ len = 0 /\ cap \in Capacities
    BY DEF Init, WriterInit
  <2>2. buf \in Seq(STRING \cup {Junk}) /\ Len(buf) = cap
    BY <1>1, <2>1
  <2>3. Text = << >>
    BY <2>1, <2>2 DEF Text
  <2>4. BufferKept
    BY <1>1, <2>1, <2>2, <2>3 DEF BufferKept, Range
  <2> QED BY <1>1, <2>1, <2>2, <2>4 DEF WriterOK
<1>3. EncoderOK
  <2>1. calls = << >> /\ todo = << >> /\ Now = "value"
    BY DEF Init, Now
  <2>2. StackIn(in, calls, Now)
    BY <2>1 DEF StackIn
  <2> QED BY <2>1, <2>2 DEF Init, EncoderOK
<1> QED BY <1>2, <1>3 DEF IInv

LEMMA NextInv == IInv /\ [Next]_vars => IInv'
<1> SUFFICES ASSUME IInv, [Next]_vars PROVE IInv'
  OBVIOUS
<1>1. ASSUME UNCHANGED <<buf, cap, len>>, EncoderOK' PROVE IInv'
  BY <1>1, RefusedStep DEF IInv
<1>2. CASE EncodeNull
  <2>1. EncoderOK'
    BY <1>2, StopStep DEF EncodeNull, IInv
  <2> QED BY <1>1, <1>2, <2>1 DEF EncodeNull, writer
<1>3. CASE EncodeScalar
  BY <1>1, <1>3, EncodeScalarStep DEF EncodeScalar, writer
<1>4. CASE EncodeObject
  BY <1>1, <1>4, EncodeObjectStep DEF EncodeObject, writer
<1>5. CASE EncodeArray
  BY <1>1, <1>5, EncodeArrayStep DEF EncodeArray, writer
<1>6. CASE WriteNext
  BY <1>6, WriteNextStep
<1>7. CASE ObjectMember
  BY <1>1, <1>7, ObjectMemberStep DEF ObjectMember, writer
<1>8. CASE ObjectEnd
  BY <1>1, <1>8, ObjectEndStep DEF ObjectEnd, writer
<1>9. CASE ArrayElement
  BY <1>1, <1>9, ArrayElementStep DEF ArrayElement, writer
<1>10. CASE ArrayEnd
  BY <1>1, <1>10, ArrayEndStep DEF ArrayEnd, writer
<1>11. CASE Return
  BY <1>1, <1>11, ReturnStep DEF Return, writer
<1>12. CASE Terminated \/ UNCHANGED vars
  BY <1>12, IdleStep DEF Terminated
<1> QED BY <1>2, <1>3, <1>4, <1>5, <1>6, <1>7, <1>8, <1>9, <1>10, <1>11, <1>12 DEF Next

-----------------------------------------------------------------------------
(* Texts, and sequences of texts in one.                                   *)

\* The rule of Joined, and its type.
LEMMA JoinedRule ==
  ASSUME NEW S, NEW s \in Seq(Seq(S))
  PROVE  /\ Joined(s)[0] = << >>
         /\ \A k \in 0 .. Len(s) : \A l \in 1 .. Len(s) :
              l = k + 1 => Joined(s)[l] = Joined(s)[k] \o s[l]
         /\ \A k \in 0 .. Len(s) : Joined(s)[k] \in Seq(S)
<1> DEFINE X == {0} \cup DOMAIN s
           V == Seq(S)
           mu == [k \in X |-> k]
           Rule(f, k) == IF k = 0 THEN << >> ELSE f[k - 1] \o s[k]
           R == [t \in [X -> V] \X X |-> Rule(t[1], t[2])]
           J == Joined(s)
<1>1. X = 0 .. Len(s) /\ Len(s) \in Nat
  OBVIOUS
<1>2. \A k \in X : k # 0 => k - 1 \in X /\ k \in DOMAIN s /\ s[k] \in V
  OBVIOUS
<1>3. V # {} /\ << >> \in V /\ \A v, w \in V : v \o w \in V
  OBVIOUS
<1>4. J = CHOOSE f : f = [k \in X |-> Rule(f, k)]
  BY DEF Joined
<1>a. mu \in [X -> Nat] /\ \A k \in X : mu[k] = k
  BY <1>1
<1> HIDE DEF X, V, mu
<1>5. R \in [[X -> V] \X X -> V]
  <2>1. ASSUME NEW f \in [X -> V], NEW k \in X PROVE Rule(f, k) \in V
    <3>1. CASE k = 0
      BY <1>3, <3>1
    <3>2. CASE k # 0
      <4>1. f[k - 1] \in V /\ s[k] \in V
        BY <1>2, <3>2
      <4> QED BY <1>3, <3>2, <4>1
    <3> QED BY <3>1, <3>2
  <2> HIDE DEF Rule
  <2> QED BY <2>1
<1>b. \A f \in [X -> V] : \A k \in X : R[<<f, k>>] = Rule(f, k)
  <2> HIDE DEF Rule
  <2> QED OBVIOUS
<1>6. LooksBelow(X, V, mu, R)
  <2>1. ASSUME NEW k \in X, NEW f \in [X -> V], NEW g \in [X -> V],
               \A j \in X : mu[j] < mu[k] => f[j] = g[j]
        PROVE  Rule(f, k) = Rule(g, k)
    <3>1. CASE k = 0
      BY <3>1
    <3>2. CASE k # 0
      <4>a. k - 1 \in X /\ k \in Nat
        BY <1>1, <1>2, <3>2
      <4>b. mu[k - 1] = k - 1 /\ mu[k] = k
        BY <1>a, <4>a
      <4>1. k - 1 \in X /\ mu[k - 1] < mu[k]
        BY <4>a, <4>b
      <4>2. f[k - 1] = g[k - 1]
        BY <2>1, <4>1
      <4> QED BY <3>2, <4>2
    <3> QED BY <3>1, <3>2
  <2> HIDE DEF R, Rule
  <2> QED BY <1>b, <2>1 DEF LooksBelow
<1>7. \E f : f = [k \in X |-> Rule(f, k)]
  <2> HIDE DEF R, Rule
  <2>1. PICK f : IsSolution(X, V, R, f)
    <3>1. V # {} /\ mu \in [X -> Nat]
      BY <1>3, <1>a
    <3> QED BY <1>5, <1>6, <3>1, Recursion
  <2>2. f = [k \in X |-> Rule(f, k)]
    BY <1>b, <2>1 DEF IsSolution
  <2> QED BY <2>2
<1>8. J = [k \in X |-> Rule(J, k)]
  <2> HIDE DEF J, R, Rule
  <2> QED BY <1>4, <1>7
<1> HIDE DEF J
<1>9. J[0] = << >> /\ \A k \in DOMAIN s : J[k] = J[k - 1] \o s[k]
  <2>1. \A k \in X : J[k] = Rule(J, k)
    <3> HIDE DEF Rule
    <3> QED BY <1>8
  <2>2. 0 \in X /\ \A k \in DOMAIN s : k \in X /\ k # 0
    BY DEF X
  <2> QED BY <2>1, <2>2
<1> DEFINE P == {n \in Nat : n \in 0 .. Len(s) => J[n] \in V}
<1>10. 0 \in P
  BY <1>3, <1>9
<1>11. ASSUME NEW n \in Nat, n \in P PROVE n + 1 \in P
  <2>1. ASSUME n + 1 \in 0 .. Len(s) PROVE J[n + 1] \in V
    <3>1. n + 1 \in X /\ n + 1 # 0 /\ n \in 0 .. Len(s) /\ n + 1 - 1 = n
      BY <1>1, <2>1
    <3>2. J[n] \in V /\ s[n + 1] \in V /\ n + 1 \in DOMAIN s
      BY <1>2, <1>11, <3>1
    <3>3. J[n + 1] = J[n] \o s[n + 1]
      <4> DEFINE k == n + 1
      <4>1. k \in DOMAIN s /\ k - 1 = n
        BY <3>2
      <4> HIDE DEF k
      <4>2. J[k] = J[k - 1] \o s[k]
        BY <1>9, <4>1
      <4> QED BY <4>1, <4>2 DEF k
    <3> QED BY <1>3, <3>2, <3>3
  <2> QED BY <2>1
<1> HIDE DEF P
<1>12. \A n \in Nat : n \in P
  BY <1>10, <1>11, SetInduction
<1>13. \A k \in 0 .. Len(s) : J[k] \in V
  BY <1>1, <1>12 DEF P
<1>14. ASSUME NEW k \in 0 .. Len(s), NEW l \in 1 .. Len(s), l = k + 1
       PROVE  J[l] = J[k] \o s[l]
  <2>1. l \in DOMAIN s /\ l - 1 = k
    BY <1>1, <1>14
  <2> QED BY <1>9, <2>1
<1> QED BY <1>9, <1>13, <1>14 DEF J, V

\* Concatenation is associative, on the sequences in V.
Associative(V) == \A x, y, z \in V : (x \o y) \o z = x \o (y \o z)

LEMMA SequencesAssociative == \A S : Associative(Seq(S))
BY ConcatAssociative DEF Associative

\* The first sequence comes first.
LEMMA JoinedHead ==
  ASSUME NEW S, NEW s \in Seq(Seq(S)), s # << >>
  PROVE  /\ Len(Tail(s)) = Len(s) - 1 /\ Tail(s) \in Seq(Seq(S)) /\ Head(s) \in Seq(S)
         /\ Joined(s)[Len(s)] = Head(s) \o Joined(Tail(s))[Len(Tail(s))]
<1> DEFINE t == Tail(s)
           a == Head(s)
           J == Joined(s)
           K == Joined(t)
<1>1. /\ t \in Seq(Seq(S)) /\ Len(t) \in Nat /\ Len(s) = Len(t) + 1 /\ a \in Seq(S)
      /\ a = s[1] /\ \A i \in 1 .. Len(t) : t[i] = s[i + 1]
  <2>1. Len(s) \in Nat /\ Len(s) # 0
    OBVIOUS
  <2> QED BY <2>1, HeadTailProperties
<1> HIDE DEF t, a
<1>2. /\ J[0] = << >>
      /\ \A k \in 0 .. Len(s) : \A l \in 1 .. Len(s) : l = k + 1 => J[l] = J[k] \o s[l]
  BY JoinedRule
<1>3. /\ K[0] = << >>
      /\ \A k \in 0 .. Len(t) : \A l \in 1 .. Len(t) : l = k + 1 => K[l] = K[k] \o t[l]
      /\ \A k \in 0 .. Len(t) : K[k] \in Seq(S)
  BY <1>1, JoinedRule
<1> HIDE DEF J, K
<1> DEFINE P == {n \in Nat : n \in 0 .. Len(t) =>
                               \A l \in 1 .. Len(s) : l = n + 1 => J[l] = a \o K[n]}
<1>4. 0 \in P
  <2>1. ASSUME NEW l \in 1 .. Len(s), l = 1 PROVE J[l] = a \o K[0]
    <3>1. 0 \in 0 .. Len(s) /\ l = 0 + 1
      BY <1>1, <2>1
    <3>2. J[l] = J[0] \o s[l] /\ s[l] = a
      BY <1>1, <1>2, <2>1, <3>1
    <3>3. << >> \o a = a /\ a \o << >> = a
      BY <1>1
    <3> QED BY <1>2, <1>3, <3>2, <3>3
  <2> QED BY <2>1
<1>5. ASSUME NEW n \in Nat, n \in P PROVE n + 1 \in P
  <2> DEFINE k == n + 1
  <2> SUFFICES ASSUME k \in 0 .. Len(t), NEW l \in 1 .. Len(s), l = k + 1
               PROVE  J[l] = a \o K[k]
    OBVIOUS
  <2>1. k \in 1 .. Len(t) /\ k \in 1 .. Len(s) /\ k \in 0 .. Len(s) /\ n \in 0 .. Len(t)
    BY <1>1
  <2>2. J[k] = a \o K[n]
    BY <1>5, <2>1
  <2>3. K[k] = K[n] \o t[k]
    BY <1>3, <2>1
  <2> HIDE DEF k, P
  <2>4. J[l] = J[k] \o s[l]
    BY <1>2, <2>1
  <2>5. t[k] = s[l] /\ t[k] \in Seq(S)
    BY <1>1, <2>1
  <2>6. K[n] \in Seq(S)
    BY <1>3, <2>1
  <2>7. a \in Seq(S)
    BY <1>1
  <2> DEFINE u == K[n]
             v == t[k]
  <2> HIDE DEF u, v
  <2>8. u \in Seq(S) /\ v \in Seq(S)
    BY <2>5, <2>6 DEF u, v
  <2>9. (a \o u) \o v = a \o (u \o v)
    <3>1. Associative(Seq(S))
      BY SequencesAssociative, Zenon
    <3>2. \A x, y, z \in Seq(S) : (x \o y) \o z = x \o (y \o z)
      BY <3>1, Zenon DEF Associative
    <3>3. a \in Seq(S) /\ u \in Seq(S) /\ v \in Seq(S)
      BY <2>7, <2>8
    <3>4. (a \o u) \o v = a \o (u \o v)
      BY <3>2, <3>3, Zenon
    <3> QED BY <3>4
  <2> QED BY <2>2, <2>3, <2>4, <2>5, <2>9 DEF u, v
<1>6. Len(t) \in P
  <2> HIDE DEF P
  <2> QED BY <1>1, <1>4, <1>5, SetInduction
<1>7. J[Len(s)] = a \o K[Len(t)]
  <2> DEFINE l == Len(s)
             n == Len(t)
  <2>1. n \in 0 .. n /\ l \in 1 .. l /\ l = n + 1
    BY <1>1
  <2>2. n \in P
    BY <1>6
  <2> HIDE DEF l, n
  <2> QED BY <2>1, <2>2 DEF l, n
<1> QED BY <1>1, <1>7 DEF J, K, t, a

\* Empty sequences add nothing.
LEMMA JoinedEmpty ==
  ASSUME NEW S, NEW s \in Seq(Seq(S)), NEW i \in 0 .. Len(s), NEW j \in i .. Len(s),
         \A k \in i + 1 .. j : s[k] = << >>
  PROVE  Joined(s)[j] = Joined(s)[i]
<1> DEFINE J == Joined(s)
           P == {n \in Nat : i + n <= j => J[i + n] = J[i]}
<1>1. Len(s) \in Nat /\ i \in Nat /\ j \in Nat /\ i <= j /\ j <= Len(s)
  OBVIOUS
<1>2. \A k \in 0 .. Len(s) : \A l \in 1 .. Len(s) : l = k + 1 => J[l] = J[k] \o s[l]
  BY JoinedRule
<1>3. \A k \in 0 .. Len(s) : J[k] \in Seq(S)
  BY JoinedRule
<1> HIDE DEF J
<1>4. 0 \in P
  BY <1>1
<1>5. ASSUME NEW n \in Nat, n \in P PROVE n + 1 \in P
  <2> SUFFICES ASSUME i + (n + 1) <= j PROVE J[i + (n + 1)] = J[i]
    OBVIOUS
  <2> DEFINE k == i + (n + 1)
  <2>1. /\ k \in 1 .. Len(s) /\ k \in i + 1 .. j /\ k - 1 = i + n /\ i + n <= j
        /\ i + n \in 0 .. Len(s)
    BY <1>1
  <2> HIDE DEF k
  <2>2. J[k] = J[k - 1] \o s[k] /\ s[k] = << >>
    <3> DEFINE h == k - 1
    <3>1. h \in 0 .. Len(s) /\ k = h + 1
      BY <2>1
    <3> HIDE DEF h
    <3> QED BY <1>2, <2>1, <3>1 DEF h
  <2>3. J[k - 1] = J[i] /\ J[k - 1] \in Seq(S)
    BY <1>3, <1>5, <2>1
  <2> QED BY <2>2, <2>3 DEF k
<1>6. j - i \in P
  <2>1. j - i \in Nat
    BY <1>1
  <2> HIDE DEF P
  <2> QED BY <1>4, <1>5, <2>1, SetInduction
<1>7. J[i + (j - i)] = J[i] /\ i + (j - i) = j
  BY <1>1, <1>6
<1> QED BY <1>7 DEF J

\* Texts, and what comes first in them.
Texts == Seq(STRING)

Begins(t, u) == \E r \in Texts : u = t \o r

\* Texts are closed under concatenation.
LEMMA TextsJoin ==
  /\ << >> \in Texts
  /\ \A x \in Texts : x \o << >> = x /\ << >> \o x = x
  /\ \A x, y \in Texts : x \o y \in Texts
BY DEF Texts

LEMMA TextsAssociative == \A x, y, z \in Texts : (x \o y) \o z = x \o (y \o z)
BY DEF Texts

\* Beginnings compose.
LEMMA BeginsItself == \A x \in Texts : Begins(x, x)
BY TextsJoin DEF Begins

LEMMA BeginsMore == \A x, y \in Texts : Begins(x, x \o y)
BY DEF Begins

LEMMA BeginsOnward ==
  ASSUME NEW x \in Texts, NEW y \in Texts, NEW z \in Texts, Begins(x, y), Begins(y, z)
  PROVE  Begins(x, z)
<1>1. PICK r \in Texts : y = x \o r
  BY DEF Begins
<1>2. PICK q \in Texts : z = y \o q
  BY DEF Begins
<1>3. z = x \o (r \o q) /\ r \o q \in Texts
  <2>1. r \o q \in Texts
    BY TextsJoin
  <2>2. (x \o r) \o q = x \o (r \o q)
    BY TextsAssociative, Zenon
  <2> QED BY <1>1, <1>2, <2>1, <2>2, Zenon
<1> QED BY <1>3 DEF Begins

LEMMA BeginsUnder ==
  ASSUME NEW x \in Texts, NEW y \in Texts, NEW t \in Texts, Begins(x, y)
  PROVE  Begins(t \o x, t \o y)
<1>1. PICK r \in Texts : y = x \o r
  BY DEF Begins
<1>2. t \o y = (t \o x) \o r
  BY <1>1, TextsAssociative, Zenon
<1> QED BY <1>2 DEF Begins

\* A beginning is a prefix.
LEMMA BeginsIsPrefix ==
  ASSUME NEW x \in Texts, NEW y \in Texts, Begins(x, y)
  PROVE  IsPrefix(x, y) /\ Len(x) <= Len(y)
<1>1. PICK r \in Texts : y = x \o r
  BY DEF Begins
<1>2. Len(x) \in Nat /\ Len(r) \in Nat /\ Len(y) = Len(x) + Len(r)
  BY <1>1 DEF Texts
<1>3. SubSeq(x, 1, Len(x)) = SubSeq(y, 1, Len(x))
  <2> DEFINE u == SubSeq(x, 1, Len(x))
             v == SubSeq(y, 1, Len(x))
  <2>1. u \in Texts /\ Len(u) = Len(x) /\ \A i \in 1 .. Len(x) : u[i] = x[i]
    BY DEF Texts
  <2>2. v \in Texts /\ Len(v) = Len(x) /\ \A i \in 1 .. Len(x) : v[i] = y[i]
    BY <1>2 DEF Texts
  <2>3. \A i \in 1 .. Len(x) : y[i] = x[i]
    BY <1>1, <1>2 DEF Texts
  <2> HIDE DEF u, v
  <2>4. u = v
    BY <2>1, <2>2, <2>3 DEF Texts
  <2> QED BY <2>4 DEF u, v
<1> QED BY <1>2, <1>3 DEF IsPrefix

\* The rule of Joined on texts.
LEMMA JoinedType ==
  ASSUME NEW s \in Seq(Texts), NEW k \in 0 .. Len(s)
  PROVE  Joined(s)[k] \in Texts
BY JoinedRule DEF Texts

LEMMA JoinedNone == Joined(<< >>)[0] = << >>
<1>1. << >> \in Seq(Seq({}))
  OBVIOUS
<1> QED BY <1>1, JoinedRule

LEMMA JoinedOne == ASSUME NEW x \in Texts PROVE Joined(<<x>>)[1] = x
<1> DEFINE s == <<x>>
<1>1. s \in Seq(Texts) /\ Len(s) = 1 /\ s[1] = x
  OBVIOUS
<1>2. 0 \in 0 .. Len(s) /\ 1 \in 1 .. Len(s) /\ 1 = 0 + 1
  BY <1>1
<1> HIDE DEF s
<1>3. Joined(s)[1] = Joined(s)[0] \o s[1] /\ Joined(s)[0] = << >>
  BY <1>1, <1>2, JoinedRule DEF Texts
<1>4. Joined(s)[1] = x
  BY <1>1, <1>3, TextsJoin
<1> QED BY <1>4 DEF s

\* Every beginning of a list of texts begins what they are together.
LEMMA JoinedBegins ==
  ASSUME NEW s \in Seq(Texts), NEW i \in 0 .. Len(s)
  PROVE  Begins(Joined(s)[i], Joined(s)[Len(s)])
<1> DEFINE J == Joined(s)
           N == Len(s)
           P == {n \in Nat : n <= N => Begins(J[N - n], J[N])}
<1>1. N \in Nat /\ i \in Nat /\ i <= N
  OBVIOUS
<1>2. /\ \A k \in 0 .. N : \A l \in 1 .. N : l = k + 1 => J[l] = J[k] \o s[l]
      /\ \A k \in 0 .. N : J[k] \in Texts
  BY JoinedRule DEF Texts
<1>3. \A l \in 1 .. N : s[l] \in Texts
  OBVIOUS
<1> HIDE DEF J, N
<1>4. 0 \in P
  <2>1. N - 0 = N /\ N \in 0 .. N
    BY <1>1
  <2>2. Begins(J[N], J[N])
    BY <1>2, <2>1, BeginsItself
  <2> QED BY <2>1, <2>2
<1>5. ASSUME NEW n \in Nat, n \in P PROVE n + 1 \in P
  <2> SUFFICES ASSUME n + 1 <= N PROVE Begins(J[N - (n + 1)], J[N])
    OBVIOUS
  <2> DEFINE k == N - (n + 1)
             l == N - n
  <2>1. k \in 0 .. N /\ l \in 1 .. N /\ l \in 0 .. N /\ l = k + 1 /\ N \in 0 .. N /\ n <= N
    BY <1>1
  <2>2. Begins(J[l], J[N])
    BY <1>5, <2>1
  <2> HIDE DEF k, l, P
  <2>3. J[l] = J[k] \o s[l]
    BY <1>2, <2>1
  <2>4. J[k] \in Texts /\ J[l] \in Texts /\ J[N] \in Texts /\ s[l] \in Texts
    BY <1>2, <1>3, <2>1
  <2>5. Begins(J[k], J[l])
    BY <2>3, <2>4, BeginsMore
  <2>6. Begins(J[k], J[N])
    BY <2>2, <2>4, <2>5, BeginsOnward
  <2> QED BY <2>6 DEF k
<1>6. N - i \in P
  <2>1. N - i \in Nat
    BY <1>1
  <2> HIDE DEF P
  <2> QED BY <1>4, <1>5, <2>1, SetInduction
<1>7. N - (N - i) = i /\ N - i <= N
  BY <1>1
<1>8. Begins(J[i], J[N])
  BY <1>6, <1>7
<1> QED BY <1>8 DEF J, N

\* One text in front of others, and four texts.
LEMMA JoinedAfter ==
  ASSUME NEW x \in Texts, NEW s \in Seq(Texts)
  PROVE  LET t == <<x>> \o s
         IN  Joined(t)[Len(t)] = x \o Joined(s)[Len(s)]
<1> DEFINE t == <<x>> \o s
<1>1. t \in Seq(Texts) /\ t # << >> /\ Head(t) = x /\ Tail(t) = s
  <2>1. <<x>> \in Seq(Texts) /\ Len(<<x>>) = 1 /\ Len(s) \in Nat
    OBVIOUS
  <2>2. /\ t \in Seq(Texts) /\ Len(t) = 1 + Len(s) /\ t[1] = x
        /\ \A i \in 1 .. Len(s) : t[i + 1] = s[i]
    BY <2>1
  <2> HIDE DEF t
  <2>3. t # << >> /\ Head(t) = x
    BY <2>1, <2>2
  <2>4. /\ Tail(t) \in Seq(Texts) /\ Len(Tail(t)) = Len(s)
        /\ \A i \in 1 .. Len(s) : Tail(t)[i] = s[i]
    BY <2>1, <2>2, <2>3
  <2>5. Tail(t) = s
    BY <2>4
  <2> QED BY <2>2, <2>3, <2>5
<1> HIDE DEF t
<1>2. Joined(t)[Len(t)] = Head(t) \o Joined(Tail(t))[Len(Tail(t))]
  BY <1>1, JoinedHead DEF Texts
<1> QED BY <1>1, <1>2 DEF t

LEMMA JoinedFour ==
  ASSUME NEW s \in Seq(Texts), Len(s) = 4
  PROVE  Joined(s)[4] = s[1] \o s[2] \o s[3] \o s[4]
<1> DEFINE J == Joined(s)
<1>1. s[1] \in Texts
  OBVIOUS
<1>2. /\ J[0] = << >>
      /\ \A k \in 0 .. Len(s) : \A l \in 1 .. Len(s) : l = k + 1 => J[l] = J[k] \o s[l]
  BY JoinedRule DEF Texts
<1> HIDE DEF J
<1>3. /\ J[1] = J[0] \o s[1] /\ J[2] = J[1] \o s[2]
      /\ J[3] = J[2] \o s[3] /\ J[4] = J[3] \o s[4]
  <2>1. ASSUME NEW k \in 0 .. 3, NEW l \in 1 .. 4, l = k + 1 PROVE J[l] = J[k] \o s[l]
    <3>1. k \in 0 .. Len(s) /\ l \in 1 .. Len(s)
      OBVIOUS
    <3> QED BY <1>2, <2>1, <3>1
  <2>2. J[1] = J[0] \o s[1]
    BY <2>1, 0 \in 0 .. 3, 1 \in 1 .. 4, 1 = 0 + 1
  <2>3. J[2] = J[1] \o s[2]
    BY <2>1, 1 \in 0 .. 3, 2 \in 1 .. 4, 2 = 1 + 1
  <2>4. J[3] = J[2] \o s[3]
    BY <2>1, 2 \in 0 .. 3, 3 \in 1 .. 4, 3 = 2 + 1
  <2>5. J[4] = J[3] \o s[4]
    BY <2>1, 3 \in 0 .. 3, 4 \in 1 .. 4, 4 = 3 + 1
  <2> QED BY <2>2, <2>3, <2>4, <2>5
<1>4. J[1] = s[1]
  BY <1>1, <1>2, <1>3, TextsJoin
<1> QED BY <1>3, <1>4 DEF J

-----------------------------------------------------------------------------
(* The text of a place.                                                    *)

\* The writes in front of the value of a member, together.
LEMMA MemberText ==
  ASSUME NEW comma \in BOOLEAN, NEW name \in Texts
  PROVE  LET writes == (IF comma THEN <<<<",">>>> ELSE << >>) \o <<Quote, name, Quote, <<":">>>>
         IN  Joined(writes)[Len(writes)] =
               (IF comma THEN <<",">> ELSE << >>) \o (Quote \o name \o Quote \o <<":">>)
<1> DEFINE sep == <<",">>
           colon == <<":">>
           q == Quote
           rest == <<q, name, q, colon>>
           label == q \o name \o q \o colon
<1>1. sep \in Texts /\ colon \in Texts /\ q \in Texts
  <2>1. "," \in Punctuation /\ ":" \in Punctuation
    BY DEF Punctuation
  <2> QED BY <2>1, PunctuationWrites, QuoteType, Zenon DEF Texts
<1> HIDE DEF sep, colon, q
<1>2. /\ rest \in Seq(Texts) /\ Len(rest) = 4
      /\ rest[1] = q /\ rest[2] = name /\ rest[3] = q /\ rest[4] = colon
  BY <1>1
<1>3. Joined(rest)[Len(rest)] = label /\ label \in Texts
  <2>1. Joined(rest)[4] = label
    <3> HIDE DEF rest
    <3> QED BY <1>2, JoinedFour
  <2>2. label \in Texts
    BY <1>1, TextsJoin
  <2> HIDE DEF rest, label
  <2> QED BY <1>2, <2>1, <2>2
<1> HIDE DEF rest, label
<1>4. CASE comma
  <2>1. LET t == <<sep>> \o rest IN Joined(t)[Len(t)] = sep \o label
    BY <1>1, <1>2, <1>3, JoinedAfter
  <2> QED BY <1>4, <2>1, Zenon DEF sep, rest, label, q, colon
<1>5. CASE ~comma
  <2>1. << >> \o rest = rest /\ << >> \o label = label
    BY <1>2, <1>3, TextsJoin
  <2>2. Joined(<< >> \o rest)[Len(<< >> \o rest)] = << >> \o label
    BY <1>3, <2>1
  <2> QED BY <1>5, <2>2, Zenon DEF rest, label, q, colon
<1> QED BY <1>4, <1>5

\* The parts of a place are there, each less deep than the whole.
LEMMA PartFacts ==
  ASSUME NEW m \in Inputs, NEW d, NEW o, <<d, o>> \in PlacesOf(m), HasParts(d)
  PROVE  /\ PartCount(m, d, o) \in Nat
         /\ \A i \in 1 .. PartCount(m, d, o) :
              Present(m, d, o, i) =>
                PartAt(d, o, i) \in PlacesOf(m) /\ Depth[PartAt(d, o, i)[1]] < Depth[d]
<1>1. d \in Descs /\ o \in Nat /\ ReadableAt(m, d, o)
  <2> DEFINE p == <<d, o>>
  <2>1. p \in Descs \X Nat /\ p[1] = d /\ p[2] = o /\ p \in PlacesOf(m)
    BY ReadableAssumption
  <2> HIDE DEF p
  <2>2. ReadableAt(m, p[1], p[2])
    BY <2>1, ReadableAssumption
  <2> QED BY <2>1, <2>2
<1>2. PartCount(m, d, o) \in Nat
  <2>1. CASE Desc[d].type = "OBJECT"
    <3>1. Desc[d].attr_descs \in Seq(AttrOver(Descs))
      BY <1>1, EncoderAssumption DEF DescOver
    <3> QED BY <2>1, <3>1 DEF PartCount
  <2>2. CASE Desc[d].type = "ARRAY"
    BY <1>1, <2>2 DEF ReadableAt, Holds, ValuesOf, PartCount
  <2> QED BY <2>1, <2>2 DEF HasParts
<1>3. ASSUME NEW i \in 1 .. PartCount(m, d, o), Present(m, d, o, i)
      PROVE  PartAt(d, o, i) \in PlacesOf(m) /\ Depth[PartAt(d, o, i)[1]] < Depth[d]
  <2>1. PartAt(d, o, i) \in PlacesOf(m)
    BY <1>1, <1>3 DEF ReadableAt
  <2>2. CASE Desc[d].type = "OBJECT"
    <3>1. PartAt(d, o, i)[1] = Desc[d].attr_descs[i].desc
      BY <2>2 DEF PartAt
    <3>2. i \in DOMAIN Desc[d].attr_descs
      <4>1. Desc[d].attr_descs \in Seq(AttrOver(Descs))
        BY <1>1, EncoderAssumption DEF DescOver
      <4> QED BY <1>3, <2>2, <4>1 DEF PartCount
    <3> QED BY <1>1, <2>1, <2>2, <3>1, <3>2, DepthAssumption
  <2>3. CASE Desc[d].type = "ARRAY"
    <3>1. PartAt(d, o, i)[1] = Desc[d].elem_attr_desc
      BY <2>3 DEF PartAt
    <3>2. PartAt(d, o, i) \in Descs \X Nat
      BY <2>1, ReadableAssumption
    <3> QED BY <1>1, <2>1, <2>3, <3>1, <3>2, DepthAssumption
  <2> QED BY <2>1, <2>2, <2>3 DEF HasParts
<1> QED BY <1>2, <1>3

\* A place is a pair, and the structure holds what is described there.
LEMMA PlaceFacts ==
  ASSUME NEW m \in Inputs, NEW p \in PlacesOf(m)
  PROVE  p = <<p[1], p[2]>> /\ p[1] \in Descs /\ p[2] \in Nat /\ ReadableAt(m, p[1], p[2])
BY ReadableAssumption

\* What is written in front of a part.
LEMMA FrontTexts ==
  ASSUME NEW m, NEW d \in Descs, NEW o, NEW i
  PROVE  /\ Comma(m, d, o, i) \in Texts
         /\ i \in 1 .. PartCount(m, d, o) => Label(d, i) \in Texts
<1>1. <<",">> \in Texts
  <2>1. "," \in Punctuation
    BY DEF Punctuation
  <2> QED BY <2>1, PunctuationWrites, Zenon DEF Texts
<1>2. Comma(m, d, o, i) \in Texts
  BY <1>1, TextsJoin, Zenon DEF Comma
<1>3. ASSUME i \in 1 .. PartCount(m, d, o) PROVE Label(d, i) \in Texts
  <2>1. CASE Desc[d].type = "OBJECT"
    <3>1. i \in DOMAIN Desc[d].attr_descs
      <4>1. Desc[d].attr_descs \in Seq(AttrOver(Descs))
        BY EncoderAssumption DEF DescOver
      <4> QED BY <1>3, <2>1, <4>1 DEF PartCount
    <3>2. Desc[d].attr_descs[i].name \in Texts
      BY <3>1, NameWrites DEF Texts
    <3>3. <<":">> \in Texts
      <4>1. ":" \in Punctuation
        BY DEF Punctuation
      <4> QED BY <4>1, PunctuationWrites, Zenon DEF Texts
    <3>4. Quote \in Texts
      BY QuoteType DEF Texts
    <3> DEFINE q == Quote
               name == Desc[d].attr_descs[i].name
               colon == <<":">>
    <3>5. Label(d, i) = q \o name \o q \o colon
      BY <2>1, Zenon DEF Label
    <3> HIDE DEF q, name, colon
    <3>6. q \in Texts /\ name \in Texts /\ colon \in Texts
      BY <3>2, <3>3, <3>4 DEF q, name, colon
    <3>7. q \o name \o q \o colon \in Texts
      BY <3>6, TextsJoin
    <3> QED BY <3>5, <3>7
  <2>2. CASE Desc[d].type # "OBJECT"
    BY <2>2, TextsJoin, Zenon DEF Label
  <2> QED BY <2>1, <2>2
<1> QED BY <1>2, <1>3

\* The parts of a place have texts.
PartsHaveTexts(m, text, d, o) ==
  HasParts(d) =>
    \A i \in 1 .. PartCount(m, d, o) : Present(m, d, o, i) => text[PartAt(d, o, i)] \in Texts

\* The texts of the parts are texts.
LEMMA PartTextsType ==
  ASSUME NEW m \in Inputs, NEW d, NEW o, <<d, o>> \in PlacesOf(m), HasParts(d),
         NEW text, PartsHaveTexts(m, text, d, o)
  PROVE  /\ PartTexts(m, text, d, o) \in Seq(Texts)
         /\ Len(PartTexts(m, text, d, o)) = PartCount(m, d, o)
<1> DEFINE n == PartCount(m, d, o)
           part(i) == IF Present(m, d, o, i)
                        THEN Comma(m, d, o, i) \o Label(d, i) \o text[PartAt(d, o, i)]
                        ELSE << >>
<1>1. n \in Nat
  BY PartFacts
<1>2. d \in Descs
  BY ReadableAssumption
<1>3. ASSUME NEW i \in 1 .. n PROVE part(i) \in Texts
  <2>1. CASE Present(m, d, o, i)
    <3>1. text[PartAt(d, o, i)] \in Texts
      BY <2>1 DEF PartsHaveTexts
    <3>2. Comma(m, d, o, i) \in Texts /\ Label(d, i) \in Texts
      BY <1>2, FrontTexts
    <3>3. Comma(m, d, o, i) \o Label(d, i) \o text[PartAt(d, o, i)] \in Texts
      BY <3>1, <3>2, TextsJoin
    <3> QED BY <2>1, <3>3
  <2>2. CASE ~Present(m, d, o, i)
    BY <2>2, TextsJoin
  <2> QED BY <2>1, <2>2
<1>4. PartTexts(m, text, d, o) = [i \in 1 .. n |-> part(i)]
  BY DEF PartTexts
<1> HIDE DEF n, part
<1>5. [i \in 1 .. n |-> part(i)] \in Seq(Texts) /\ Len([i \in 1 .. n |-> part(i)]) = n
  BY <1>1, <1>3
<1> QED BY <1>4, <1>5 DEF n

\* A place whose parts have texts has one.
LEMMA TextOfType ==
  ASSUME NEW m \in Inputs, NEW d, NEW o, <<d, o>> \in PlacesOf(m),
         NEW text, PartsHaveTexts(m, text, d, o)
  PROVE  TextOf(m, text, d, o) \in Texts
<1>1. d \in Descs /\ ReadableAt(m, d, o) /\ Desc[d].type \in Types
  <2>1. d \in Descs /\ ReadableAt(m, d, o)
    <3> DEFINE p == <<d, o>>
    <3>1. p \in PlacesOf(m) /\ p[1] = d /\ p[2] = o
      OBVIOUS
    <3> HIDE DEF p
    <3> QED BY <3>1, PlaceFacts
  <2> QED BY <2>1, EncoderAssumption DEF DescOver
<1> DEFINE all == Joined(PartTexts(m, text, d, o))[PartCount(m, d, o)]
           writes == ScalarWrites(Desc[d].type, m[o + Desc[d].value_offset].val)
<1>2. HasParts(d) => all \in Texts
  <2> SUFFICES ASSUME HasParts(d) PROVE all \in Texts
    OBVIOUS
  <2> DEFINE s == PartTexts(m, text, d, o)
             n == PartCount(m, d, o)
  <2>1. s \in Seq(Texts) /\ Len(s) = n /\ n \in Nat
    BY PartTextsType, PartFacts
  <2> HIDE DEF s, n
  <2>2. n \in 0 .. Len(s)
    BY <2>1
  <2> QED BY <2>1, <2>2, JoinedType DEF s, n
<1>3. \A c \in {"{", "}", "[", "]"} : <<c>> \in Texts
  <2>1. \A c \in {"{", "}", "[", "]"} : c \in Punctuation
    BY DEF Punctuation
  <2> QED BY <2>1, PunctuationWrites DEF Texts
<1>4. Desc[d].type \in DOMAIN ScalarCell => Joined(writes)[Len(writes)] \in Texts
  <2> SUFFICES ASSUME Desc[d].type \in DOMAIN ScalarCell
               PROVE  Joined(writes)[Len(writes)] \in Texts
    OBVIOUS
  <2>1. writes \in Seq(Texts)
    <3>1. m[o + Desc[d].value_offset].val \in ValuesOf[ScalarCell[Desc[d].type]]
      BY <1>1 DEF ReadableAt, Holds
    <3> QED BY <3>1, ScalarWritesType DEF Texts
  <2> HIDE DEF writes
  <2>2. Len(writes) \in 0 .. Len(writes)
    BY <2>1
  <2> QED BY <2>1, <2>2, JoinedType
<1>5. CASE Desc[d].type = "OBJECT"
  <2> DEFINE l == <<"{">>
             r == <<"}">>
  <2>1. TextOf(m, text, d, o) = l \o all \o r
    BY <1>5 DEF TextOf
  <2>2. all \in Texts /\ l \in Texts /\ r \in Texts
    BY <1>2, <1>3, <1>5 DEF HasParts
  <2> HIDE DEF all, l, r
  <2> QED BY <2>1, <2>2, TextsJoin
<1>6. CASE Desc[d].type = "ARRAY"
  <2> DEFINE l == <<"[">>
             r == <<"]">>
  <2>1. TextOf(m, text, d, o) = l \o all \o r
    BY <1>6 DEF TextOf
  <2>2. all \in Texts /\ l \in Texts /\ r \in Texts
    BY <1>2, <1>3, <1>6 DEF HasParts
  <2> HIDE DEF all, l, r
  <2> QED BY <2>1, <2>2, TextsJoin
<1>7. CASE Desc[d].type = "NULL"
  BY <1>7, TextsJoin DEF TextOf
<1>8. CASE Desc[d].type \in DOMAIN ScalarCell
  <2>1. TextOf(m, text, d, o) = Joined(writes)[Len(writes)]
    BY <1>8 DEF TextOf, ScalarCell
  <2> QED BY <1>4, <1>8, <2>1
<1> QED BY <1>1, <1>5, <1>6, <1>7, <1>8 DEF Types, ScalarCell

\* The text of a place depends on the texts of its parts only.
LEMMA TextOfAgrees ==
  ASSUME NEW m \in Inputs, NEW d, NEW o, <<d, o>> \in PlacesOf(m), NEW f, NEW g,
         HasParts(d) =>
           \A i \in 1 .. PartCount(m, d, o) :
             Present(m, d, o, i) => f[PartAt(d, o, i)] = g[PartAt(d, o, i)]
  PROVE  TextOf(m, f, d, o) = TextOf(m, g, d, o)
<1>1. HasParts(d) => PartTexts(m, f, d, o) = PartTexts(m, g, d, o)
  <2> SUFFICES ASSUME HasParts(d) PROVE PartTexts(m, f, d, o) = PartTexts(m, g, d, o)
    OBVIOUS
  <2> DEFINE part(t, i) == IF Present(m, d, o, i)
                             THEN Comma(m, d, o, i) \o Label(d, i) \o t[PartAt(d, o, i)]
                             ELSE << >>
             n == PartCount(m, d, o)
  <2>1. ASSUME NEW i \in 1 .. n PROVE part(f, i) = part(g, i)
    <3>1. CASE Present(m, d, o, i)
      <4>1. f[PartAt(d, o, i)] = g[PartAt(d, o, i)]
        BY <3>1
      <4> QED BY <4>1, Zenon
    <3>2. CASE ~Present(m, d, o, i)
      BY <3>2, Zenon
    <3> QED BY <3>1, <3>2
  <2>2. /\ PartTexts(m, f, d, o) = [i \in 1 .. n |-> part(f, i)]
        /\ PartTexts(m, g, d, o) = [i \in 1 .. n |-> part(g, i)]
    BY Zenon DEF PartTexts
  <2> HIDE DEF part, n
  <2> QED BY <2>1, <2>2
<1>2. CASE HasParts(d)
  BY <1>1, <1>2, Zenon DEF TextOf
<1>3. CASE ~HasParts(d)
  <2>1. Desc[d].type # "OBJECT" /\ Desc[d].type # "ARRAY"
    BY <1>3 DEF HasParts
  <2> DEFINE writes == ScalarWrites(Desc[d].type, m[o + Desc[d].value_offset].val)
  <2>2. CASE Desc[d].type = "NULL"
    BY <2>2 DEF TextOf
  <2>3. CASE Desc[d].type # "NULL"
    <3>1. /\ TextOf(m, f, d, o) = Joined(writes)[Len(writes)]
          /\ TextOf(m, g, d, o) = Joined(writes)[Len(writes)]
      <4>1. Desc[d].type \in DOMAIN ScalarCell
        <5> DEFINE p == <<d, o>>
        <5>1. p \in PlacesOf(m) /\ p[1] = d
          OBVIOUS
        <5> HIDE DEF p
        <5>2. d \in Descs
          BY <5>1, PlaceFacts
        <5>3. Desc[d].type \in Types
          BY <5>2, EncoderAssumption DEF DescOver
        <5> QED BY <2>1, <2>3, <5>3 DEF Types, ScalarCell
      <4> QED BY <4>1 DEF TextOf, ScalarCell
    <3> QED BY <3>1
  <2> QED BY <2>2, <2>3
<1> QED BY <1>2, <1>3

\* Every place has the text of its parts, and it is a text.
LEMMA TextRule ==
  ASSUME NEW m \in Inputs, NEW d, NEW o, <<d, o>> \in PlacesOf(m)
  PROVE  /\ JsonText(m)[<<d, o>>] = TextOf(m, JsonText(m), d, o)
         /\ JsonText(m)[<<d, o>>] \in Texts
         /\ PartsHaveTexts(m, JsonText(m), d, o)
<1> DEFINE X == PlacesOf(m)
           mu == [p \in X |-> Depth[p[1]]]
           Rule(f, p) == TextOf(m, f, p[1], p[2])
           R == [t \in [X -> Texts] \X X |-> Rule(t[1], t[2])]
           J == JsonText(m)
<1>1. mu \in [X -> Nat] /\ \A p \in X : mu[p] = Depth[p[1]]
  <2>1. \A p \in X : Depth[p[1]] \in Nat
    BY PlaceFacts, DepthAssumption
  <2> QED BY <2>1
<1> HIDE DEF mu
<1>2. J = CHOOSE f : f = [p \in X |-> Rule(f, p)]
  BY DEF JsonText
<1>3. ASSUME NEW p \in X, HasParts(p[1])
      PROVE  \A i \in 1 .. PartCount(m, p[1], p[2]) :
               Present(m, p[1], p[2], i) =>
                 PartAt(p[1], p[2], i) \in X /\ mu[PartAt(p[1], p[2], i)] < mu[p]
  <2> DEFINE a == p[1]
             b == p[2]
  <2>1. <<a, b>> \in PlacesOf(m)
    BY PlaceFacts
  <2> HIDE DEF a, b
  <2>2. \A i \in 1 .. PartCount(m, a, b) :
          Present(m, a, b, i) => PartAt(a, b, i) \in X /\ Depth[PartAt(a, b, i)[1]] < Depth[a]
    BY <1>3, <2>1, PartFacts DEF a
  <2> QED BY <1>1, <2>2 DEF a, b
<1>4. ASSUME NEW f, NEW p \in X, \A q \in X : mu[q] < mu[p] => f[q] \in Texts
      PROVE  Rule(f, p) \in Texts /\ PartsHaveTexts(m, f, p[1], p[2])
  <2>1. PartsHaveTexts(m, f, p[1], p[2])
    BY <1>3, <1>4 DEF PartsHaveTexts
  <2> DEFINE a == p[1]
             b == p[2]
  <2>2. <<a, b>> \in PlacesOf(m) /\ PartsHaveTexts(m, f, a, b)
    BY <2>1, PlaceFacts
  <2> HIDE DEF a, b
  <2>3. TextOf(m, f, a, b) \in Texts
    BY <2>2, TextOfType
  <2> QED BY <2>1, <2>3 DEF a, b
<1>5. ASSUME NEW p \in X, NEW f, NEW g, \A q \in X : mu[q] < mu[p] => f[q] = g[q]
      PROVE  Rule(f, p) = Rule(g, p)
  <2> DEFINE a == p[1]
             b == p[2]
  <2>1. <<a, b>> \in PlacesOf(m)
    BY PlaceFacts
  <2>2. HasParts(a) =>
           \A i \in 1 .. PartCount(m, a, b) :
             Present(m, a, b, i) => f[PartAt(a, b, i)] = g[PartAt(a, b, i)]
    BY <1>3, <1>5
  <2> HIDE DEF a, b
  <2>3. TextOf(m, f, a, b) = TextOf(m, g, a, b)
    BY <2>1, <2>2, TextOfAgrees
  <2> QED BY <2>3 DEF a, b
<1> HIDE DEF X, Rule
<1>6. R \in [[X -> Texts] \X X -> Texts]
  BY <1>4
<1>7. \A f \in [X -> Texts] : \A p \in X : R[<<f, p>>] = Rule(f, p)
  OBVIOUS
<1> HIDE DEF R
<1>8. LooksBelow(X, Texts, mu, R)
  BY <1>5, <1>7 DEF LooksBelow
<1>9. \E f : f = [p \in X |-> Rule(f, p)]
  <2>1. Texts # {}
    BY TextsJoin
  <2>2. PICK f : IsSolution(X, Texts, R, f)
    BY <1>1, <1>6, <1>8, <2>1, Recursion
  <2>3. f = [p \in X |-> Rule(f, p)]
    BY <1>7, <2>2 DEF IsSolution
  <2> QED BY <2>3
<1> HIDE DEF J
<1>10. J = [p \in X |-> Rule(J, p)]
  BY <1>2, <1>9
<1>11. \A p \in X : J[p] = Rule(J, p)
  BY <1>10
<1> DEFINE P == {n \in Nat : \A p \in X : mu[p] < n => J[p] \in Texts}
<1>12. 0 \in P
  BY <1>1
<1>13. ASSUME NEW n \in Nat, n \in P PROVE n + 1 \in P
  <2>1. ASSUME NEW p \in X, mu[p] < n + 1 PROVE J[p] \in Texts
    <3>1. \A q \in X : mu[q] < mu[p] => J[q] \in Texts
      BY <1>1, <1>13, <2>1
    <3> QED BY <1>4, <1>11, <3>1
  <2> QED BY <2>1
<1> HIDE DEF P
<1>14. \A n \in Nat : n \in P
  BY <1>12, <1>13, SetInduction
<1>15. ASSUME NEW p \in X PROVE J[p] \in Texts
  <2> DEFINE n == mu[p] + 1
  <2>1. n \in Nat /\ mu[p] < n
    BY <1>1
  <2> HIDE DEF n
  <2> QED BY <1>14, <2>1 DEF P
<1> DEFINE p == <<d, o>>
<1>16. p \in X /\ p[1] = d /\ p[2] = o
  BY DEF X
<1> HIDE DEF p
<1>17. J[p] = TextOf(m, J, p[1], p[2]) /\ J[p] \in Texts
  BY <1>11, <1>15, <1>16 DEF Rule
<1>18. PartsHaveTexts(m, J, p[1], p[2])
  BY <1>4, <1>15, <1>16
<1> QED BY <1>16, <1>17, <1>18 DEF J, p

\* A place can be encoded exactly when its parts can.
LEMMA EncodableRule ==
  ASSUME NEW m \in Inputs, NEW d, NEW o, <<d, o>> \in PlacesOf(m)
  PROVE  Encodable(m)[<<d, o>>] <=> NothingNull(m, Encodable(m), d, o)
<1> DEFINE X == PlacesOf(m)
           mu == [p \in X |-> Depth[p[1]]]
           Rule(f, p) == NothingNull(m, f, p[1], p[2])
           R == [t \in [X -> BOOLEAN] \X X |-> Rule(t[1], t[2])]
           ok == Encodable(m)
<1>1. mu \in [X -> Nat] /\ \A p \in X : mu[p] = Depth[p[1]]
  <2>1. \A p \in X : Depth[p[1]] \in Nat
    BY PlaceFacts, DepthAssumption
  <2> QED BY <2>1
<1> HIDE DEF mu
<1>2. ok = CHOOSE f : f = [p \in X |-> Rule(f, p)]
  BY Zenon DEF Encodable
<1>3. ASSUME NEW p \in X, HasParts(p[1])
      PROVE  \A i \in 1 .. PartCount(m, p[1], p[2]) :
               Present(m, p[1], p[2], i) =>
                 PartAt(p[1], p[2], i) \in X /\ mu[PartAt(p[1], p[2], i)] < mu[p]
  <2> DEFINE a == p[1]
             b == p[2]
  <2>1. <<a, b>> \in PlacesOf(m)
    BY PlaceFacts
  <2> HIDE DEF a, b
  <2>2. \A i \in 1 .. PartCount(m, a, b) :
          Present(m, a, b, i) => PartAt(a, b, i) \in X /\ Depth[PartAt(a, b, i)[1]] < Depth[a]
    BY <1>3, <2>1, PartFacts DEF a
  <2> QED BY <1>1, <2>2 DEF a, b
<1>4. ASSUME NEW p \in X, NEW f, NEW g, \A q \in X : mu[q] < mu[p] => f[q] = g[q]
      PROVE  Rule(f, p) => Rule(g, p)
  <2>1. HasParts(p[1]) =>
           \A i \in 1 .. PartCount(m, p[1], p[2]) :
             Present(m, p[1], p[2], i) => f[PartAt(p[1], p[2], i)] = g[PartAt(p[1], p[2], i)]
    BY <1>3, <1>4
  <2> QED BY <2>1, Zenon DEF NothingNull
<1>5. \A f, p : Rule(f, p) \in BOOLEAN
  BY Zenon DEF NothingNull
<1> HIDE DEF X, Rule
<1>6. ASSUME NEW p \in X, NEW f, NEW g, \A q \in X : mu[q] < mu[p] => f[q] = g[q]
      PROVE  Rule(f, p) = Rule(g, p)
  <2>1. Rule(f, p) => Rule(g, p)
    BY <1>4, <1>6
  <2>2. Rule(g, p) => Rule(f, p)
    BY <1>4, <1>6
  <2>3. Rule(f, p) \in BOOLEAN /\ Rule(g, p) \in BOOLEAN
    BY <1>5
  <2> QED BY <2>1, <2>2, <2>3
<1>7. R \in [[X -> BOOLEAN] \X X -> BOOLEAN]
  BY <1>5
<1>8. \A f \in [X -> BOOLEAN] : \A p \in X : R[<<f, p>>] = Rule(f, p)
  OBVIOUS
<1> HIDE DEF R
<1>9. LooksBelow(X, BOOLEAN, mu, R)
  BY <1>6, <1>8 DEF LooksBelow
<1>10. \E f : f = [p \in X |-> Rule(f, p)]
  <2>1. PICK f : IsSolution(X, BOOLEAN, R, f)
    BY <1>1, <1>7, <1>9, Recursion
  <2>2. f = [p \in X |-> Rule(f, p)]
    BY <1>8, <2>1 DEF IsSolution
  <2> QED BY <2>2
<1> HIDE DEF ok
<1>11. ok = [p \in X |-> Rule(ok, p)]
  BY <1>2, <1>10
<1> DEFINE p == <<d, o>>
<1>12. p \in X /\ p[1] = d /\ p[2] = o
  BY DEF X
<1> HIDE DEF p
<1>13. ok[p] <=> Rule(ok, p)
  BY <1>11, <1>12
<1>14. ok[p] <=> NothingNull(m, ok, d, o)
  BY <1>12, <1>13, Zenon DEF Rule
<1> QED BY <1>14, Zenon DEF ok, p

-----------------------------------------------------------------------------
(* The text of an active call.                                             *)

\* The place of an active call, and that of the part its loop is at.
PlaceOf(f) == <<f.desc, f.in>>
PartOf(f) == PartAt(f.desc, f.in, f.i)

Parts(m, f) == PartTexts(m, JsonText(m), f.desc, f.in)

\* What an active call has written: until its loop, until the part the loop is
\* at, and in the end.
Bracket(f) == IF f.kind = "object" THEN <<"{">> ELSE <<"[">>
Ending(f) == IF f.kind = "object" THEN <<"}">> ELSE <<"]">>
Opened(m, f) == Bracket(f) \o Joined(Parts(m, f))[f.i - 1]
Led(m, f) == Opened(m, f) \o (Comma(m, f.desc, f.in, f.i) \o Label(f.desc, f.i))

\* The same call, with its loop at i.
SameCall(f, g) == g.kind = f.kind /\ g.desc = f.desc /\ g.in = f.in

LEMMA BracketTypes == \A f : Bracket(f) \in Texts /\ Ending(f) \in Texts
<1>1. \A c \in {"{", "}", "[", "]"} : <<c>> \in Texts
  <2>1. \A c \in {"{", "}", "[", "]"} : c \in Punctuation
    BY DEF Punctuation
  <2> QED BY <2>1, PunctuationWrites DEF Texts
<1> QED BY <1>1, Zenon DEF Bracket, Ending

\* An active call over the structure m.
CallIn(m, f) == f \in Calls /\ FrameOK(m, f) /\ RangeIn(m, f)

\* An active call, in the terms of its place.
LEMMA CallFacts ==
  ASSUME NEW m \in Inputs, NEW f, CallIn(m, f)
  PROVE  /\ PlaceOf(f) \in PlacesOf(m) /\ HasParts(f.desc) /\ f.desc \in Descs
         /\ PartCount(m, f.desc, f.in) \in Nat
         /\ f.i \in 1 .. 1 + PartCount(m, f.desc, f.in)
         /\ f.kind \in {"object", "array"}
         /\ (f.kind = "object") <=> (Desc[f.desc].type = "OBJECT")
         /\ PartIn(m, f) <=> /\ f.i \in 1 .. PartCount(m, f.desc, f.in)
                             /\ Present(m, f.desc, f.in, f.i)
<1>1. /\ <<f.desc, f.in>> \in PlacesOf(m) /\ f.kind \in {"object", "array"} /\ f.desc \in Descs
      /\ Desc[f.desc].type = IF f.kind = "object" THEN "OBJECT" ELSE "ARRAY"
  BY DEF CallIn, FrameOK, Calls
<1>2. HasParts(f.desc)
  BY <1>1 DEF HasParts
<1>3. PartCount(m, f.desc, f.in) \in Nat
  BY <1>1, <1>2, PartFacts
<1>4. CASE f.kind = "object"
  <2>1. PartCount(m, f.desc, f.in) = Len(AttrsOf(f))
    BY <1>1, <1>4 DEF PartCount, AttrsOf
  <2>2. f.i \in 1 .. 1 + PartCount(m, f.desc, f.in)
    BY <1>4, <2>1 DEF CallIn, RangeIn
  <2>3. Present(m, f.desc, f.in, f.i) <=> m[Base(f) + AttrsOf(f)[f.i].exist_offset].val
    BY <1>1, <1>4 DEF Present, FlagAt, Base, AttrsOf
  <2>4. PartIn(m, f) <=> /\ f.i \in 1 .. PartCount(m, f.desc, f.in)
                         /\ Present(m, f.desc, f.in, f.i)
    BY <1>4, <2>1, <2>3 DEF PartIn
  <2> QED BY <1>1, <1>2, <1>3, <1>4, <2>2, <2>4 DEF PlaceOf
<1>5. CASE f.kind = "array"
  <2>1. PartCount(m, f.desc, f.in) = m[f.in + Desc[f.desc].count_offset].val
    BY <1>1, <1>5 DEF PartCount, CountAt
  <2>2. f.i \in 1 .. 1 + PartCount(m, f.desc, f.in)
    BY <1>5, <2>1 DEF CallIn, RangeIn
  <2>3. Present(m, f.desc, f.in, f.i)
    BY <1>1, <1>5 DEF Present
  <2>4. PartIn(m, f) <=> /\ f.i \in 1 .. PartCount(m, f.desc, f.in)
                         /\ Present(m, f.desc, f.in, f.i)
    BY <1>5, <2>1, <2>3 DEF PartIn
  <2> QED BY <1>1, <1>2, <1>3, <1>5, <2>2, <2>4 DEF PlaceOf
<1> QED BY <1>1, <1>4, <1>5

\* The text of its place: the brackets, and the texts of its parts between them.
LEMMA PartsFacts ==
  ASSUME NEW m \in Inputs, NEW f, CallIn(m, f)
  PROVE  /\ Parts(m, f) \in Seq(Texts)
         /\ Len(Parts(m, f)) = PartCount(m, f.desc, f.in)
         /\ JsonText(m)[PlaceOf(f)] \in Texts
         /\ JsonText(m)[PlaceOf(f)] =
              Bracket(f) \o Joined(Parts(m, f))[Len(Parts(m, f))] \o Ending(f)
<1> DEFINE d == f.desc
           o == f.in
           J == JsonText(m)
<1>1. <<d, o>> \in PlacesOf(m) /\ HasParts(d) /\ ((f.kind = "object") <=> (Desc[d].type = "OBJECT"))
  BY CallFacts DEF PlaceOf
<1> HIDE DEF d, o
<1>2. J[<<d, o>>] = TextOf(m, J, d, o) /\ J[<<d, o>>] \in Texts /\ PartsHaveTexts(m, J, d, o)
  BY <1>1, TextRule
<1> HIDE DEF J
<1>3. PartTexts(m, J, d, o) \in Seq(Texts) /\ Len(PartTexts(m, J, d, o)) = PartCount(m, d, o)
  BY <1>1, <1>2, PartTextsType
<1>4. J[<<d, o>>] = Bracket(f) \o Joined(PartTexts(m, J, d, o))[PartCount(m, d, o)] \o Ending(f)
  <2>1. CASE f.kind = "object"
    BY <1>1, <1>2, <2>1, Zenon DEF TextOf, Bracket, Ending
  <2>2. CASE f.kind # "object"
    <3>1. Desc[d].type = "ARRAY" /\ Desc[d].type # "OBJECT"
      BY <1>1, <2>2 DEF HasParts
    <3> QED BY <1>2, <2>2, <3>1, Zenon DEF TextOf, Bracket, Ending
  <2> QED BY <2>1, <2>2
<1> QED BY <1>2, <1>3, <1>4 DEF d, o, J, Parts, PlaceOf

\* What an active call has written before its loop goes on is the beginning of
\* the text of its place.
LEMMA OpenedBegins ==
  ASSUME NEW m \in Inputs, NEW f, CallIn(m, f)
  PROVE  Opened(m, f) \in Texts /\ Begins(Opened(m, f), JsonText(m)[PlaceOf(f)])
<1> DEFINE s == Parts(m, f)
           n == Len(s)
           i == f.i - 1
           b == Bracket(f)
           e == Ending(f)
           x == Joined(s)[i]
           y == Joined(s)[n]
<1>1. s \in Seq(Texts) /\ JsonText(m)[PlaceOf(f)] = b \o y \o e
  BY PartsFacts
<1>2. i \in 0 .. n /\ n \in 0 .. n
  <2>1. n = PartCount(m, f.desc, f.in)
    BY PartsFacts
  <2> HIDE DEF n
  <2> QED BY <2>1, CallFacts
<1>3. b \in Texts /\ e \in Texts
  BY BracketTypes
<1>4. Opened(m, f) = b \o x
  BY DEF Opened
<1> HIDE DEF s, i, b, e
<1>5. x \in Texts /\ y \in Texts /\ Begins(x, y)
  BY <1>1, <1>2, JoinedType, JoinedBegins
<1> HIDE DEF x, y
<1>6. b \o x \in Texts /\ b \o y \in Texts /\ (b \o y) \o e \in Texts
  BY <1>3, <1>5, TextsJoin
<1>7. Begins(b \o x, b \o y)
  BY <1>3, <1>5, BeginsUnder
<1>8. Begins(b \o y, (b \o y) \o e)
  BY <1>3, <1>6, BeginsMore
<1>9. Begins(b \o x, (b \o y) \o e)
  BY <1>6, <1>7, <1>8, BeginsOnward
<1> QED BY <1>1, <1>4, <1>6, <1>9 DEF b, e

\* Once the part the loop is at is written, the loop goes on behind it.
LEMMA PartWritten ==
  ASSUME NEW m \in Inputs, NEW f, CallIn(m, f), PartIn(m, f),
         NEW g, SameCall(f, g), g.i = f.i + 1
  PROVE  /\ PartOf(f) \in PlacesOf(m) /\ JsonText(m)[PartOf(f)] \in Texts
         /\ Led(m, f) \in Texts
         /\ Opened(m, g) = Led(m, f) \o JsonText(m)[PartOf(f)]
<1> DEFINE s == Parts(m, f)
           i == f.i
           h == f.i - 1
           b == Bracket(f)
           c == Comma(m, f.desc, f.in, f.i)
           l == Label(f.desc, f.i)
           t == JsonText(m)[PartOf(f)]
           x == Joined(s)[h]
           d == f.desc
           o == f.in
<1>1. /\ s \in Seq(Texts) /\ Len(s) = PartCount(m, f.desc, f.in)
  BY PartsFacts
<1>2. /\ <<d, o>> \in PlacesOf(m) /\ HasParts(d) /\ d \in Descs
      /\ f.i \in 1 .. PartCount(m, d, o) /\ Present(m, d, o, f.i) /\ PartCount(m, d, o) \in Nat
  BY CallFacts DEF PlaceOf
<1>3. PartOf(f) \in PlacesOf(m) /\ t \in Texts
  <2>1. PartAt(d, o, f.i) \in PlacesOf(m)
    <3> HIDE DEF d, o
    <3> QED BY <1>2, PartFacts
  <2>2. PartsHaveTexts(m, JsonText(m), d, o)
    <3> HIDE DEF d, o
    <3> QED BY <1>2, TextRule
  <2> QED BY <1>2, <2>1, <2>2 DEF PartsHaveTexts, PartOf
<1>4. b \in Texts /\ c \in Texts /\ l \in Texts
  BY <1>2, BracketTypes, FrontTexts
<1>5. s[i] = c \o l \o t
  BY <1>2, Zenon DEF Parts, PartTexts, PartOf
<1>6. Led(m, f) = (b \o x) \o (c \o l)
  BY DEF Led, Opened
<1>7. Opened(m, g) = b \o Joined(s)[i]
  <2>1. Parts(m, g) = s /\ Bracket(g) = b
    BY Zenon DEF Parts, Bracket, SameCall
  <2>2. g.i - 1 = i
    BY <1>2
  <2> QED BY <2>1, <2>2 DEF Opened
<1>8. h \in 0 .. Len(s) /\ i \in 1 .. Len(s) /\ i = h + 1
  BY <1>1, <1>2
<1> HIDE DEF s, i, h, b, c, l, t
<1>9. Joined(s)[i] = x \o s[i] /\ x \in Texts
  BY <1>1, <1>8, JoinedRule, JoinedType DEF Texts
<1> HIDE DEF x
<1>10. c \o l \in Texts /\ b \o x \in Texts
  BY <1>4, <1>9, TextsJoin
<1>11. b \o (x \o ((c \o l) \o t)) = ((b \o x) \o (c \o l)) \o t
  <2> DEFINE k == c \o l
             kt == k \o t
  <2>1. k \in Texts /\ kt \in Texts
    BY <1>3, <1>10, TextsJoin
  <2>2. kt = k \o t
    OBVIOUS
  <2> HIDE DEF k, kt
  <2>3. b \o (x \o kt) = (b \o x) \o kt
    BY <1>4, <1>9, <2>1, TextsAssociative, Zenon
  <2>4. (b \o x) \o (k \o t) = ((b \o x) \o k) \o t
    BY <1>3, <1>10, <2>1, TextsAssociative, Zenon
  <2> QED BY <2>2, <2>3, <2>4, Zenon DEF k
<1>12. Led(m, f) \in Texts
  BY <1>6, <1>10, TextsJoin
<1>13. Opened(m, g) = Led(m, f) \o t
  BY <1>5, <1>6, <1>7, <1>9, <1>11, Zenon
<1> QED BY <1>3, <1>12, <1>13 DEF t

\* Parts that are not there leave no text.
LEMMA PartsSkipped ==
  ASSUME NEW m \in Inputs, NEW f, CallIn(m, f),
         NEW j \in f.i .. 1 + PartCount(m, f.desc, f.in),
         \A k \in f.i .. j - 1 : ~Present(m, f.desc, f.in, k)
  PROVE  Joined(Parts(m, f))[j - 1] = Joined(Parts(m, f))[f.i - 1]
<1> DEFINE s == Parts(m, f)
           n == PartCount(m, f.desc, f.in)
           a == f.i - 1
           b == j - 1
<1>1. s \in Seq(Texts) /\ Len(s) = n /\ n \in Nat /\ f.i \in 1 .. 1 + n
  BY PartsFacts, CallFacts
<1>2. a \in 0 .. Len(s) /\ b \in a .. Len(s)
  BY <1>1
<1>3. ASSUME NEW k \in a + 1 .. b PROVE s[k] = << >>
  <2>1. k \in f.i .. j - 1 /\ k \in 1 .. n
    BY <1>1
  <2>2. ~Present(m, f.desc, f.in, k)
    BY <2>1
  <2> QED BY <2>1, <2>2, Zenon DEF Parts, PartTexts
<1> HIDE DEF s, a, b
<1>4. Joined(s)[b] = Joined(s)[a]
  BY <1>1, <1>2, <1>3, JoinedEmpty DEF Texts
<1> QED BY <1>4 DEF s, a, b

\* The loop goes on without a word to the next part that is there.
LEMMA OpenedSkips ==
  ASSUME NEW m \in Inputs, NEW f, CallIn(m, f), NEW g, SameCall(f, g),
         g.i \in f.i .. PartCount(m, f.desc, f.in),
         \A k \in f.i .. g.i - 1 : ~Present(m, f.desc, f.in, k)
  PROVE  Opened(m, g) = Opened(m, f)
<1> DEFINE j == g.i
<1>1. j \in f.i .. 1 + PartCount(m, f.desc, f.in)
  BY CallFacts
<1>2. \A k \in f.i .. j - 1 : ~Present(m, f.desc, f.in, k)
  OBVIOUS
<1>3. Opened(m, g) = Bracket(f) \o Joined(Parts(m, f))[j - 1]
  BY DEF Opened, Parts, Bracket, SameCall
<1> HIDE DEF j
<1> QED BY <1>1, <1>2, <1>3, PartsSkipped DEF Opened

\* When no part is left the closing bracket completes the text of the place.
LEMMA OpenedEnds ==
  ASSUME NEW m \in Inputs, NEW f, CallIn(m, f),
         \A k \in f.i .. PartCount(m, f.desc, f.in) : ~Present(m, f.desc, f.in, k)
  PROVE  JsonText(m)[PlaceOf(f)] = Opened(m, f) \o Ending(f)
<1> DEFINE n == PartCount(m, f.desc, f.in)
           j == n + 1
<1>1. n \in Nat /\ f.i \in 1 .. 1 + n
  BY CallFacts
<1>2. j \in f.i .. 1 + n /\ j - 1 = n
  BY <1>1
<1>3. \A k \in f.i .. j - 1 : ~Present(m, f.desc, f.in, k)
  BY <1>2
<1>4. Joined(Parts(m, f))[j - 1] = Joined(Parts(m, f))[f.i - 1]
  <2> HIDE DEF j
  <2> QED BY <1>2, <1>3, PartsSkipped
<1>5. /\ JsonText(m)[PlaceOf(f)] = Bracket(f) \o Joined(Parts(m, f))[Len(Parts(m, f))] \o Ending(f)
      /\ Len(Parts(m, f)) = n
  BY PartsFacts
<1> HIDE DEF n, j
<1> QED BY <1>2, <1>4, <1>5 DEF Opened

-----------------------------------------------------------------------------
(* Where the calls started.                                                *)

RootPlace == <<Root, 0>>

\* An active call which started when the text was t: the text of its place goes
\* on from there, and nothing the call has left behind is described as null.  An
\* object counts the members before its loop.
FrameSound(m, t, f) ==
  /\ t \in Texts
  /\ Begins(t \o JsonText(m)[PlaceOf(f)], JsonText(m)[RootPlace])
  /\ Encodable(m)[RootPlace] => Encodable(m)[PlaceOf(f)]
  /\ \A j \in 1 .. f.i - 1 :
       Present(m, f.desc, f.in, j) => Encodable(m)[PartAt(f.desc, f.in, j)]
  /\ f.kind = "object" =>
       (f.count > 0 <=> \E j \in 1 .. f.i - 1 : Present(m, f.desc, f.in, j))

\* The text before, and the place of, what a stack of calls leads to.
ValueStart(m, start, stack) ==
  IF stack = << >> THEN << >> ELSE start[Len(stack)] \o Led(m, stack[Len(stack)])

ValuePlace(stack) == IF stack = << >> THEN RootPlace ELSE PartOf(stack[Len(stack)])

\* Every call started at the part its caller is at.
LinkedAt(m, start, stack, k) ==
  IF k = 1
    THEN start[k] = << >> /\ PlaceOf(stack[k]) = RootPlace
    ELSE /\ start[k] = start[k - 1] \o Led(m, stack[k - 1])
         /\ PlaceOf(stack[k]) = PartOf(stack[k - 1])

Starts(m, start, stack) ==
  /\ start \in Seq(Texts) /\ Len(start) = Len(stack)
  /\ \A k \in DOMAIN stack : FrameSound(m, start[k], stack[k]) /\ LinkedAt(m, start, stack, k)

\* The value to be encoded next is a part of the whole, and so is its text.
ValueSound(m, t, p) ==
  /\ t \in Texts /\ p \in PlacesOf(m) /\ JsonText(m)[p] \in Texts
  /\ Begins(t \o JsonText(m)[p], JsonText(m)[RootPlace])
  /\ Encodable(m)[RootPlace] => Encodable(m)[p]

\* The text of the whole.
LEMMA RootFacts ==
  ASSUME NEW m \in Inputs
  PROVE  RootPlace \in PlacesOf(m) /\ JsonText(m)[RootPlace] \in Texts
<1>1. <<Root, 0>> \in PlacesOf(m)
  BY ReadableAssumption
<1> QED BY <1>1, TextRule DEF RootPlace

\* The part an active call is at.
LEMMA PartSound ==
  ASSUME NEW m \in Inputs, NEW f, CallIn(m, f), PartIn(m, f), NEW t, FrameSound(m, t, f)
  PROVE  ValueSound(m, t \o Led(m, f), PartOf(f))
<1> DEFINE g == [f EXCEPT !.i = f.i + 1]
           u == JsonText(m)[PartOf(f)]
           v == JsonText(m)[PlaceOf(f)]
           r == JsonText(m)[RootPlace]
           l == Led(m, f)
<1>1. /\ SameCall(f, g) /\ g.i = f.i + 1 /\ CallIn(m, g)
  <2>1. f \in Calls /\ f.i \in Nat
    BY DEF CallIn, Calls
  <2>2. SameCall(f, g) /\ g.i = f.i + 1 /\ g \in Calls
    BY <2>1 DEF SameCall, Calls
  <2> HIDE DEF g
  <2>3. FrameOK(m, g)
    BY <2>2 DEF CallIn, FrameOK, SameCall
  <2>4. RangeIn(m, g)
    <3>1. f.i \in 1 .. PartCount(m, f.desc, f.in) /\ PartCount(m, f.desc, f.in) \in Nat
          /\ ((f.kind = "object") <=> (Desc[f.desc].type = "OBJECT"))
          /\ f.kind \in {"object", "array"}
      BY CallFacts
    <3>2. f.i + 1 \in 1 .. 1 + PartCount(m, f.desc, f.in)
      BY <3>1
    <3> QED BY <2>2, <3>1, <3>2 DEF RangeIn, SameCall, PartCount, CountAt, AttrsOf
  <2> QED BY <2>2, <2>3, <2>4 DEF CallIn
<1>2. /\ PartOf(f) \in PlacesOf(m) /\ u \in Texts /\ l \in Texts
      /\ Opened(m, g) = l \o u
  <2> HIDE DEF g
  <2> QED BY <1>1, PartWritten
<1>3. Begins(l \o u, v) /\ v \in Texts
  <2>1. PlaceOf(g) = PlaceOf(f)
    BY <1>1 DEF PlaceOf, SameCall
  <2>2. Begins(Opened(m, g), JsonText(m)[PlaceOf(g)])
    <3> HIDE DEF g
    <3> QED BY <1>1, OpenedBegins
  <2> QED BY <1>2, <2>1, <2>2, PartsFacts
<1>4. t \in Texts /\ Begins(t \o v, r) /\ r \in Texts
  BY RootFacts DEF FrameSound
<1>5. Encodable(m)[RootPlace] => Encodable(m)[PartOf(f)]
  <2> DEFINE d == f.desc
             o == f.in
             i == f.i
  <2>1. /\ <<d, o>> \in PlacesOf(m) /\ HasParts(d)
        /\ i \in 1 .. PartCount(m, d, o) /\ Present(m, d, o, i)
    BY CallFacts DEF PlaceOf
  <2>2. Encodable(m)[RootPlace] => Encodable(m)[<<d, o>>]
    BY DEF FrameSound, PlaceOf
  <2>3. PartOf(f) = PartAt(d, o, i)
    BY DEF PartOf
  <2> HIDE DEF d, o, i
  <2>4. Encodable(m)[<<d, o>>] => NothingNull(m, Encodable(m), d, o)
    BY <2>1, EncodableRule
  <2>5. NothingNull(m, Encodable(m), d, o) => Encodable(m)[PartAt(d, o, i)]
    BY <2>1 DEF NothingNull
  <2> QED BY <2>2, <2>3, <2>4, <2>5
<1> HIDE DEF u, v, r, l
<1>6. Begins((t \o l) \o u, r) /\ t \o l \in Texts
  <2> DEFINE lu == l \o u
             tlu == t \o lu
             tl == t \o l
             tv == t \o v
  <2>1. lu \in Texts /\ tl \in Texts /\ tv \in Texts
    BY <1>2, <1>3, <1>4, TextsJoin
  <2>2. tl \o u = tlu
    BY <1>2, <1>4, TextsAssociative, Zenon
  <2>3. Begins(lu, v)
    BY <1>3
  <2> HIDE DEF lu
  <2>4. Begins(tlu, tv) /\ tlu \in Texts
    BY <1>3, <1>4, <2>1, <2>3, BeginsUnder, TextsJoin
  <2>5. Begins(tv, r)
    BY <1>4
  <2> HIDE DEF tlu, tv, tl
  <2>6. Begins(tlu, r)
    BY <1>4, <2>1, <2>4, <2>5, BeginsOnward
  <2> QED BY <2>1, <2>2, <2>6 DEF tl
<1> QED BY <1>2, <1>5, <1>6 DEF ValueSound, l, u, r

\* The value a stack of calls leads to.
LEMMA ValueFacts ==
  ASSUME NEW m \in Inputs, NEW stack, NEW now \in {"value", "return"}, StackIn(m, stack, now),
         NEW start, Starts(m, start, stack)
  PROVE  ValueSound(m, ValueStart(m, start, stack), ValuePlace(stack))
<1>1. CASE stack = << >>
  <2>1. ValueStart(m, start, stack) = << >> /\ ValuePlace(stack) = RootPlace
    BY <1>1 DEF ValueStart, ValuePlace
  <2> DEFINE r == JsonText(m)[RootPlace]
  <2>2. r \in Texts /\ RootPlace \in PlacesOf(m)
    BY RootFacts
  <2> HIDE DEF r
  <2>3. << >> \o r = r /\ Begins(r, r) /\ << >> \in Texts
    BY <2>2, TextsJoin, BeginsItself
  <2> QED BY <2>1, <2>2, <2>3 DEF ValueSound, r
<1>2. CASE stack # << >>
  <2> DEFINE n == Len(stack)
             f == stack[n]
             t == start[n]
  <2>1. n \in DOMAIN stack
    BY <1>2 DEF StackIn
  <2>2. ValueStart(m, start, stack) = t \o Led(m, f) /\ ValuePlace(stack) = PartOf(f)
    BY <1>2 DEF ValueStart, ValuePlace
  <2> HIDE DEF n
  <2>3. CallIn(m, f) /\ PartIn(m, f)
    BY <2>1 DEF StackIn, CallIn
  <2>4. FrameSound(m, t, f)
    BY <2>1 DEF Starts
  <2> HIDE DEF f, t
  <2> QED BY <2>2, <2>3, <2>4, PartSound
<1> QED BY <1>1, <1>2

\* A call is entered, it returns, and its loop goes on.
LEMMA StartsPushed ==
  ASSUME NEW m, NEW stack \in Seq(Calls), NEW start, Starts(m, start, stack),
         NEW f \in Calls, PlaceOf(f) = ValuePlace(stack),
         FrameSound(m, ValueStart(m, start, stack), f)
  PROVE  Starts(m, Append(start, ValueStart(m, start, stack)), Append(stack, f))
<1> DEFINE n == Len(stack)
           t == ValueStart(m, start, stack)
           new == Append(stack, f)
           begun == Append(start, t)
<1>1. /\ new \in Seq(Calls) /\ Len(new) = n + 1 /\ n \in Nat
      /\ DOMAIN new = 1 .. n + 1 /\ DOMAIN stack = 1 .. n
      /\ new[n + 1] = f /\ \A k \in 1 .. n : new[k] = stack[k]
  OBVIOUS
<1>2. t \in Texts
  BY DEF FrameSound
<1>3. t = IF n = 0 THEN << >> ELSE start[n] \o Led(m, stack[n])
  BY DEF ValueStart
<1>4. ValuePlace(stack) = IF n = 0 THEN RootPlace ELSE PartOf(stack[n])
  BY DEF ValuePlace
<1> HIDE DEF t
<1>5. /\ begun \in Seq(Texts) /\ Len(begun) = n + 1
      /\ begun[n + 1] = t /\ \A k \in 1 .. n : begun[k] = start[k]
  BY <1>1, <1>2 DEF Starts
<1>6. FrameSound(m, t, f)
  BY DEF t
<1> HIDE DEF n, new, begun
<1>7. ASSUME NEW k \in 1 .. n + 1
      PROVE  FrameSound(m, begun[k], new[k]) /\ LinkedAt(m, begun, new, k)
  <2>1. CASE k \in 1 .. n
    <3>1. FrameSound(m, start[k], stack[k]) /\ LinkedAt(m, start, stack, k)
      BY <1>1, <2>1 DEF Starts
    <3>2. new[k] = stack[k] /\ begun[k] = start[k]
      BY <1>1, <1>5, <2>1
    <3>3. k # 1 => new[k - 1] = stack[k - 1] /\ begun[k - 1] = start[k - 1]
      <4>1. k # 1 => k - 1 \in 1 .. n
        BY <1>1, <2>1
      <4> QED BY <1>1, <1>5, <4>1
    <3> QED BY <3>1, <3>2, <3>3 DEF LinkedAt
  <2>2. CASE k = n + 1
    <3>1. new[k] = f /\ begun[k] = t
      BY <1>1, <1>5, <2>2
    <3>2. CASE n = 0
      <4>1. k = 1 /\ t = << >> /\ ValuePlace(stack) = RootPlace
        BY <1>3, <1>4, <2>2, <3>2
      <4> QED BY <1>6, <3>1, <4>1 DEF LinkedAt
    <3>3. CASE n # 0
      <4>1. k # 1 /\ k - 1 = n /\ n \in 1 .. n
        BY <1>1, <2>2, <3>3
      <4>2. new[k - 1] = stack[n] /\ begun[k - 1] = start[n]
        BY <1>1, <1>5, <4>1
      <4> QED BY <1>3, <1>4, <1>6, <3>1, <3>3, <4>1, <4>2 DEF LinkedAt
    <3> QED BY <3>2, <3>3
  <2> QED BY <1>1, <2>1, <2>2
<1>8. Starts(m, begun, new)
  BY <1>1, <1>5, <1>7 DEF Starts
<1> QED BY <1>8 DEF begun, new, t

LEMMA StartsPopped ==
  ASSUME NEW m, NEW stack \in Seq(Calls), stack # << >>, NEW start, Starts(m, start, stack)
  PROVE  /\ Starts(m, Front(start), Front(stack))
         /\ ValuePlace(Front(stack)) = PlaceOf(stack[Len(stack)])
         /\ ValueStart(m, Front(start), Front(stack)) = start[Len(stack)]
<1> DEFINE n == Len(stack) - 1
           below == SubSeq(stack, 1, n)
           begun == SubSeq(start, 1, n)
<1>1. n \in Nat /\ Len(stack) = n + 1 /\ Len(start) = n + 1 /\ DOMAIN stack = 1 .. n + 1
  BY DEF Starts
<1>2. Front(stack) = below /\ Front(start) = begun
  BY <1>1 DEF Front
<1> HIDE DEF n
<1>3. /\ below \in Seq(Calls) /\ Len(below) = n /\ \A k \in 1 .. n : below[k] = stack[k]
  <2>1. /\ \A k \in 1 .. n : stack[k] \in Calls
        /\ n \in Int /\ 1 \in Int /\ n - 1 + 1 = n /\ (~(1 <= n) => n = 0)
    BY <1>1
  <2>2. /\ below \in Seq(Calls)
        /\ Len(below) = IF 1 <= n THEN n - 1 + 1 ELSE 0
        /\ \A k \in 1 .. n - 1 + 1 : below[k] = stack[1 + k - 1]
    BY <2>1, SubSeqProperties
  <2> QED BY <2>1, <2>2
<1>4. /\ begun \in Seq(Texts) /\ Len(begun) = n /\ \A k \in 1 .. n : begun[k] = start[k]
  <2>0. start \in Seq(Texts)
    BY DEF Starts
  <2>1. /\ \A k \in 1 .. n : start[k] \in Texts
        /\ n \in Int /\ 1 \in Int /\ n - 1 + 1 = n /\ (~(1 <= n) => n = 0)
    BY <1>1, <2>0
  <2>2. /\ begun \in Seq(Texts)
        /\ Len(begun) = IF 1 <= n THEN n - 1 + 1 ELSE 0
        /\ \A k \in 1 .. n - 1 + 1 : begun[k] = start[1 + k - 1]
    BY <2>0, <2>1, SubSeqProperties
  <2> QED BY <2>1, <2>2
<1> HIDE DEF below, begun
<1>5. ASSUME NEW k \in 1 .. n
      PROVE  FrameSound(m, begun[k], below[k]) /\ LinkedAt(m, begun, below, k)
  <2>1. FrameSound(m, start[k], stack[k]) /\ LinkedAt(m, start, stack, k)
    BY <1>1 DEF Starts
  <2>2. below[k] = stack[k] /\ begun[k] = start[k]
    BY <1>3, <1>4
  <2>3. k # 1 => below[k - 1] = stack[k - 1] /\ begun[k - 1] = start[k - 1]
    <3>1. k # 1 => k - 1 \in 1 .. n
      BY <1>1
    <3> QED BY <1>3, <1>4, <3>1
  <2> QED BY <2>1, <2>2, <2>3 DEF LinkedAt
<1>6. Starts(m, begun, below)
  <2>1. DOMAIN below = 1 .. n
    BY <1>3
  <2> QED BY <1>3, <1>4, <1>5, <2>1 DEF Starts
<1>7. LinkedAt(m, start, stack, n + 1)
  BY <1>1 DEF Starts
<1>8. /\ ValuePlace(below) = PlaceOf(stack[n + 1])
      /\ ValueStart(m, begun, below) = start[n + 1]
  <2>1. CASE n = 0
    <3>1. below = << >> /\ n + 1 = 1
      BY <1>3, <2>1
    <3> QED BY <1>7, <3>1 DEF LinkedAt, ValuePlace, ValueStart
  <2>2. CASE n # 0
    <3>1. /\ below # << >> /\ n + 1 # 1 /\ (n + 1) - 1 = n
          /\ below[n] = stack[n] /\ begun[n] = start[n]
      BY <1>1, <1>3, <1>4, <2>2
    <3>2. /\ start[n + 1] = start[n] \o Led(m, stack[n])
          /\ PlaceOf(stack[n + 1]) = PartOf(stack[n])
      BY <1>7, <3>1 DEF LinkedAt
    <3> QED BY <1>3, <3>1, <3>2 DEF ValuePlace, ValueStart
  <2> QED BY <2>1, <2>2
<1> QED BY <1>1, <1>2, <1>6, <1>8

LEMMA StartsReplaced ==
  ASSUME NEW m, NEW stack \in Seq(Calls), stack # << >>, NEW start, Starts(m, start, stack),
         NEW g \in Calls, SameCall(stack[Len(stack)], g), FrameSound(m, start[Len(stack)], g)
  PROVE  Starts(m, start, [stack EXCEPT ![Len(stack)] = g])
<1> DEFINE n == Len(stack)
           new == [stack EXCEPT ![n] = g]
<1>1. /\ new \in Seq(Calls) /\ Len(new) = n /\ n \in Nat /\ n \in 1 .. n
      /\ DOMAIN new = 1 .. n /\ DOMAIN stack = 1 .. n
      /\ new[n] = g /\ \A k \in 1 .. n : k # n => new[k] = stack[k]
  OBVIOUS
<1>2. PlaceOf(g) = PlaceOf(stack[n])
  BY DEF SameCall, PlaceOf
<1>3. FrameSound(m, start[n], g)
  OBVIOUS
<1> HIDE DEF n, new
<1>4. ASSUME NEW k \in 1 .. n
      PROVE  FrameSound(m, start[k], new[k]) /\ LinkedAt(m, start, new, k)
  <2>1. FrameSound(m, start[k], stack[k]) /\ LinkedAt(m, start, stack, k)
    BY <1>1 DEF Starts
  <2>2. k # 1 => new[k - 1] = stack[k - 1]
    <3>1. k # 1 => k - 1 \in 1 .. n /\ k - 1 # n
      BY <1>1
    <3> QED BY <1>1, <3>1
  <2>3. PlaceOf(new[k]) = PlaceOf(stack[k])
    BY <1>1, <1>2
  <2>4. FrameSound(m, start[k], new[k])
    BY <1>1, <1>3, <2>1
  <2> QED BY <2>1, <2>2, <2>3, <2>4 DEF LinkedAt
<1>5. Starts(m, start, new)
  BY <1>1, <1>4 DEF Starts, n
<1> QED BY <1>5 DEF new, n

-----------------------------------------------------------------------------
(* The text invariant.                                                     *)

\* The text there will be once the writes that are left are done.
SoFar(m, start, stack, now) ==
  IF now = "loop" THEN start[Len(stack)] \o Opened(m, stack[Len(stack)])
  ELSE IF now = "value" THEN ValueStart(m, start, stack)
  ELSE ValueStart(m, start, stack) \o JsonText(m)[ValuePlace(stack)]

Rest == IF pc = "write" THEN Joined(todo)[Len(todo)] ELSE << >>

\* encode_array is at the head of its loop without a comma only before the first
\* element and behind the last: elsewhere the comma is written at once.
AtEdge(m, f) ==
  f.kind = "array" => f.i = 1 \/ f.i > m[f.in + Desc[f.desc].count_offset].val

Writing(start) ==
  /\ Starts(in, start, calls)
  /\ Text \o Rest = SoFar(in, start, calls, Now)
  /\ Now = "return" => Encodable(in)[ValuePlace(calls)]
  /\ Now = "loop" => AtEdge(in, calls[Len(calls)])

\* What an encoder that has stopped says of its text.
Ended ==
  /\ Begins(Text, Output)
  /\ result = "NONE" => Text = Output /\ Encodable(in)[RootPlace]
  /\ result = "INSUFFICIENT_SPACE" => Len(Output) > cap
  /\ result = "NOT_SUPPORT" => ~Encodable(in)[RootPlace]

\* The text invariant: the text is what the calls have come to.
TextInv == IF pc = "done" THEN Ended ELSE \E start : Writing(start)

\* Where the calls have come to, the text of the whole begins.
LEMMA SoFarBegins ==
  ASSUME NEW m \in Inputs, NEW stack, NEW now \in {"value", "loop", "return"},
         StackIn(m, stack, now), now = "loop" => stack # << >>,
         NEW start, Starts(m, start, stack)
  PROVE  /\ SoFar(m, start, stack, now) \in Texts
         /\ Begins(SoFar(m, start, stack, now), JsonText(m)[RootPlace])
<1> DEFINE r == JsonText(m)[RootPlace]
<1>1. r \in Texts
  BY RootFacts
<1>2. CASE now = "loop"
  <2> DEFINE n == Len(stack)
             f == stack[n]
             t == start[n]
             v == JsonText(m)[PlaceOf(f)]
             x == Opened(m, f)
  <2>1. n \in DOMAIN stack
    BY <1>2 DEF StackIn
  <2>2. SoFar(m, start, stack, now) = t \o x
    BY <1>2 DEF SoFar
  <2> HIDE DEF n
  <2>3. CallIn(m, f) /\ FrameSound(m, t, f)
    BY <2>1 DEF StackIn, CallIn, Starts
  <2> HIDE DEF f, t
  <2>4. x \in Texts /\ Begins(x, v) /\ v \in Texts
    BY <2>3, OpenedBegins, PartsFacts
  <2>5. t \in Texts /\ Begins(t \o v, r)
    BY <2>3 DEF FrameSound
  <2> HIDE DEF x, v, r
  <2>6. t \o x \in Texts /\ t \o v \in Texts /\ Begins(t \o x, t \o v)
    BY <2>4, <2>5, TextsJoin, BeginsUnder
  <2>7. Begins(t \o x, r)
    BY <1>1, <2>5, <2>6, BeginsOnward
  <2> QED BY <2>2, <2>6, <2>7 DEF r
<1>3. CASE now # "loop"
  <2> DEFINE t == ValueStart(m, start, stack)
             v == JsonText(m)[ValuePlace(stack)]
  <2>1. t \in Texts /\ v \in Texts /\ Begins(t \o v, r)
    BY <1>3, ValueFacts DEF ValueSound
  <2>2. SoFar(m, start, stack, now) = IF now = "value" THEN t ELSE t \o v
    BY <1>3 DEF SoFar
  <2> HIDE DEF t, v, r
  <2>3. t \o v \in Texts /\ Begins(t, t \o v)
    BY <2>1, TextsJoin, BeginsMore
  <2>4. Begins(t, r)
    BY <1>1, <2>1, <2>3, BeginsOnward
  <2> QED BY <2>1, <2>2, <2>3, <2>4 DEF r
<1> QED BY <1>2, <1>3

\* What is written and what is left to write begin the text of the whole.
LEMMA WritingBegins ==
  ASSUME IInv, pc # "done", NEW start, Writing(start)
  PROVE  /\ Text \o Rest \in Texts /\ Text \in Texts /\ Rest \in Texts /\ Output \in Texts
         /\ Begins(Text \o Rest, Output) /\ Begins(Text, Output)
<1>1. /\ in \in Inputs /\ StackIn(in, calls, Now) /\ (Now = "loop" => calls # << >>)
      /\ todo \in Seq(Texts) /\ Now \in {"value", "loop", "return"}
  BY DEF IInv, EncoderOK, Texts, Now
<1>2. SoFar(in, start, calls, Now) \in Texts /\ Begins(SoFar(in, start, calls, Now), Output)
  BY <1>1, SoFarBegins DEF Writing, Output, RootPlace
<1>3. Output \in Texts
  BY <1>1, RootFacts DEF Output, RootPlace
<1>4. Rest \in Texts
  <2>1. Len(todo) \in 0 .. Len(todo)
    BY <1>1
  <2> QED BY <1>1, <2>1, JoinedType, TextsJoin DEF Rest
<1>5. Text \in Texts
  BY TextType DEF IInv, Texts
<1>6. Text \o Rest \in Texts /\ Begins(Text \o Rest, Output)
  BY <1>2 DEF Writing
<1>7. Begins(Text, Output)
  BY <1>3, <1>4, <1>5, <1>6, BeginsMore, BeginsOnward
<1> QED BY <1>3, <1>4, <1>5, <1>6, <1>7

\* The arguments of the pending call are the place the calls lead to.
LEMMA PendingIs ==
  ASSUME IInv, Now \in {"value", "return"}
  PROVE  <<Pending.desc, Pending.in>> = ValuePlace(calls)
<1>1. CASE calls = << >>
  BY <1>1 DEF Pending, ValuePlace, RootPlace
<1>2. CASE calls # << >>
  <2> DEFINE f == Last(calls)
  <2>1. /\ f \in Calls /\ FrameOK(in, f) /\ RangeIn(in, f) /\ in \in Inputs
    BY <1>2, TopCall
  <2>2. Pending = IF f.kind = "object"
                    THEN [desc |-> AttrsOf(f)[f.i].desc, in |-> Base(f)]
                    ELSE [desc |-> Desc[f.desc].elem_attr_desc,
                          in |-> Base(f) + (f.i - 1) * Desc[f.desc].elem_size]
    BY <1>2 DEF Pending
  <2>3. ValuePlace(calls) = PartOf(f)
    BY <1>2 DEF ValuePlace, Last
  <2> HIDE DEF f
  <2>4. (f.kind = "object") <=> (Desc[f.desc].type = "OBJECT")
    BY <2>1, CallFacts DEF CallIn
  <2>5. PartOf(f) = IF f.kind = "object"
                      THEN <<AttrsOf(f)[f.i].desc, Base(f)>>
                      ELSE <<Desc[f.desc].elem_attr_desc,
                             Base(f) + (f.i - 1) * Desc[f.desc].elem_size>>
    BY <2>4 DEF PartOf, PartAt, Base, AttrsOf
  <2>6. CASE f.kind = "object"
    BY <2>2, <2>3, <2>5, <2>6
  <2>7. CASE f.kind # "object"
    BY <2>2, <2>3, <2>5, <2>7
  <2> QED BY <2>6, <2>7
<1> QED BY <1>1, <1>2

\* A step that gives the encoder something to write.
LEMMA WritesStep ==
  ASSUME WriterOK, UNCHANGED <<buf, cap, len, in>>, NEW start, Starts(in, start, calls'),
         NEW writes, NEW now, Do(writes, now),
         Text \o Joined(writes)[Len(writes)] = SoFar(in, start, calls', now),
         now = "return" => Encodable(in)[ValuePlace(calls')],
         now = "loop" => AtEdge(in, calls'[Len(calls')])
  PROVE  TextInv'
<1>1. Text' = Text /\ in' = in
  BY RefusedStep
<1>2. pc' = "write" /\ todo' = writes /\ Now' = now
  BY DEF Do, Now
<1>3. Rest' = Joined(writes)[Len(writes)]
  BY <1>2 DEF Rest
<1>4. Starts(in', start, calls')
  BY <1>1
<1>5. Text' \o Rest' = SoFar(in', start, calls', Now')
  BY <1>1, <1>2, <1>3
<1>6. Now' = "return" => Encodable(in')[ValuePlace(calls')]
  BY <1>1, <1>2
<1>7. (Now = "loop" => AtEdge(in, calls[Len(calls)]))'
  BY <1>1, <1>2 DEF AtEdge
<1>8. Writing(start)'
  BY <1>4, <1>5, <1>6, <1>7 DEF Writing
<1> QED BY <1>2, <1>8 DEF TextInv

\* A step that leads on with nothing to write.
LEMMA SilentStep ==
  ASSUME WriterOK, UNCHANGED <<buf, cap, len, in>>, NEW start, Starts(in, start, calls'),
         pc' \in {"value", "loop"}, Text = SoFar(in, start, calls', pc'),
         pc' = "loop" => AtEdge(in, calls'[Len(calls')])
  PROVE  TextInv'
<1>1. Text' = Text /\ in' = in
  BY RefusedStep
<1>2. Now' = pc' /\ Rest' = << >>
  BY DEF Now, Rest
<1>3. Text' \in Texts
  BY <1>1, TextType DEF Texts
<1>4. Text' \o Rest' = SoFar(in', start, calls', Now')
  <2>1. Text' \o Rest' = Text'
    BY <1>2, <1>3, TextsJoin
  <2> QED BY <1>1, <1>2, <2>1
<1>5. Starts(in', start, calls') /\ Now' # "return"
  BY <1>1, <1>2
<1>6. (Now = "loop" => AtEdge(in, calls[Len(calls)]))'
  BY <1>1, <1>2 DEF AtEdge
<1>7. Writing(start)'
  BY <1>4, <1>5, <1>6 DEF Writing
<1> QED BY <1>7 DEF TextInv

-----------------------------------------------------------------------------
(* The steps, and the text.                                                *)

\* The encoder stops where it meets something described as null.
LEMMA NullText == ASSUME IInv, TextInv, EncodeNull PROVE TextInv'
<1>1. /\ pc = "value" /\ Now = "value" /\ Desc[Pending.desc].type = "NULL" /\ in \in Inputs
      /\ StackIn(in, calls, "value") /\ pc' = "done" /\ result' = "NOT_SUPPORT"
      /\ in' = in /\ UNCHANGED <<buf, cap, len>>
  BY DEF EncodeNull, PendingType, Stop, writer, IInv, EncoderOK, Now
<1>2. PICK start : Writing(start)
  BY <1>1 DEF TextInv
<1>3. Begins(Text, Output)
  BY <1>1, <1>2, WritingBegins
<1>4. ~Encodable(in)[RootPlace]
  <2> DEFINE p == ValuePlace(calls)
  <2>1. p \in PlacesOf(in) /\ (Encodable(in)[RootPlace] => Encodable(in)[p])
    BY <1>1, <1>2, ValueFacts DEF ValueSound, Writing
  <2>2. p = <<Pending.desc, Pending.in>>
    BY <1>1, PendingIs
  <2> HIDE DEF p
  <2>3. ~NothingNull(in, Encodable(in), Pending.desc, Pending.in)
    BY <1>1 DEF NothingNull
  <2> QED BY <1>1, <2>1, <2>2, <2>3, EncodableRule
<1>5. Text' = Text /\ Output' = Output
  BY <1>1, RefusedStep DEF IInv, Output
<1> QED BY <1>1, <1>3, <1>4, <1>5 DEF TextInv, Ended

\* All the writes of a scalar are its text.
LEMMA ScalarText == ASSUME IInv, TextInv, EncodeScalar PROVE TextInv'
<1> DEFINE d == Pending.desc
           o == Pending.in
           writes == ScalarWrites(PendingType, in[o + Desc[d].value_offset].val)
           J == JsonText(in)
<1>1. /\ pc = "value" /\ Now = "value" /\ in \in Inputs /\ StackIn(in, calls, "value")
      /\ PendingType = Desc[d].type /\ Desc[d].type \in {"BOOL", "INT", "INT64", "DOUBLE", "CSTR"}
      /\ Do(writes, "return") /\ calls' = calls /\ UNCHANGED <<buf, cap, len, in>>
  BY DEF EncodeScalar, PendingType, writer, IInv, EncoderOK, Now
<1>2. PICK start : Writing(start)
  BY <1>1 DEF TextInv
<1> DEFINE t == ValueStart(in, start, calls)
<1>3. <<d, o>> = ValuePlace(calls) /\ <<d, o>> \in PlacesOf(in)
  BY <1>1, PendingIs, PendingPlace
<1> HIDE DEF d, o
<1>4. J[<<d, o>>] = TextOf(in, J, d, o)
  BY <1>1, <1>3, TextRule
<1>5. J[<<d, o>>] = Joined(writes)[Len(writes)]
  <2>1. Desc[d].type \notin {"OBJECT", "ARRAY", "NULL"}
    BY <1>1
  <2> HIDE DEF J
  <2> QED BY <1>1, <1>4, <2>1, Zenon DEF TextOf
<1>6. Encodable(in)[<<d, o>>]
  <2>1. NothingNull(in, Encodable(in), d, o)
    BY <1>1 DEF NothingNull, HasParts
  <2> QED BY <1>1, <1>3, <2>1, EncodableRule
<1>7. Text = t
  <2>1. Text \o Rest = SoFar(in, start, calls, Now) /\ Rest = << >> /\ Text \in Texts
    BY <1>1, <1>2, WritingBegins DEF Writing, Rest
  <2>2. SoFar(in, start, calls, Now) = t
    BY <1>1 DEF SoFar
  <2> HIDE DEF t
  <2> QED BY <2>1, <2>2, TextsJoin
<1>8. SoFar(in, start, calls, "return") = t \o J[<<d, o>>]
  BY <1>3 DEF SoFar
<1> HIDE DEF t, J, writes
<1>9. Text \o Joined(writes)[Len(writes)] = SoFar(in, start, calls', "return")
  BY <1>1, <1>5, <1>7, <1>8
<1>10. Starts(in, start, calls') /\ Encodable(in)[ValuePlace(calls')] /\ WriterOK
  BY <1>1, <1>2, <1>3, <1>6 DEF Writing, IInv
<1> QED BY <1>1, <1>9, <1>10, WritesStep

\* Once every write that is left is done: the text is that of the value so far.
LEMMA TextSoFar ==
  ASSUME IInv, pc \in {"value", "loop", "return"}, NEW start, Writing(start)
  PROVE  Text = SoFar(in, start, calls, pc) /\ Text \in Texts
<1>1. Text \o Rest = SoFar(in, start, calls, Now) /\ Rest = << >> /\ Text \in Texts /\ Now = pc
  BY WritingBegins DEF Writing, Rest, Now
<1> QED BY <1>1, TextsJoin

\* A call that is entered starts where the text has come to.
LEMMA CallText ==
  ASSUME IInv, TextInv, pc = "value", NEW kind \in {"object", "array"},
         PendingType = IF kind = "object" THEN "OBJECT" ELSE "ARRAY",
         UNCHANGED <<buf, cap, len, in>>, calls' = Append(calls, NewCall(kind)),
         Do(<<Bracket(NewCall(kind))>>, "loop")
  PROVE  TextInv'
<1> DEFINE f == NewCall(kind)
           b == Bracket(f)
           r == JsonText(in)[RootPlace]
           u == JsonText(in)[PlaceOf(f)]
           n == Len(calls)
<1>1. /\ Now = "value" /\ in \in Inputs /\ StackIn(in, calls, "value") /\ calls \in Seq(Calls)
      /\ WriterOK
  BY DEF IInv, EncoderOK, StackIn, Now
<1>2. PICK start : Writing(start)
  BY DEF TextInv
<1> DEFINE t == ValueStart(in, start, calls)
           begun == Append(start, t)
<1>3. Text = t /\ Starts(in, start, calls)
  BY <1>1, <1>2, TextSoFar DEF SoFar, Writing
<1>4. /\ f \in Calls /\ CallIn(in, f) /\ PlaceOf(f) = ValuePlace(calls)
      /\ f.i = 1 /\ f.count = 0
  <2>1. f \in Calls /\ FrameOK(in, f) /\ RangeIn(in, f)
    BY <1>1, NewCallFacts
  <2>2. f.desc = Pending.desc /\ f.in = Pending.in /\ f.i = 1 /\ f.count = 0
    BY DEF NewCall
  <2> QED BY <1>1, <2>1, <2>2, PendingIs DEF CallIn, PlaceOf
<1>5. ValueSound(in, t, PlaceOf(f))
  BY <1>1, <1>3, <1>4, ValueFacts
<1> HIDE DEF f, t
<1>6. FrameSound(in, t, f)
  <2>1. 1 .. f.i - 1 = {}
    BY <1>4
  <2>2. \A j \in 1 .. f.i - 1 : FALSE
    BY <2>1
  <2> QED BY <1>4, <1>5, <2>2 DEF FrameSound, ValueSound
<1>7. Starts(in, begun, calls')
  <2>1. Starts(in, Append(start, ValueStart(in, start, calls)), Append(calls, f))
    BY <1>1, <1>3, <1>4, <1>6, StartsPushed DEF t
  <2> QED BY <2>1 DEF t, f
<1>8. calls' \in Seq(Calls) /\ Len(calls') = n + 1 /\ calls'[n + 1] = f /\ n \in Nat
  BY <1>1, <1>4 DEF f
<1>9. begun[n + 1] = t
  <2>1. start \in Seq(Texts) /\ Len(start) = n
    BY <1>3 DEF Starts
  <2> QED BY <1>8, <2>1
<1>10. Opened(in, f) = b
  <2>1. Joined(Parts(in, f))[f.i - 1] = << >>
    <3>1. f.i - 1 = 0 /\ Parts(in, f) \in Seq(Texts)
      BY <1>1, <1>4, PartsFacts
    <3> QED BY <3>1, JoinedRule DEF Texts
  <2>2. b \in Texts
    BY BracketTypes
  <2> HIDE DEF b
  <2>3. Opened(in, f) = b \o << >>
    BY <2>1 DEF Opened, b
  <2> QED BY <2>2, <2>3, TextsJoin
<1>11. SoFar(in, begun, calls', "loop") = t \o b
  <2> HIDE DEF begun
  <2> QED BY <1>8, <1>9, <1>10 DEF SoFar
<1>12. Joined(<<b>>)[1] = b /\ Len(<<b>>) = 1
  BY BracketTypes, JoinedOne
<1>13. Do(<<b>>, "loop")
  BY DEF f
<1> HIDE DEF b, begun
<1> DEFINE writes == <<b>>
<1>14. Joined(writes)[Len(writes)] = b /\ Do(writes, "loop")
  BY <1>12, <1>13
<1> HIDE DEF writes
<1>15. Text \o Joined(writes)[Len(writes)] = SoFar(in, begun, calls', "loop")
  BY <1>3, <1>11, <1>14
<1>16. AtEdge(in, calls'[Len(calls')])
  BY <1>4, <1>8 DEF AtEdge
<1> QED BY <1>1, <1>7, <1>14, <1>15, <1>16, WritesStep

LEMMA ObjectText == ASSUME IInv, TextInv, EncodeObject PROVE TextInv'
<1>1. /\ pc = "value" /\ PendingType = "OBJECT" /\ UNCHANGED <<buf, cap, len, in>>
      /\ calls' = Append(calls, NewCall("object")) /\ Do(<<<<"{">>>>, "loop")
  BY DEF EncodeObject, writer
<1>2. Bracket(NewCall("object")) = <<"{">>
  BY DEF Bracket, NewCall
<1> QED BY <1>1, <1>2, CallText, Zenon

LEMMA ArrayText == ASSUME IInv, TextInv, EncodeArray PROVE TextInv'
<1>1. /\ pc = "value" /\ PendingType = "ARRAY" /\ UNCHANGED <<buf, cap, len, in>>
      /\ calls' = Append(calls, NewCall("array")) /\ Do(<<<<"[">>>>, "loop")
  BY DEF EncodeArray, writer
<1>2. Bracket(NewCall("array")) = <<"[">> /\ "array" # "object"
  BY DEF Bracket, NewCall
<1> QED BY <1>1, <1>2, CallText, Zenon

\* A write moves from what is left to the text; the first that does not fit
\* shows that the whole does not.
LEMMA WriteText == ASSUME IInv, TextInv, WriteNext PROVE TextInv'
<1> DEFINE w == Head(todo)
           s == Tail(todo)
           rest == Joined(s)[Len(s)]
<1>1. /\ pc = "write" /\ in' = in /\ WriterOK /\ todo \in Seq(Texts) /\ todo # << >>
      /\ after \in {"value", "loop", "return"} /\ Now = after
      /\ \/ /\ Taken(w) /\ todo' = s /\ UNCHANGED <<after, calls, result>>
            /\ pc' = IF s = << >> THEN after ELSE "write"
         \/ Refused(w) /\ pc' = "done" /\ result' = "INSUFFICIENT_SPACE"
  BY DEF WriteNext, Stop, IInv, EncoderOK, Texts, Now
<1>2. PICK start : Writing(start)
  BY <1>1 DEF TextInv
<1>3. /\ w \in Texts /\ s \in Seq(Texts) /\ Rest = w \o rest
  <2>1. /\ w \in Seq(STRING) /\ s \in Seq(Seq(STRING))
        /\ Joined(todo)[Len(todo)] = w \o rest
    <3>1. todo \in Seq(Seq(STRING)) /\ todo # << >>
      BY <1>1 DEF Texts
    <3> QED BY <3>1, JoinedHead
  <2> QED BY <1>1, <2>1 DEF Rest, Texts
<1>4. rest \in Texts
  <2>1. Len(s) \in 0 .. Len(s)
    BY <1>3
  <2> QED BY <1>3, <2>1, JoinedType
<1>5. Text \in Texts /\ Output \in Texts /\ Begins(Text \o Rest, Output) /\ Begins(Text, Output)
  BY <1>1, <1>2, WritingBegins
<1>6. s = << >> => rest = << >>
  BY JoinedNone
<1> HIDE DEF w, s, rest
<1>7. Text \o Rest = (Text \o w) \o rest
  BY <1>3, <1>4, <1>5, TextsAssociative, Zenon
<1>8. CASE /\ Taken(w) /\ todo' = s /\ UNCHANGED <<after, calls, result>>
           /\ pc' = IF s = << >> THEN after ELSE "write"
  <2>1. Text' = Text \o w
    BY <1>1, <1>3, <1>8, TakenStep DEF Texts
  <2>2. Now' = Now /\ pc' # "done"
    BY <1>1, <1>8 DEF Now
  <2>3. Rest' = rest
    <3>1. CASE s = << >>
      BY <1>1, <1>6, <1>8, <3>1 DEF Rest
    <3>2. CASE s # << >>
      BY <1>8, <3>2 DEF Rest, rest
    <3> QED BY <3>1, <3>2
  <2>4. Text' \o Rest' = SoFar(in', start, calls', Now')
    BY <1>1, <1>2, <1>7, <1>8, <2>1, <2>2, <2>3 DEF Writing
  <2>5. Writing(start)'
    BY <1>1, <1>2, <1>8, <2>2, <2>4 DEF Writing
  <2> QED BY <2>2, <2>5 DEF TextInv
<1>9. CASE Refused(w) /\ pc' = "done" /\ result' = "INSUFFICIENT_SPACE"
  <2>1. Text' = Text /\ Output' = Output /\ cap' = cap
    BY <1>1, <1>9, RefusedStep DEF Output, Refused
  <2>2. Len(Output) > cap
    <3> DEFINE z == (Text \o w) \o rest
    <3>1. z \in Texts /\ Len(z) = Len(Text) + Len(w) + Len(rest) /\ Len(rest) \in Nat
          /\ Len(w) \in Nat
      BY <1>3, <1>4, <1>5 DEF Texts
    <3>2. Len(z) <= Len(Output)
      <4>1. Begins(z, Output)
        BY <1>5, <1>7
      <4> HIDE DEF z
      <4> QED BY <1>5, <3>1, <4>1, BeginsIsPrefix
    <3>3. Len(Text) = len /\ len \in Nat /\ len <= cap /\ cap < WordSize /\ WordSize \in Nat
          /\ cap \in Nat
      BY <1>1, TextType, CapacityAssumption DEF WriterOK, BufferKept
    <3>4. Room = cap - len /\ Room < Len(w)
      BY <1>9, <3>3 DEF Refused, Room
    <3>5. Len(Output) \in Nat
      BY <1>5 DEF Texts
    <3> HIDE DEF z
    <3> QED BY <3>1, <3>2, <3>3, <3>4, <3>5
  <2> QED BY <1>5, <1>9, <2>1, <2>2 DEF TextInv, Ended
<1> QED BY <1>1, <1>8, <1>9

\* The loop of an object skips the members that do not exist, and no other.
LEMMA MembersSkipped ==
  ASSUME in \in Inputs, NEW f, CallIn(in, f), f.kind = "object"
  PROVE  /\ NextAttr(f) = 0 =>
              \A k \in f.i .. PartCount(in, f.desc, f.in) : ~Present(in, f.desc, f.in, k)
         /\ NextAttr(f) # 0 =>
              /\ NextAttr(f) \in f.i .. PartCount(in, f.desc, f.in)
              /\ Present(in, f.desc, f.in, NextAttr(f))
              /\ \A k \in f.i .. NextAttr(f) - 1 : ~Present(in, f.desc, f.in, k)
<1> DEFINE n == Len(AttrsOf(f))
           present == {k \in f.i .. n : Exists(f, k)}
           a == NextAttr(f)
<1>1. f \in Calls /\ FrameOK(in, f) /\ Desc[f.desc].type = "OBJECT" /\ f.i \in Nat
  BY DEF CallIn, FrameOK, Calls
<1>2. PartCount(in, f.desc, f.in) = n /\ n \in Nat /\ f.i >= 1
  <2>1. PartCount(in, f.desc, f.in) = n
    BY <1>1 DEF PartCount, AttrsOf
  <2> QED BY <2>1, CallFacts
<1>3. \A k : Present(in, f.desc, f.in, k) <=> Exists(f, k)
  BY <1>1 DEF Present, FlagAt, Exists, Base, AttrsOf
<1>4. a = IF present = {} THEN 0 ELSE CHOOSE i \in present : \A j \in present : i <= j
  BY DEF NextAttr
<1> HIDE DEF a, n
<1>5. present \subseteq Nat
  BY <1>1
<1>6. CASE present = {}
  <2>1. a = 0 /\ \A k \in f.i .. n : ~Exists(f, k)
    BY <1>4, <1>6
  <2> QED BY <1>2, <1>3, <2>1 DEF a
<1>7. CASE present # {}
  <2>1. a \in present /\ \A j \in present : a <= j
    <3> HIDE DEF present
    <3>1. \E i \in present : \A j \in present : i <= j
      BY <1>5, <1>7, LeastElement
    <3> QED BY <1>4, <1>7, <3>1
  <2>2. a \in f.i .. n /\ Exists(f, a) /\ a # 0
    BY <1>1, <1>2, <2>1
  <2>3. ASSUME NEW k \in f.i .. a - 1 PROVE ~Exists(f, k)
    <3>1. k \in f.i .. n /\ ~(a <= k)
      BY <1>1, <1>2, <2>2
    <3> QED BY <2>1, <3>1
  <2> QED BY <1>2, <1>3, <2>2, <2>3 DEF a
<1> QED BY <1>6, <1>7

\* In front of an element: a comma unless it is the first.
LEMMA ElementFront ==
  ASSUME NEW m \in Inputs, NEW f, CallIn(m, f), f.kind = "array"
  PROVE  /\ Opened(m, f) \in Texts
         /\ f.i > 1 => Led(m, f) = Opened(m, f) \o <<",">> /\ <<",">> \in Texts
         /\ f.i = 1 => Led(m, f) = Opened(m, f)
<1> DEFINE c == Comma(m, f.desc, f.in, f.i)
           x == Opened(m, f)
           later == f.i > 1
<1>1. /\ Desc[f.desc].type = "ARRAY" /\ f.i \in Nat
      /\ \A k : Present(m, f.desc, f.in, k)
  BY DEF CallIn, FrameOK, Calls, Present
<1>2. later <=> \E k \in 1 .. f.i - 1 : Present(m, f.desc, f.in, k)
  <2>1. CASE f.i > 1
    <3>1. 1 \in 1 .. f.i - 1
      BY <1>1, <2>1
    <3> QED BY <1>1, <2>1, <3>1
  <2>2. CASE ~(f.i > 1)
    <3>1. \A k \in 1 .. f.i - 1 : FALSE
      BY <1>1, <2>2
    <3> QED BY <2>2, <3>1
  <2> QED BY <2>1, <2>2
<1>3. f.i = 1 => ~later
  OBVIOUS
<1> HIDE DEF later
<1>4. c = IF later THEN <<",">> ELSE << >>
  BY <1>2, Zenon DEF Comma
<1>5. x \in Texts /\ c \in Texts
  BY CallFacts, OpenedBegins, FrontTexts
<1>6. Led(m, f) = x \o c
  <2>1. Label(f.desc, f.i) = << >>
    BY <1>1 DEF Label
  <2>2. c \o Label(f.desc, f.i) = c
    <3> HIDE DEF c
    <3> QED BY <1>5, <2>1, TextsJoin
  <2> QED BY <2>2 DEF Led
<1> HIDE DEF c, x
<1>7. later => Led(m, f) = x \o <<",">> /\ <<",">> \in Texts
  BY <1>4, <1>5, <1>6
<1>8. ~later => Led(m, f) = x
  BY <1>4, <1>5, <1>6, TextsJoin
<1> QED BY <1>3, <1>5, <1>7, <1>8 DEF later, x

\* Behind a part the loop is still in its range.
LEMMA PartLeavesRange ==
  ASSUME NEW m \in Inputs, NEW f, PartIn(m, f), CallIn(m, f),
         NEW g, SameCall(f, g), g.i = f.i + 1
  PROVE  RangeIn(m, g)
<1>1. f.i \in Nat /\ f.kind \in {"object", "array"}
  BY DEF CallIn, Calls
<1>2. CASE f.kind = "object"
  <2>1. f.i \in 1 .. Len(AttrsOf(f)) /\ AttrsOf(g) = AttrsOf(f)
    BY <1>2 DEF PartIn, SameCall, AttrsOf
  <2> QED BY <1>1, <1>2, <2>1 DEF RangeIn, SameCall
<1>3. CASE f.kind = "array"
  <2> DEFINE count == m[f.in + Desc[f.desc].count_offset].val
  <2>1. f.i \in 1 .. count
    BY <1>3 DEF PartIn
  <2>2. count \in Nat
    <3>1. Desc[f.desc].type = "ARRAY" /\ PartCount(m, f.desc, f.in) \in Nat
      BY <1>3, CallFacts DEF CallIn, FrameOK
    <3> QED BY <3>1 DEF PartCount, CountAt
  <2>3. RangeIn(m, g) <=> g.i \in 1 .. 1 + count
    BY <1>3 DEF RangeIn, SameCall
  <2> HIDE DEF count
  <2> QED BY <1>1, <2>1, <2>2, <2>3
<1> QED BY <1>1, <1>2, <1>3

\* What a call knows of itself stands when its loop skips parts.
LEMMA LoopSkips ==
  ASSUME NEW m \in Inputs, NEW f, CallIn(m, f), NEW t, FrameSound(m, t, f),
         NEW g \in Calls, SameCall(f, g), g.count = f.count,
         g.i \in f.i .. PartCount(m, f.desc, f.in),
         \A k \in f.i .. g.i - 1 : ~Present(m, f.desc, f.in, k)
  PROVE  FrameSound(m, t, g)
<1> DEFINE P(k) == Present(m, f.desc, f.in, k)
           Q(k) == Present(m, g.desc, g.in, k)
           E(k) == Encodable(m)[PartAt(f.desc, f.in, k)]
           i == f.i
           j == g.i
<1>1. f \in Calls /\ g \in Calls /\ i \in Nat /\ j \in Nat /\ i <= j
  BY DEF CallIn, Calls
<1>2. /\ g.desc = f.desc /\ g.in = f.in /\ g.kind = f.kind /\ PlaceOf(g) = PlaceOf(f)
      /\ \A k : Q(k) <=> P(k)
  BY DEF SameCall, PlaceOf
<1>3. /\ \A k \in 1 .. i - 1 : P(k) => E(k)
      /\ f.kind = "object" => (f.count > 0 <=> \E k \in 1 .. i - 1 : P(k))
  BY DEF FrameSound
<1>4. \A k \in i .. j - 1 : ~P(k)
  OBVIOUS
<1>5. Encodable(m)[RootPlace] => Encodable(m)[PlaceOf(g)]
  BY <1>2 DEF FrameSound
<1>6. /\ \A k \in 1 .. j - 1 : Q(k) => Encodable(m)[PartAt(g.desc, g.in, k)]
      /\ g.kind = "object" => (g.count > 0 <=> \E k \in 1 .. j - 1 : Q(k))
  <2> HIDE DEF i, j, P, Q
  <2>1. \A k \in 1 .. j - 1 : P(k) => k \in 1 .. i - 1
    BY <1>1, <1>4
  <2>2. \A k \in 1 .. i - 1 : k \in 1 .. j - 1
    BY <1>1
  <2>3. ASSUME NEW k \in 1 .. j - 1, Q(k) PROVE Encodable(m)[PartAt(g.desc, g.in, k)]
    BY <1>2, <1>3, <2>1, <2>3
  <2>4. (\E k \in 1 .. j - 1 : Q(k)) <=> (\E k \in 1 .. i - 1 : P(k))
    BY <1>2, <2>1, <2>2
  <2> QED BY <1>2, <1>3, <2>3, <2>4
<1> QED BY <1>2, <1>5, <1>6 DEF FrameSound

\* What an encoder at a loop has come to.
LEMMA LoopSoFar ==
  ASSUME IInv, TextInv, pc = "loop"
  PROVE  LET n == Len(calls)
             f == calls[n]
         IN  /\ calls \in Seq(Calls) /\ calls # << >> /\ Last(calls) = f /\ CallIn(in, f)
             /\ n \in DOMAIN calls /\ in \in Inputs /\ WriterOK /\ AtEdge(in, f)
             /\ \E start : /\ Starts(in, start, calls) /\ Text = start[n] \o Opened(in, f)
                           /\ FrameSound(in, start[n], f)
<1> DEFINE n == Len(calls)
           f == calls[n]
<1>1. /\ calls \in Seq(Calls) /\ calls # << >> /\ StackIn(in, calls, "loop") /\ in \in Inputs
      /\ WriterOK
  BY DEF IInv, EncoderOK, StackIn, Now
<1>2. n \in DOMAIN calls /\ Last(calls) = f
  BY <1>1 DEF Last
<1> HIDE DEF n
<1>3. CallIn(in, f)
  BY <1>1, <1>2 DEF StackIn, CallIn
<1>4. PICK start : Writing(start)
  BY DEF TextInv
<1>5. Text = start[n] \o Opened(in, f) /\ Starts(in, start, calls)
  BY <1>4, TextSoFar DEF SoFar, Writing, n
<1>6. FrameSound(in, start[n], f)
  BY <1>2, <1>5 DEF Starts
<1>7. AtEdge(in, f)
  BY <1>4 DEF Writing, Now, n
<1> QED BY <1>1, <1>2, <1>3, <1>5, <1>6, <1>7 DEF n

\* The loop comes to the first element, and there is nothing in front of it.
LEMMA ArrayElementText == ASSUME IInv, TextInv, ArrayElement PROVE TextInv'
<1> DEFINE n == Len(calls)
           f == calls[n]
<1>1. pc = "loop"
  BY DEF ArrayElement
<1>2. /\ calls \in Seq(Calls) /\ calls # << >> /\ Last(calls) = f /\ CallIn(in, f)
      /\ n \in DOMAIN calls /\ in \in Inputs /\ WriterOK /\ AtEdge(in, f)
  BY <1>1, LoopSoFar
<1>3. PICK start : /\ Starts(in, start, calls) /\ Text = start[n] \o Opened(in, f)
                   /\ FrameSound(in, start[n], f)
  BY <1>1, LoopSoFar
<1>4. /\ f.kind = "array" /\ calls' = calls /\ UNCHANGED <<buf, cap, len, in>>
      /\ f.i <= ElemCount(f) /\ pc' = "value"
  BY <1>2 DEF ArrayElement, writer
<1>5. f.i = 1
  <2> HIDE DEF f
  <2>1. ElemCount(f) \in Nat /\ f.i \in Nat
    BY <1>2, <1>4, ArrayFacts DEF CallIn, Calls
  <2>2. ElemCount(f) = in[f.in + Desc[f.desc].count_offset].val
    BY DEF ElemCount
  <2>3. f.i = 1 \/ f.i > ElemCount(f)
    BY <1>2, <1>4, <2>2 DEF AtEdge
  <2> QED BY <1>4, <2>1, <2>3
<1>6. Led(in, f) = Opened(in, f)
  BY <1>2, <1>4, <1>5, ElementFront
<1>7. ValueStart(in, start, calls) = start[n] \o Led(in, f)
  BY <1>2 DEF ValueStart
<1>8. Text = ValueStart(in, start, calls)
  BY <1>3, <1>6, <1>7
<1>9. Text = SoFar(in, start, calls', pc')
  <2> HIDE DEF f, n
  <2> QED BY <1>4, <1>8, Zenon DEF SoFar
<1>10. Starts(in, start, calls')
  BY <1>3, <1>4
<1> QED BY <1>2, <1>4, <1>9, <1>10, SilentStep

\* In front of a member: the comma is there when a member is before it.
LEMMA MemberFront ==
  ASSUME NEW m, NEW g, g.kind = "object", CallIn(m, g), m \in Inputs, NEW t, FrameSound(m, t, g),
         g.i \in 1 .. PartCount(m, g.desc, g.in)
  PROVE  LET writes == (IF g.count > 0 THEN <<<<",">>>> ELSE << >>)
                         \o <<Quote, AttrsOf(g)[g.i].name, Quote, <<":">>>>
         IN  Joined(writes)[Len(writes)] = Comma(m, g.desc, g.in, g.i) \o Label(g.desc, g.i)
<1> DEFINE d == g.desc
           i == g.i
           comma == g.count > 0
           name == Desc[d].attr_descs[i].name
           writes == (IF comma THEN <<<<",">>>> ELSE << >>) \o <<Quote, name, Quote, <<":">>>>
<1>1. d \in Descs /\ Desc[d].type = "OBJECT" /\ i \in 1 .. PartCount(m, d, g.in)
  BY CallFacts
<1>2. name \in Texts
  <2>1. i \in DOMAIN Desc[d].attr_descs
    <3>1. Desc[d].attr_descs \in Seq(AttrOver(Descs))
      BY <1>1, EncoderAssumption DEF DescOver
    <3> QED BY <1>1, <3>1 DEF PartCount
  <2> QED BY <1>1, <2>1, NameWrites DEF Texts
<1>3. comma \in BOOLEAN
  OBVIOUS
<1>4. Label(d, i) = Quote \o name \o Quote \o <<":">>
  BY <1>1, Zenon DEF Label
<1>5. comma <=> \E j \in 1 .. i - 1 : Present(m, d, g.in, j)
  BY DEF FrameSound
<1>6. Comma(m, d, g.in, i) = IF comma THEN <<",">> ELSE << >>
  <2> HIDE DEF comma
  <2> QED BY <1>5, Zenon DEF Comma
<1>7. writes = (IF g.count > 0 THEN <<<<",">>>> ELSE << >>)
                  \o <<Quote, AttrsOf(g)[g.i].name, Quote, <<":">>>>
  BY DEF AttrsOf
<1>8. Joined(writes)[Len(writes)] =
        (IF comma THEN <<",">> ELSE << >>) \o (Quote \o name \o Quote \o <<":">>)
  <2> HIDE DEF comma, name
  <2> QED BY <1>2, <1>3, MemberText, Zenon
<1> HIDE DEF writes
<1>9. Joined(writes)[Len(writes)] = Comma(m, d, g.in, i) \o Label(d, i)
  BY <1>4, <1>6, <1>8, Zenon
<1> QED BY <1>7, <1>9, Zenon

\* Everything in front of a member is written before its value.
LEMMA ObjectMemberText == ASSUME IInv, TextInv, ObjectMember PROVE TextInv'
<1> DEFINE n == Len(calls)
           f == calls[n]
           i == NextAttr(f)
           g == [f EXCEPT !.i = i]
           front == Comma(in, g.desc, g.in, g.i) \o Label(g.desc, g.i)
           writes == (IF g.count > 0 THEN <<<<",">>>> ELSE << >>)
                       \o <<Quote, AttrsOf(g)[g.i].name, Quote, <<":">>>>
<1>1. pc = "loop"
  BY DEF ObjectMember
<1>2. /\ calls \in Seq(Calls) /\ calls # << >> /\ Last(calls) = f /\ CallIn(in, f)
      /\ n \in DOMAIN calls /\ in \in Inputs /\ WriterOK
  BY <1>1, LoopSoFar
<1>3. PICK start : /\ Starts(in, start, calls) /\ Text = start[n] \o Opened(in, f)
                   /\ FrameSound(in, start[n], f)
  BY <1>1, LoopSoFar
<1>4. /\ f.kind = "object" /\ i # 0 /\ calls' = [calls EXCEPT ![n].i = i]
      /\ Do((IF f.count > 0 THEN <<<<",">>>> ELSE << >>)
              \o <<Quote, AttrsOf(f)[i].name, Quote, <<":">>>>, "value")
      /\ UNCHANGED <<buf, cap, len, in>>
  BY <1>2 DEF ObjectMember, writer
<1>5. calls' = [calls EXCEPT ![n] = g]
  BY <1>2, <1>4
<1> HIDE DEF n, f
<1>6. /\ i \in f.i .. PartCount(in, f.desc, f.in) /\ Present(in, f.desc, f.in, i)
      /\ \A k \in f.i .. i - 1 : ~Present(in, f.desc, f.in, k)
  BY <1>2, <1>4, MembersSkipped
<1>7. f \in Calls /\ f.i \in Nat /\ f.i >= 1 /\ PartCount(in, f.desc, f.in) \in Nat
  <2>1. f \in Calls /\ f.i \in 1 .. 1 + PartCount(in, f.desc, f.in)
        /\ PartCount(in, f.desc, f.in) \in Nat
    BY <1>2, CallFacts DEF CallIn
  <2> QED BY <2>1
<1> HIDE DEF i
<1>8. /\ g \in Calls /\ SameCall(f, g) /\ g.i = i /\ g.count = f.count /\ g.kind = "object"
  <2>1. i \in Nat
    BY <1>6, <1>7
  <2> QED BY <1>4, <1>7, <2>1 DEF Calls, SameCall
<1> HIDE DEF g
<1>9. /\ g.desc = f.desc /\ g.in = f.in /\ AttrsOf(g) = AttrsOf(f)
  BY <1>8 DEF SameCall, AttrsOf
<1>10. Do(writes, "value")
  BY <1>4, <1>8, <1>9
<1>11. CallIn(in, g) /\ g.i \in 1 .. PartCount(in, g.desc, g.in)
  <2>1. g.i \in 1 .. PartCount(in, g.desc, g.in)
    BY <1>6, <1>7, <1>8, <1>9
  <2>2. PartCount(in, g.desc, g.in) = Len(AttrsOf(g))
    <3>1. Desc[g.desc].type = "OBJECT"
      BY <1>2, <1>4, <1>9 DEF CallIn, FrameOK
    <3> QED BY <3>1 DEF PartCount, AttrsOf
  <2>3. RangeIn(in, g)
    <3>1. g.i \in 1 .. 1 + PartCount(in, g.desc, g.in)
      BY <1>7, <1>9, <2>1
    <3> QED BY <1>8, <2>2, <3>1 DEF RangeIn
  <2>4. FrameOK(in, g)
    BY <1>2, <1>8 DEF CallIn, FrameOK, SameCall
  <2> QED BY <1>8, <2>1, <2>3, <2>4 DEF CallIn
<1>12. FrameSound(in, start[n], g)
  BY <1>2, <1>3, <1>6, <1>8, LoopSkips
<1>13. Starts(in, start, calls')
  BY <1>2, <1>3, <1>5, <1>8, <1>12, StartsReplaced DEF n, f
<1>14. Opened(in, g) = Opened(in, f)
  BY <1>2, <1>6, <1>8, OpenedSkips
<1>15. Joined(writes)[Len(writes)] = front
  BY <1>2, <1>8, <1>11, <1>12, MemberFront
<1> HIDE DEF writes
<1>16. SoFar(in, start, calls', "value") = start[n] \o (Opened(in, f) \o front)
  <2>1. calls' \in Seq(Calls) /\ Len(calls') = n /\ calls' # << >> /\ calls'[n] = g
    BY <1>2, <1>5, <1>8 DEF n
  <2>2. ValueStart(in, start, calls') = start[n] \o Led(in, g)
    BY <2>1 DEF ValueStart
  <2>3. SoFar(in, start, calls', "value") = ValueStart(in, start, calls')
    BY Zenon DEF SoFar
  <2> HIDE DEF front
  <2>4. Led(in, g) = Opened(in, f) \o front
    BY <1>14 DEF Led, front
  <2> QED BY <2>2, <2>3, <2>4
<1>17. Text \o front = start[n] \o (Opened(in, f) \o front)
  <2>1. start[n] \in Texts /\ Opened(in, f) \in Texts
    BY <1>2, <1>3, OpenedBegins DEF FrameSound
  <2>2. front \in Texts
    <3>1. Comma(in, g.desc, g.in, g.i) \in Texts /\ Label(g.desc, g.i) \in Texts
      BY <1>8, <1>11, FrontTexts DEF Calls
    <3> QED BY <3>1, TextsJoin
  <2> HIDE DEF front
  <2> QED BY <1>3, <2>1, <2>2, TextsAssociative, Zenon
<1> HIDE DEF front
<1>18. Text \o Joined(writes)[Len(writes)] = SoFar(in, start, calls', "value")
  BY <1>15, <1>16, <1>17
<1> QED BY <1>2, <1>4, <1>10, <1>13, <1>18, WritesStep

\* The closing bracket completes the text of the call's place.
LEMMA EndText ==
  ASSUME IInv, TextInv, pc = "loop", UNCHANGED <<buf, cap, len, in>>, calls' = Front(calls),
         Do(<<Ending(Last(calls))>>, "return"),
         \A k \in Last(calls).i .. PartCount(in, Last(calls).desc, Last(calls).in) :
           ~Present(in, Last(calls).desc, Last(calls).in, k)
  PROVE  TextInv'
<1> DEFINE n == Len(calls)
           f == calls[n]
           e == Ending(f)
           x == Opened(in, f)
           u == JsonText(in)[PlaceOf(f)]
           writes == <<e>>
<1>2. /\ calls \in Seq(Calls) /\ calls # << >> /\ Last(calls) = f /\ CallIn(in, f)
      /\ n \in DOMAIN calls /\ in \in Inputs /\ WriterOK
  BY LoopSoFar
<1>3. PICK start : /\ Starts(in, start, calls) /\ Text = start[n] \o Opened(in, f)
                   /\ FrameSound(in, start[n], f)
  BY LoopSoFar
<1> DEFINE t == start[n]
           begun == Front(start)
<1>4. /\ Starts(in, begun, calls') /\ ValuePlace(calls') = PlaceOf(f)
      /\ ValueStart(in, begun, calls') = t
  BY <1>2, <1>3, StartsPopped
<1>5. \A k \in f.i .. PartCount(in, f.desc, f.in) : ~Present(in, f.desc, f.in, k)
  BY <1>2
<1>6. Do(writes, "return")
  BY <1>2
<1> HIDE DEF n, f
<1>7. u = x \o e
  BY <1>2, <1>5, OpenedEnds
<1>8. Encodable(in)[PlaceOf(f)]
  <2> DEFINE d == f.desc
             o == f.in
  <2>1. /\ <<d, o>> \in PlacesOf(in) /\ HasParts(d) /\ f.i \in 1 .. 1 + PartCount(in, d, o)
        /\ PartCount(in, d, o) \in Nat
    BY <1>2, CallFacts DEF PlaceOf
  <2>2. Desc[d].type # "NULL"
    BY <2>1 DEF HasParts
  <2>3. ASSUME NEW k \in 1 .. PartCount(in, d, o), Present(in, d, o, k)
        PROVE  Encodable(in)[PartAt(d, o, k)]
    <3>1. k \in 1 .. f.i - 1
      <4>1. k \notin f.i .. PartCount(in, d, o)
        BY <1>5, <2>3
      <4> HIDE DEF d, o
      <4> QED BY <2>1, <4>1
    <3> QED BY <1>3, <2>3, <3>1 DEF FrameSound
  <2>4. NothingNull(in, Encodable(in), d, o)
    BY <2>2, <2>3 DEF NothingNull
  <2>5. PlaceOf(f) = <<d, o>>
    BY DEF PlaceOf
  <2> HIDE DEF d, o
  <2> QED BY <1>2, <2>1, <2>4, <2>5, EncodableRule
<1>9. t \in Texts /\ x \in Texts /\ e \in Texts
  BY <1>2, <1>3, OpenedBegins, BracketTypes DEF FrameSound
<1>10. Text = t \o x
  BY <1>3
<1>11. SoFar(in, begun, calls', "return") = t \o u
  <2> HIDE DEF t, u, begun
  <2>1. SoFar(in, begun, calls', "return") =
          ValueStart(in, begun, calls') \o JsonText(in)[ValuePlace(calls')]
    BY Zenon DEF SoFar
  <2> QED BY <1>4, <2>1 DEF u
<1> HIDE DEF t, x, u, e, begun
<1>12. Joined(writes)[Len(writes)] = e
  BY <1>9, JoinedOne
<1> HIDE DEF writes
<1>13. Text \o Joined(writes)[Len(writes)] = SoFar(in, begun, calls', "return")
  <2>1. (t \o x) \o e = t \o (x \o e)
    BY <1>9, TextsAssociative, Zenon
  <2> QED BY <1>7, <1>10, <1>11, <1>12, <2>1
<1> QED BY <1>2, <1>4, <1>6, <1>8, <1>13, WritesStep

LEMMA ObjectEndText == ASSUME IInv, TextInv, ObjectEnd PROVE TextInv'
<1> DEFINE f == Last(calls)
<1>1. /\ pc = "loop" /\ UNCHANGED <<buf, cap, len, in>> /\ calls' = Front(calls)
      /\ f.kind = "object" /\ NextAttr(f) = 0 /\ Do(<<<<"}">>>>, "return")
  BY DEF ObjectEnd, writer
<1>2. in \in Inputs /\ CallIn(in, f)
  BY <1>1, LoopSoFar
<1>3. Ending(f) = <<"}">>
  BY <1>1, Zenon DEF Ending
<1>4. \A k \in f.i .. PartCount(in, f.desc, f.in) : ~Present(in, f.desc, f.in, k)
  <2> HIDE DEF f
  <2> QED BY <1>1, <1>2, MembersSkipped
<1> QED BY <1>1, <1>3, <1>4, EndText, Zenon

LEMMA ArrayEndText == ASSUME IInv, TextInv, ArrayEnd PROVE TextInv'
<1> DEFINE f == Last(calls)
<1>1. /\ pc = "loop" /\ UNCHANGED <<buf, cap, len, in>> /\ calls' = Front(calls)
      /\ f.kind = "array" /\ f.i > ElemCount(f) /\ Do(<<<<"]">>>>, "return")
  BY DEF ArrayEnd, writer
<1>2. in \in Inputs /\ CallIn(in, f)
  BY <1>1, LoopSoFar
<1>3. Ending(f) = <<"]">>
  BY <1>1, Zenon DEF Ending
<1> HIDE DEF f
<1>4. \A k \in f.i .. PartCount(in, f.desc, f.in) : ~Present(in, f.desc, f.in, k)
  <2>1. PartCount(in, f.desc, f.in) = ElemCount(f) /\ ElemCount(f) \in Nat /\ f.i \in Nat
    <3>1. Desc[f.desc].type = "ARRAY" /\ PartCount(in, f.desc, f.in) \in Nat /\ f.i \in Nat
      BY <1>1, <1>2, CallFacts DEF CallIn, FrameOK, Calls
    <3>2. PartCount(in, f.desc, f.in) = ElemCount(f)
      BY <3>1 DEF PartCount, CountAt, ElemCount
    <3> QED BY <3>1, <3>2
  <2> QED BY <1>1, <2>1
<1> QED BY <1>1, <1>3, <1>4, EndText, Zenon DEF f

\* What a call knows of itself stands when its part has been encoded.
LEMMA LoopGoesOn ==
  ASSUME NEW m \in Inputs, NEW f, CallIn(m, f), PartIn(m, f), NEW t, FrameSound(m, t, f),
         Encodable(m)[PartOf(f)],
         NEW g \in Calls, SameCall(f, g), g.count = f.count + 1, g.i = f.i + 1
  PROVE  FrameSound(m, t, g)
<1>1. /\ f \in Calls /\ f.i \in Nat /\ f.count \in Nat /\ f.i >= 1
      /\ Present(m, f.desc, f.in, f.i)
  <2>1. f \in Calls /\ f.i \in Nat /\ f.count \in Nat
    BY DEF CallIn, Calls
  <2> QED BY <2>1, CallFacts
<1>2. g.desc = f.desc /\ g.in = f.in /\ g.kind = f.kind /\ PlaceOf(g) = PlaceOf(f)
  BY DEF SameCall, PlaceOf
<1>3. ASSUME NEW k \in 1 .. g.i - 1, Present(m, g.desc, g.in, k)
      PROVE  Encodable(m)[PartAt(g.desc, g.in, k)]
  <2>1. k = f.i \/ k \in 1 .. f.i - 1
    BY <1>1
  <2>2. CASE k = f.i
    BY <1>2, <2>2 DEF PartOf
  <2>3. CASE k \in 1 .. f.i - 1
    BY <1>2, <1>3, <2>3 DEF FrameSound
  <2> QED BY <2>1, <2>2, <2>3
<1>4. g.count > 0 /\ f.i \in 1 .. g.i - 1 /\ Present(m, g.desc, g.in, f.i)
  BY <1>1, <1>2
<1> QED BY <1>2, <1>3, <1>4 DEF FrameSound

\* A value is encoded: its caller goes on, or everything is written.
LEMMA ReturnText == ASSUME IInv, TextInv, Return PROVE TextInv'
<1>1. /\ pc = "return" /\ Now = "return" /\ in \in Inputs /\ StackIn(in, calls, "return")
      /\ WriterOK /\ calls \in Seq(Calls) /\ UNCHANGED <<buf, cap, len, in>>
  BY DEF Return, IInv, EncoderOK, StackIn, Now, writer
<1>2. PICK start : Writing(start)
  BY <1>1 DEF TextInv
<1>3. /\ Starts(in, start, calls) /\ Encodable(in)[ValuePlace(calls)]
      /\ Text = ValueStart(in, start, calls) \o JsonText(in)[ValuePlace(calls)]
  <2>1. Text = SoFar(in, start, calls, "return")
    BY <1>1, <1>2, TextSoFar
  <2>2. Text = ValueStart(in, start, calls) \o JsonText(in)[ValuePlace(calls)]
    BY <2>1, Zenon DEF SoFar
  <2> QED BY <1>1, <1>2, <2>2 DEF Writing
<1>4. CASE calls = << >> /\ Stop("NONE")
  <2>1. pc' = "done" /\ result' = "NONE"
    BY <1>4 DEF Stop
  <2> DEFINE r == JsonText(in)[RootPlace]
  <2>2. r \in Texts
    BY <1>1, RootFacts
  <2>3. Text = << >> \o r /\ Encodable(in)[RootPlace]
    BY <1>3, <1>4 DEF ValueStart, ValuePlace
  <2> HIDE DEF r
  <2>4. Text = r
    BY <2>2, <2>3, TextsJoin
  <2>5. Text' = Text /\ Output' = Output /\ Output = r
    BY <1>1, RefusedStep DEF Output, r, RootPlace
  <2>6. Begins(r, r)
    BY <2>2, BeginsItself
  <2> QED BY <1>1, <2>1, <2>3, <2>4, <2>5, <2>6 DEF TextInv, Ended
<1>5. CASE /\ calls # << >>
           /\ calls' = [calls EXCEPT ![Len(calls)].i = @ + 1,
                                     ![Len(calls)].count = @ + 1]
           /\ \/ MoreFollow(Last(calls)) /\ Do(<<<<",">>>>, "value")
              \/ ~MoreFollow(Last(calls)) /\ pc' = "loop"
  <2> DEFINE n == Len(calls)
             f == calls[n]
             g == [f EXCEPT !.i = f.i + 1, !.count = f.count + 1]
             t == start[n]
             u == JsonText(in)[PartOf(f)]
             l == Led(in, f)
  <2>1. n \in DOMAIN calls
    <3>1. calls # << >>
      BY <1>5
    <3> QED BY <1>1, <3>1
  <2>2. CallIn(in, f) /\ PartIn(in, f)
    BY <1>1, <2>1 DEF StackIn, CallIn
  <2>3. calls' = [calls EXCEPT ![n] = g]
    <3>1. f \in Calls
      BY <1>1, <2>1
    <3> QED BY <1>1, <1>5, <2>1, <3>1 DEF Calls
  <2>4. ValueStart(in, start, calls) = t \o l /\ ValuePlace(calls) = PartOf(f)
    BY <1>5 DEF ValueStart, ValuePlace
  <2>5. FrameSound(in, t, f)
    BY <1>3, <2>1 DEF Starts
  <2>6. /\ calls' \in Seq(Calls) => Len(calls') = n /\ calls' # << >> /\ calls'[n] = g
    BY <1>1, <2>1, <2>3
  <2> HIDE DEF n, f
  <2>7. /\ g \in Calls /\ SameCall(f, g) /\ g.i = f.i + 1 /\ g.count = f.count + 1
    <3>1. f \in Calls /\ f.i + 1 \in Nat /\ f.count + 1 \in Nat
      BY <2>2 DEF CallIn, Calls
    <3>2. \A i, k \in Nat :
            LET h == [f EXCEPT !.i = i, !.count = k]
            IN  h \in Calls /\ SameCall(f, h) /\ h.i = i /\ h.count = k
      BY <3>1 DEF Calls, SameCall
    <3> QED BY <3>1, <3>2
  <2> HIDE DEF g
  <2>8. calls' \in Seq(Calls)
    BY <1>1, <2>1, <2>3, <2>7
  <2>9. FrameSound(in, t, g)
    BY <1>1, <1>3, <2>2, <2>4, <2>5, <2>7, LoopGoesOn
  <2>10. Starts(in, start, calls')
    <3>1. FrameSound(in, start[Len(calls)], g) /\ SameCall(calls[Len(calls)], g)
      BY <2>7, <2>9 DEF n, f
    <3>2. Starts(in, start, [calls EXCEPT ![Len(calls)] = g])
      BY <1>1, <1>3, <1>5, <2>7, <3>1, StartsReplaced
    <3> QED BY <2>3, <3>2 DEF n
  <2>11. u \in Texts /\ l \in Texts /\ Opened(in, g) = l \o u
    BY <1>1, <2>2, <2>7, PartWritten
  <2>12. t \in Texts
    BY <2>5 DEF FrameSound
  <2>13. Text = (t \o l) \o u
    BY <1>3, <2>4
  <2>14. SoFar(in, start, calls', "loop") = t \o Opened(in, g)
    BY <2>6, <2>8, Zenon DEF SoFar
  <2>15. SoFar(in, start, calls', "value") = t \o Led(in, g)
    <3>1. ValueStart(in, start, calls') = t \o Led(in, g)
      BY <2>6, <2>8 DEF ValueStart
    <3> HIDE DEF t
    <3> QED BY <3>1, Zenon DEF SoFar
  <2> HIDE DEF t, l, u
  <2>16. (t \o l) \o u = t \o (l \o u)
    BY <2>11, <2>12, TextsAssociative, Zenon
  <2>17. Text = t \o Opened(in, g)
    BY <2>11, <2>13, <2>16
  <2>18. Last(calls) = f
    BY <1>5 DEF Last, f, n
  <2>19. CallIn(in, g)
    <3>1. FrameOK(in, g)
      BY <2>2, <2>7 DEF CallIn, FrameOK, SameCall
    <3>2. RangeIn(in, g)
      BY <1>1, <2>2, <2>7, PartLeavesRange
    <3> QED BY <2>7, <3>1, <3>2 DEF CallIn
  <2>20. CASE MoreFollow(f) /\ Do(<<<<",">>>>, "value")
    <3> DEFINE writes == <<<<",">>>>
    <3>1. g.kind = "array" /\ g.i > 1
      <4>1. f.i \in Nat /\ f.i >= 1
        BY <1>1, <2>2, CallFacts DEF CallIn, Calls
      <4>2. f.kind = "array"
        BY <2>20 DEF MoreFollow
      <4> QED BY <2>7, <4>1, <4>2 DEF SameCall
    <3>2. /\ Led(in, g) = Opened(in, g) \o <<",">> /\ <<",">> \in Texts
          /\ Opened(in, g) \in Texts
      BY <1>1, <2>19, <3>1, ElementFront
    <3>3. (t \o Opened(in, g)) \o <<",">> = t \o (Opened(in, g) \o <<",">>)
      BY <2>12, <3>2, TextsAssociative, Zenon
    <3>4. Joined(writes)[Len(writes)] = <<",">>
      BY <3>2, JoinedOne
    <3>5. Do(writes, "value")
      BY <2>20
    <3> HIDE DEF writes
    <3>6. Text \o Joined(writes)[Len(writes)] = SoFar(in, start, calls', "value")
      BY <2>15, <2>17, <3>2, <3>3, <3>4
    <3> QED BY <1>1, <2>10, <3>5, <3>6, WritesStep
  <2>21. CASE ~MoreFollow(f) /\ pc' = "loop"
    <3>1. AtEdge(in, g)
      <4>1. SUFFICES ASSUME f.kind = "array" PROVE g.i > ElemCount(f)
        BY <2>7 DEF AtEdge, SameCall, ElemCount
      <4>2. ElemCount(f) \in Nat /\ f.i \in Nat
        BY <1>1, <2>2, <4>1, ArrayFacts DEF CallIn, Calls
      <4>3. ~(f.i < ElemCount(f))
        BY <2>21, <4>1 DEF MoreFollow
      <4> QED BY <2>7, <4>2, <4>3
    <3>2. calls'[Len(calls')] = g
      BY <2>6, <2>8
    <3>3. Text = SoFar(in, start, calls', pc')
      BY <2>14, <2>17, <2>21
    <3> QED BY <1>1, <2>10, <2>21, <3>1, <3>2, <3>3, SilentStep
  <2> QED BY <1>5, <2>18, <2>20, <2>21
<1> QED BY <1>4, <1>5 DEF Return

LEMMA IdleText == ASSUME IInv, TextInv, UNCHANGED vars PROVE TextInv'
<1>1. UNCHANGED <<in, pc, after, todo, calls, result, buf, cap, len>>
  BY DEF vars, encoder, writer
<1>2. Text' = Text /\ Rest' = Rest /\ Now' = Now /\ Output' = Output
  BY <1>1, RefusedStep DEF IInv, Rest, Now, Output
<1>3. CASE pc = "done"
  BY <1>1, <1>2, <1>3 DEF TextInv, Ended
<1>4. CASE pc # "done"
  <2>1. PICK start : Writing(start)
    BY <1>4 DEF TextInv
  <2>2. Writing(start)'
    BY <1>1, <1>2, <2>1 DEF Writing
  <2> QED BY <1>1, <1>4, <2>2 DEF TextInv
<1> QED BY <1>3, <1>4

LEMMA InitText == Init => TextInv
<1> SUFFICES ASSUME Init PROVE TextInv
  OBVIOUS
<1>1. pc = "value" /\ calls = << >> /\ len = 0 /\ WriterOK
  BY InitInv DEF Init, WriterInit, IInv
<1>2. Text = << >>
  BY <1>1, TextType
<1>3. Starts(in, << >>, calls)
  BY <1>1 DEF Starts
<1>4. Text \o Rest = SoFar(in, << >>, calls, Now) /\ Now = "value"
  <2>1. Now = "value" /\ Rest = << >>
    BY <1>1 DEF Now, Rest
  <2>2. SoFar(in, << >>, calls, Now) = << >>
    BY <1>1, <2>1 DEF SoFar, ValueStart
  <2>3. << >> \o << >> = << >>
    BY TextsJoin
  <2> QED BY <1>2, <2>1, <2>2, <2>3
<1>5. Writing(<< >>)
  BY <1>3, <1>4 DEF Writing
<1> QED BY <1>1, <1>5 DEF TextInv

\* The text invariant is inductive.
LEMMA NextText == IInv /\ TextInv /\ [Next]_vars => TextInv'
<1> SUFFICES ASSUME IInv, TextInv, [Next]_vars PROVE TextInv'
  OBVIOUS
<1> QED BY NullText, ScalarText, ObjectText, ArrayText, WriteText, ObjectMemberText,
           ObjectEndText, ArrayElementText, ArrayEndText, ReturnText, IdleText
        DEF Next, Terminated

-----------------------------------------------------------------------------
(* The theorems.                                                           *)

\* Whatever happens between bo_json_encode and its writer, the inductive
\* invariant holds.
THEOREM Invariance == Spec => []IInv
BY InitInv, NextInv, PTL DEF Spec

\* encode_object and encode_array never run past the table of attributes or
\* past the elements the structure counts, and the writer's fields stay in the
\* range of a size_t.
THEOREM TypeCorrect == Spec => []TypeOK
BY Invariance, InvariantTypes, PTL

\* bo_json_simple_writer_write never writes outside of the caller's buffer,
\* and a write it refuses leaves no part of itself behind.
THEOREM BufferIsKept == Spec => []BufferKept
<1>1. IInv => BufferKept
  BY DEF IInv, WriterOK
<1> QED BY Invariance, <1>1, PTL

\* encode_value never looks at a place of the structure which its descriptor
\* does not describe, however the structure is nested: given that the structure
\* holds what its flags and counts promise, and nothing else.
THEOREM StaysInTheStructure == Spec => []ReadsTheStructure
<1>1. IInv => ReadsTheStructure
  <2> SUFFICES ASSUME IInv PROVE ReadsTheStructure
    OBVIOUS
  <2>1. \A k \in DOMAIN calls : <<calls[k].desc, calls[k].in>> \in PlacesOf(in)
    BY DEF IInv, EncoderOK, StackIn, FrameOK
  <2>2. pc = "value" => <<Pending.desc, Pending.in>> \in PlacesOf(in)
    BY PendingPlace DEF Now
  <2> QED BY <2>1, <2>2 DEF ReadsTheStructure
<1> QED BY Invariance, <1>1, PTL

\* bo_json_simple_writer_write takes all of the data or none of it, and between
\* the writes of the encoder nothing happens to the text: the simple writer
\* implements the contract of a writer.
THEOREM ImplementsWriter == Spec => WriterContract
<1>1. Init => Contract!Init
  <2> SUFFICES ASSUME Init PROVE Contract!Init
    OBVIOUS
  <2>1. WriterOK /\ len = 0
    BY InitInv DEF IInv, Init, WriterInit
  <2>2. Text = << >>
    BY <2>1, TextType
  <2> QED BY <2>2 DEF Contract!Init, Init, WriterInit
<1>2. IInv /\ [Next]_vars => [Contract!Next]_Contract!vars
  <2> SUFFICES ASSUME IInv, [Next]_vars PROVE [Contract!Next]_Contract!vars
    OBVIOUS
  <2>1. WriterOK /\ Text # NULL
    BY TextType, LostAssumption DEF IInv
  <2>2. CASE UNCHANGED writer
    <3>1. Text' = Text /\ reply' = reply
      BY <2>1, <2>2, RefusedStep DEF writer
    <3> QED BY <3>1 DEF Contract!vars
  <2>3. CASE WriteNext
    <3> DEFINE w == Head(todo)
    <3>1. w \in Seq(STRING) /\ w \in Writes
      BY <2>3 DEF IInv, EncoderOK, WriteNext
    <3>2. Taken(w) \/ Refused(w)
      BY <2>3 DEF WriteNext
    <3> HIDE DEF w
    <3>3. CASE Taken(w)
      <4>1. Text' = Text \o w /\ reply' = "NONE"
        BY <2>1, <3>1, <3>3, TakenStep DEF Taken
      <4> QED BY <2>1, <3>1, <4>1 DEF Contract!Next, Contract!Accept
    <3>4. CASE Refused(w)
      <4>1. Text' = Text /\ reply' = "INSUFFICIENT_SPACE"
        BY <2>1, <3>4, RefusedStep DEF Refused
      <4> QED BY <2>1, <4>1 DEF Contract!Next, Contract!Refuse
    <3> QED BY <3>2, <3>3, <3>4
  <2> QED BY <2>2, <2>3
       DEF Next, vars, EncodeNull, EncodeScalar, EncodeObject, EncodeArray,
           ObjectMember, ObjectEnd, ArrayElement, ArrayEnd, Return, Terminated
<1> QED BY Invariance, <1>1, <1>2, PTL DEF Spec, WriterContract, Contract!Spec

\* Whatever the descriptors, the structure and the buffer, the text invariant
\* holds.
THEOREM TextInvariance == Spec => [](IInv /\ TextInv)
<1>1. Init => IInv /\ TextInv
  BY InitInv, InitText
<1>2. IInv /\ TextInv /\ [Next]_vars => (IInv /\ TextInv)'
  BY NextInv, NextText
<1> QED BY <1>1, <1>2, PTL DEF Spec

\* Wherever bo_json_encode is or stops, the buffer holds the beginning of the
\* JSON text of the structure: of every structure that holds what its
\* descriptors say, however it is nested.
THEOREM TextCorrect == Spec => []TextIsOutput
<1>1. IInv /\ TextInv => TextIsOutput
  <2> SUFFICES ASSUME IInv, TextInv PROVE TextIsOutput
    OBVIOUS
  <2>1. Text \in Texts /\ Output \in Texts
    <3>1. in \in Inputs
      BY DEF IInv, EncoderOK
    <3> QED BY <3>1, TextType, RootFacts DEF IInv, Texts, Output, RootPlace
  <2>2. Begins(Text, Output)
    BY WritingBegins DEF TextInv, Ended
  <2> QED BY <2>1, <2>2, BeginsIsPrefix DEF TextIsOutput
<1> QED BY TextInvariance, <1>1, PTL

\* bo_json_encode succeeds exactly when nothing that exists is described as
\* null and the text fits the buffer to its last byte, and then the buffer
\* holds all of the text.
THEOREM VerdictCorrect == Spec => []VerdictIsRight
<1>1. IInv /\ TextInv => VerdictIsRight
  <2> SUFFICES ASSUME IInv, TextInv, pc = "done"
               PROVE  /\ result = "NONE" <=> Encodable(in)[RootPlace] /\ Len(Output) <= cap
                      /\ result = "NONE" => Text = Output
    BY DEF VerdictIsRight, RootPlace
  <2>1. Ended
    BY DEF TextInv
  <2>2. Output \in Texts /\ Len(Output) \in Nat
    <3>1. in \in Inputs
      BY DEF IInv, EncoderOK
    <3>2. Output \in Texts
      BY <3>1, RootFacts DEF Output, RootPlace
    <3> QED BY <3>2 DEF Texts
  <2>3. cap \in Nat /\ len <= cap /\ Len(Text) = len
    BY TextType, CapacityAssumption DEF IInv, WriterOK, BufferKept
  <2>4. result \in {"NONE", "INSUFFICIENT_SPACE", "NOT_SUPPORT"}
    BY DEF IInv, EncoderOK
  <2>5. CASE result = "NONE"
    BY <2>1, <2>3, <2>5 DEF Ended
  <2>6. CASE result = "INSUFFICIENT_SPACE"
    BY <2>1, <2>2, <2>3, <2>6 DEF Ended
  <2>7. CASE result = "NOT_SUPPORT"
    BY <2>1, <2>7 DEF Ended
  <2> QED BY <2>4, <2>5, <2>6, <2>7
<1> QED BY TextInvariance, <1>1, PTL
=============================================================================
