---------------------------- MODULE TokenProofs ----------------------------
(***************************************************************************)
(* The lexer finds the tokens of JSON, in texts of every length: what it   *)
(* returns is the longest token that stands there (TokensAreRight), and a  *)
(* fault has the reason that the error names (FaultsAreRight).             *)
(*                                                                         *)
(* The reference says of a whole sequence whether it is a token; the lexer *)
(* goes from byte to byte.  Both are compared by positions in the text:    *)
(* NumberAt and CharsGoOn are what the reference asks for, NumberCut and   *)
(* ScanCase what the loops find.  One half of every comparison shows that  *)
(* a token of the reference is found to its end (...Lexed), the other that *)
(* what is found is one and no longer one begins there (...Found).  For    *)
(* the faults it is shown what completes a token that is cut, and that a   *)
(* byte that is wrong stays wrong (TokenAtStands).                         *)
(***************************************************************************)
EXTENDS LexerProofs

-----------------------------------------------------------------------------
(* Sequences.                                                              *)

\* Sequences with the same elements are the same.
LEMMA SequencesAlike ==
  ASSUME NEW S, NEW T, NEW s \in Seq(S), NEW t \in Seq(T), Len(s) = Len(t),
         \A i \in 1 .. Len(s) : s[i] = t[i]
  PROVE  s = t
OBVIOUS

\* A sequence over a set is one over every larger set.
LEMMA WiderSeq ==
  ASSUME NEW S, NEW T, S \subseteq T, NEW s \in Seq(S)
  PROVE  s \in Seq(T)
OBVIOUS

\* A part of a text: its length and its bytes.
LEMMA SubSeqFacts ==
  ASSUME NEW m \in Seq(STRING), NEW p \in Nat \ {0}, NEW e \in Nat, e <= Len(m), p <= e + 1
  PROVE  /\ SubSeq(m, p, e) \in Seq(STRING) /\ Len(SubSeq(m, p, e)) = e - p + 1
         /\ \A i \in 1 .. e - p + 1 : SubSeq(m, p, e)[i] = m[p + i - 1]
OBVIOUS

\* The first byte of a part and the others.
LEMMA SubSeqTail ==
  ASSUME NEW s \in Seq(STRING), NEW a \in Nat \ {0}, NEW b \in Nat, b <= Len(s), a <= b
  PROVE  /\ SubSeq(s, a, b) # << >> /\ SubSeq(s, a, b)[1] = s[a]
         /\ Tail(SubSeq(s, a, b)) = SubSeq(s, a + 1, b)
<1>1. SubSeq(s, a, b) # << >> /\ SubSeq(s, a, b)[1] = s[a]
  OBVIOUS
<1>2. Tail(SubSeq(s, a, b)) = SubSeq(s, a + 1, b)
  OBVIOUS
<1> QED BY <1>1, <1>2

\* A text and what is put behind it.
LEMMA JoinedFacts ==
  ASSUME NEW S, NEW s \in Seq(S), NEW t \in Seq(S)
  PROVE  /\ s \o t \in Seq(S) /\ Len(s \o t) = Len(s) + Len(t)
         /\ \A i \in 1 .. Len(s) : (s \o t)[i] = s[i]
         /\ \A i \in 1 .. Len(t) : (s \o t)[Len(s) + i] = t[i]
OBVIOUS

-----------------------------------------------------------------------------
(* A number of the reference, by positions in the text it stands in.       *)

\* Digits from a to b, one at least.
DigitRun(m, a, b) == a <= b /\ \A i \in a .. b : m[i] \in Digit

\* A number from p to e: the digits in front of the point end at b, those
\* behind it at c.
Integral(m, a, b) == DigitRun(m, a, b) /\ (b > a => m[a] # "0")
Fractional(m, b, c) == c = b \/ (m[b + 1] = "." /\ DigitRun(m, b + 2, c))
Exponential(m, c, e) ==
  \/ e = c
  \/ /\ m[c + 1] \in {"e", "E"}
     /\ DigitRun(m, c + 2, e) \/ (m[c + 2] \in {"+", "-"} /\ DigitRun(m, c + 3, e))

\* A number from p to e whose parts begin at a and end at b, c and e.
NumberCut(m, p, a, b, c, e) ==
  /\ a = p \/ (a = p + 1 /\ m[p] = "-")
  /\ b <= c /\ c <= e
  /\ Integral(m, a, b) /\ Fractional(m, b, c) /\ Exponential(m, c, e)

NumberAt(m, p, e) == \E a, b, c \in Nat : NumberCut(m, p, a, b, c, e)

\* What the reference calls digits.
LEMMA ReferenceDigits ==
  ASSUME NEW s \in Seq(STRING)
  PROVE  Reference!AreDigits(s) <=> Len(s) > 0 /\ \A i \in 1 .. Len(s) : s[i] \in Digit
<1>1. s # << >> <=> Len(s) > 0
  OBVIOUS
<1>2. DOMAIN s = 1 .. Len(s)
  OBVIOUS
<1> QED BY <1>1, <1>2 DEF Reference!AreDigits, Reference!Digit, Digit

\* Digits of the reference, by their positions.
LEMMA ReferenceRun ==
  ASSUME NEW s \in Seq(STRING), NEW a \in Nat \ {0}, NEW b \in Nat, b <= Len(s), a <= b + 1
  PROVE  Reference!AreDigits(SubSeq(s, a, b)) <=> DigitRun(s, a, b)
<1> DEFINE t == SubSeq(s, a, b)
<1>1. /\ t \in Seq(STRING) /\ Len(t) = b - a + 1
      /\ \A i \in 1 .. b - a + 1 : t[i] = s[a + i - 1]
  BY SubSeqFacts
<1> HIDE DEF t
<1>2. Reference!AreDigits(t) <=> Len(t) > 0 /\ \A i \in 1 .. Len(t) : t[i] \in Digit
  BY <1>1, ReferenceDigits
<1>3. ASSUME a <= b, \A i \in 1 .. b - a + 1 : t[i] \in Digit, NEW j \in a .. b
      PROVE  s[j] \in Digit
  <2>1. j - a + 1 \in 1 .. b - a + 1 /\ a + (j - a + 1) - 1 = j
    OBVIOUS
  <2> QED BY <1>1, <1>3, <2>1
<1>4. ASSUME \A j \in a .. b : s[j] \in Digit, NEW i \in 1 .. b - a + 1
      PROVE  t[i] \in Digit
  BY <1>1, <1>4
<1>5. Len(t) > 0 <=> a <= b
  BY <1>1
<1>6. DigitRun(s, a, b) => Len(t) > 0 /\ \A i \in 1 .. Len(t) : t[i] \in Digit
  BY <1>1, <1>4, <1>5 DEF DigitRun
<1>7. Len(t) > 0 /\ (\A i \in 1 .. Len(t) : t[i] \in Digit) => DigitRun(s, a, b)
  BY <1>1, <1>3, <1>5 DEF DigitRun
<1>8. Reference!AreDigits(t) <=> DigitRun(s, a, b)
  BY <1>2, <1>6, <1>7
<1> QED BY <1>8 DEF t

\* The part of a number in front of the point.
LEMMA ReferenceInt ==
  ASSUME NEW s \in Seq(STRING), NEW a \in Nat \ {0}, NEW b \in Nat, b <= Len(s), a <= b
  PROVE  Reference!IsInt(SubSeq(s, a, b)) <=> Integral(s, a, b)
<1>1. Reference!AreDigits(SubSeq(s, a, b)) <=> DigitRun(s, a, b)
  BY ReferenceRun
<1>2. Len(SubSeq(s, a, b)) = b - a + 1 /\ SubSeq(s, a, b)[1] = s[a]
  OBVIOUS
<1> QED BY <1>1, <1>2 DEF Reference!IsInt, Integral

\* The fraction.
LEMMA ReferenceFrac ==
  ASSUME NEW s \in Seq(STRING), NEW b \in Nat, NEW c \in Nat, b <= c, c <= Len(s)
  PROVE  Reference!IsFrac(SubSeq(s, b + 1, c)) <=> Fractional(s, b, c)
<1>1. CASE b = c
  <2>1. SubSeq(s, b + 1, c) = << >>
    BY <1>1
  <2> QED BY <1>1, <2>1 DEF Reference!IsFrac, Fractional
<1>2. CASE b < c
  <2> DEFINE t == SubSeq(s, b + 1, c)
  <2>1. t # << >> /\ t[1] = s[b + 1] /\ Tail(t) = SubSeq(s, b + 2, c)
    <3> DEFINE k == b + 1
    <3>1. k \in Nat \ {0} /\ k <= c /\ k + 1 = b + 2
      BY <1>2
    <3> HIDE DEF k
    <3>2. /\ SubSeq(s, k, c) # << >> /\ SubSeq(s, k, c)[1] = s[k]
          /\ Tail(SubSeq(s, k, c)) = SubSeq(s, k + 1, c)
      BY <3>1, SubSeqTail
    <3> QED BY <3>1, <3>2 DEF k
  <2>2. Reference!AreDigits(SubSeq(s, b + 2, c)) <=> DigitRun(s, b + 2, c)
    BY <1>2, ReferenceRun
  <2> HIDE DEF t
  <2>3. Reference!IsFrac(t) <=> s[b + 1] = "." /\ DigitRun(s, b + 2, c)
    BY <2>1, <2>2 DEF Reference!IsFrac
  <2>4. Fractional(s, b, c) <=> s[b + 1] = "." /\ DigitRun(s, b + 2, c)
    BY <1>2 DEF Fractional
  <2> QED BY <2>3, <2>4 DEF t
<1> QED BY <1>1, <1>2

\* The exponent.
LEMMA ReferenceExp ==
  ASSUME NEW s \in Seq(STRING), NEW c \in Nat, c <= Len(s)
  PROVE  Reference!IsExp(SubSeq(s, c + 1, Len(s))) <=> Exponential(s, c, Len(s))
<1> DEFINE e == Len(s)
<1>0. e \in Nat
  OBVIOUS
<1>1. CASE c = e
  <2>1. SubSeq(s, c + 1, e) = << >>
    BY <1>1
  <2> QED BY <1>1, <2>1 DEF Reference!IsExp, Exponential
<1>2. CASE c + 1 = e
  <2>1. SubSeq(s, c + 1, e) # << >> /\ ~(Len(SubSeq(s, c + 1, e)) > 1)
    <3>1. c + 1 \in 1 .. e /\ e <= Len(s) /\ e - (c + 1) + 1 = 1
      BY <1>2
    <3> DEFINE k == c + 1
    <3> HIDE DEF k, e
    <3>2. Len(SubSeq(s, k, e)) = 1
      BY <1>0, <3>1, SubSeqFacts DEF k
    <3>3. SubSeq(s, k, e) # << >>
      BY <1>0, <3>1, SubSeqTail DEF k
    <3>4. ~(Len(SubSeq(s, k, e)) > 1)
      BY <3>2
    <3> QED BY <3>3, <3>4 DEF k
  <2>2. ~DigitRun(s, c + 2, e) /\ ~DigitRun(s, c + 3, e)
    BY <1>2 DEF DigitRun
  <2> QED BY <1>2, <2>1, <2>2 DEF Reference!IsExp, Exponential
<1>3. CASE c + 1 < e
  <2> DEFINE t == SubSeq(s, c + 1, e)
             u == SubSeq(s, c + 2, e)
             v == SubSeq(s, c + 3, e)
  <2>1. t # << >> /\ t[1] = s[c + 1] /\ Tail(t) = u /\ Tail(u) = v
    <3> DEFINE k == c + 1
               l == c + 2
    <3>1. /\ k \in Nat \ {0} /\ k <= e /\ k + 1 = l /\ e <= Len(s)
          /\ l \in Nat \ {0} /\ l <= e /\ l + 1 = c + 3
      BY <1>3
    <3> HIDE DEF k, l, e
    <3>2. /\ SubSeq(s, k, e) # << >> /\ SubSeq(s, k, e)[1] = s[k]
          /\ Tail(SubSeq(s, k, e)) = SubSeq(s, k + 1, e)
          /\ Tail(SubSeq(s, l, e)) = SubSeq(s, l + 1, e)
      BY <1>0, <3>1, SubSeqTail
    <3> QED BY <3>1, <3>2 DEF k, l
  <2>2. t[2] = s[c + 2] /\ Len(t) > 1
    BY <1>3
  <2>3. Reference!AreDigits(u) <=> DigitRun(s, c + 2, e)
    BY <1>3, ReferenceRun
  <2>4. Reference!AreDigits(v) <=> DigitRun(s, c + 3, e)
    BY <1>3, ReferenceRun
  <2> HIDE DEF t, u, v
  <2>5. Reference!IsExp(t)
          <=> /\ s[c + 1] \in {"e", "E"}
              /\ DigitRun(s, c + 2, e) \/ (s[c + 2] \in {"+", "-"} /\ DigitRun(s, c + 3, e))
    BY <2>1, <2>2, <2>3, <2>4, Zenon DEF Reference!IsExp
  <2>6. c # e
    BY <1>3
  <2> QED BY <2>5, <2>6 DEF Exponential, t
<1>4. c = e \/ c + 1 = e \/ c + 1 < e
  BY <1>0
<1> QED BY <1>1, <1>2, <1>3, <1>4

\* A number of the reference, by the positions at which its parts end.
LEMMA ReferenceNumber ==
  ASSUME NEW s \in Seq(STRING)
  PROVE  Reference!IsNumber(s) <=> NumberAt(s, 1, Len(s))
<1>0. Len(s) \in Nat
  OBVIOUS
<1>1. ASSUME NEW i \in 0 .. 1, NEW b \in 1 .. Len(s), NEW c \in 1 .. Len(s), i < b, b <= c
      PROVE  /\ SubSeq(s, 1, i) \in {<< >>, <<"-">>}
             /\ Reference!IsInt(SubSeq(s, i + 1, b)) /\ Reference!IsFrac(SubSeq(s, b + 1, c))
             /\ Reference!IsExp(SubSeq(s, c + 1, Len(s)))
             <=> NumberCut(s, 1, i + 1, b, c, Len(s))
  <2>1. SubSeq(s, 1, i) \in {<< >>, <<"-">>} <=> i = 0 \/ (i = 1 /\ s[1] = "-")
    <3>1. CASE i = 0
      BY <3>1
    <3>2. CASE i = 1
      <4>1. 1 <= Len(s) /\ 1 - 1 + 1 = 1
        BY <1>1
      <4> DEFINE t == SubSeq(s, 1, 1)
      <4>2. t \in Seq(STRING) /\ Len(t) = 1 /\ t[1] = s[1]
        BY <4>1
      <4>4. t # << >>
        BY <4>1, SubSeqTail
      <4> HIDE DEF t
      <4>3. t = <<"-">> <=> t[1] = "-"
        BY <4>2
      <4> QED BY <3>2, <4>2, <4>3, <4>4 DEF t
    <3> QED BY <3>1, <3>2
  <2>2. Reference!IsInt(SubSeq(s, i + 1, b)) <=> Integral(s, i + 1, b)
    BY <1>1, ReferenceInt
  <2>3. Reference!IsFrac(SubSeq(s, b + 1, c)) <=> Fractional(s, b, c)
    BY <1>1, ReferenceFrac
  <2>4. Reference!IsExp(SubSeq(s, c + 1, Len(s))) <=> Exponential(s, c, Len(s))
    BY <1>1, ReferenceExp
  <2>5. b <= c /\ c <= Len(s)
    BY <1>0, <1>1
  <2>6. (i = 0 \/ (i = 1 /\ s[1] = "-")) <=> (i + 1 = 1 \/ (i + 1 = 1 + 1 /\ s[1] = "-"))
    OBVIOUS
  <2> QED BY <2>1, <2>2, <2>3, <2>4, <2>5, <2>6, Zenon DEF NumberCut
<1>2. ASSUME Reference!IsNumber(s) PROVE NumberAt(s, 1, Len(s))
  <2>1. PICK i \in 0 .. 1, b \in 1 .. Len(s), c \in 1 .. Len(s) :
          /\ i < b /\ b <= c
          /\ SubSeq(s, 1, i) \in {<< >>, <<"-">>}
          /\ Reference!IsInt(SubSeq(s, i + 1, b)) /\ Reference!IsFrac(SubSeq(s, b + 1, c))
          /\ Reference!IsExp(SubSeq(s, c + 1, Len(s)))
    BY <1>2, Zenon DEF Reference!IsNumber
  <2>2. NumberCut(s, 1, i + 1, b, c, Len(s))
    BY <1>1, <2>1
  <2>3. i + 1 \in Nat /\ b \in Nat /\ c \in Nat
    OBVIOUS
  <2> QED BY <2>2, <2>3, Zenon DEF NumberAt
<1>3. ASSUME NumberAt(s, 1, Len(s)) PROVE Reference!IsNumber(s)
  <2>1. PICK a, b, c \in Nat : NumberCut(s, 1, a, b, c, Len(s))
    BY <1>3, Zenon DEF NumberAt
  <2> DEFINE i == a - 1
  <2>2. i \in 0 .. 1 /\ i + 1 = a /\ a <= b /\ b <= c /\ c <= Len(s)
    BY <2>1 DEF NumberCut, Integral, DigitRun
  <2>3. b \in 1 .. Len(s) /\ c \in 1 .. Len(s) /\ i < b
    BY <1>0, <2>2
  <2> HIDE DEF i
  <2>4. /\ SubSeq(s, 1, i) \in {<< >>, <<"-">>}
        /\ Reference!IsInt(SubSeq(s, i + 1, b)) /\ Reference!IsFrac(SubSeq(s, b + 1, c))
        /\ Reference!IsExp(SubSeq(s, c + 1, Len(s)))
    BY <1>1, <2>1, <2>2, <2>3
  <2> QED BY <2>2, <2>3, <2>4, Zenon DEF Reference!IsNumber
<1> QED BY <1>2, <1>3

\* The same bytes at other positions.
Shifted(m, s, lo, hi, d) == \A i \in lo .. hi : s[i] = m[i + d]

\* Digits are digits wherever they stand.
LEMMA ShiftedRun ==
  ASSUME NEW m, NEW s, NEW lo \in Nat, NEW hi \in Nat, NEW d \in Int, Shifted(m, s, lo, hi, d),
         NEW a \in Nat, NEW b \in Nat, lo <= a, b <= hi, DigitRun(s, a, b)
  PROVE  DigitRun(m, a + d, b + d)
<1>1. ASSUME NEW j \in a + d .. b + d PROVE m[j] \in Digit
  <2>1. j - d \in a .. b /\ j - d \in lo .. hi /\ (j - d) + d = j
    OBVIOUS
  <2>2. s[j - d] \in Digit /\ s[j - d] = m[(j - d) + d]
    BY <2>1 DEF DigitRun, Shifted
  <2> QED BY <2>1, <2>2
<1> QED BY <1>1 DEF DigitRun

\* And so are numbers.
LEMMA ShiftedNumber ==
  ASSUME NEW m, NEW s, NEW p \in Nat, NEW e \in Nat, NEW d \in Int, Shifted(m, s, p, e, d),
         p + d >= 0, NumberAt(s, p, e)
  PROVE  NumberAt(m, p + d, e + d)
<1>1. PICK a, b, c \in Nat : NumberCut(s, p, a, b, c, e)
  BY Zenon DEF NumberAt
<1>2. /\ a = p \/ (a = p + 1 /\ s[p] = "-")
      /\ a <= b /\ b <= c /\ c <= e
  BY <1>1 DEF NumberCut, Integral, DigitRun
<1>3. p <= a /\ p <= b /\ p <= c /\ p <= e
  BY <1>2
<1>4. a + d \in Nat /\ b + d \in Nat /\ c + d \in Nat
  BY <1>2, <1>3
<1>5. a + d = p + d \/ (a + d = (p + d) + 1 /\ m[p + d] = "-")
  BY <1>2, <1>3 DEF Shifted
<1> DEFINE Good(x, y) == DigitRun(s, x, y) => DigitRun(m, x + d, y + d)
<1>0. \A x, y \in Nat : p <= x /\ y <= e => Good(x, y)
  BY ShiftedRun
<1>6. Integral(m, a + d, b + d)
  <2>1. DigitRun(m, a + d, b + d)
    <3>1. DigitRun(s, a, b)
      BY <1>1 DEF NumberCut, Integral
    <3>2. b <= e
      BY <1>2
    <3>3. Good(a, b)
      BY <1>0, <1>3, <3>2
    <3> QED BY <3>1, <3>3
  <2>2. s[a] = m[a + d]
    BY <1>2, <1>3 DEF Shifted
  <2> QED BY <1>1, <2>1, <2>2 DEF NumberCut, Integral
<1>7. Fractional(m, b + d, c + d)
  <2>1. Fractional(s, b, c)
    BY <1>1 DEF NumberCut
  <2>2. CASE b = c
    BY <2>2 DEF Fractional
  <2>3. CASE s[b + 1] = "." /\ DigitRun(s, b + 2, c)
    <3>1. DigitRun(m, (b + 2) + d, c + d)
      <4>1. b + 2 \in Nat /\ p <= b + 2 /\ c <= e
        BY <1>2, <1>3
      <4>2. Good(b + 2, c)
        BY <1>0, <4>1
      <4> QED BY <2>3, <4>2
    <3>2. b + 2 <= c
      BY <2>3 DEF DigitRun
    <3>3. s[b + 1] = m[(b + 1) + d]
      BY <1>2, <1>3, <3>2 DEF Shifted
    <3>4. (b + 2) + d = (b + d) + 2 /\ (b + 1) + d = (b + d) + 1
      OBVIOUS
    <3> QED BY <2>3, <3>1, <3>3, <3>4 DEF Fractional
  <2> QED BY <2>1, <2>2, <2>3 DEF Fractional
<1>8. Exponential(m, c + d, e + d)
  <2>1. Exponential(s, c, e)
    BY <1>1 DEF NumberCut
  <2>2. CASE e = c
    BY <2>2 DEF Exponential
  <2>3. CASE s[c + 1] \in {"e", "E"} /\ DigitRun(s, c + 2, e)
    <3>1. DigitRun(m, (c + 2) + d, e + d)
      <4>1. c + 2 \in Nat /\ p <= c + 2 /\ e <= e
        BY <1>2, <1>3
      <4>2. Good(c + 2, e)
        BY <1>0, <4>1
      <4> QED BY <2>3, <4>2
    <3>2. c + 2 <= e
      BY <2>3 DEF DigitRun
    <3>3. s[c + 1] = m[(c + 1) + d]
      BY <1>2, <1>3, <3>2 DEF Shifted
    <3>4. (c + 2) + d = (c + d) + 2 /\ (c + 1) + d = (c + d) + 1
      OBVIOUS
    <3> QED BY <2>3, <3>1, <3>3, <3>4 DEF Exponential
  <2>4. CASE s[c + 1] \in {"e", "E"} /\ s[c + 2] \in {"+", "-"} /\ DigitRun(s, c + 3, e)
    <3>1. DigitRun(m, (c + 3) + d, e + d)
      <4>1. c + 3 \in Nat /\ p <= c + 3 /\ e <= e
        BY <1>2, <1>3
      <4>2. Good(c + 3, e)
        BY <1>0, <4>1
      <4> QED BY <2>4, <4>2
    <3>2. c + 3 <= e
      BY <2>4 DEF DigitRun
    <3>3. s[c + 1] = m[(c + 1) + d] /\ s[c + 2] = m[(c + 2) + d]
      BY <1>2, <1>3, <3>2 DEF Shifted
    <3>4. /\ (c + 2) + d = (c + d) + 2 /\ (c + 1) + d = (c + d) + 1
          /\ (c + 3) + d = (c + d) + 3
      OBVIOUS
    <3> QED BY <2>4, <3>1, <3>3, <3>4 DEF Exponential
  <2> QED BY <2>1, <2>2, <2>3, <2>4 DEF Exponential
<1>9. NumberCut(m, p + d, a + d, b + d, c + d, e + d)
  BY <1>2, <1>5, <1>6, <1>7, <1>8 DEF NumberCut
<1> QED BY <1>4, <1>9, Zenon DEF NumberAt

\* A number of the reference inside a text, by positions in that text.
LEMMA NumberInside ==
  ASSUME NEW m \in Seq(STRING), NEW p \in Nat \ {0}, NEW e \in Nat, e <= Len(m), p <= e
  PROVE  Reference!IsNumber(SubSeq(m, p, e)) <=> NumberAt(m, p, e)
<1> DEFINE s == SubSeq(m, p, e)
           l == e - p + 1
           d == p - 1
           k == 1 - p
<1>1. /\ s \in Seq(STRING) /\ Len(s) = l
      /\ \A i \in 1 .. l : s[i] = m[p + i - 1]
  BY SubSeqFacts
<1>2. l \in Nat /\ d \in Int /\ k \in Int /\ 1 + d = p /\ l + d = e /\ p + k = 1 /\ e + k = l
        /\ 1 + d >= 0 /\ p + k >= 0
  OBVIOUS
<1> HIDE DEF s
<1>3. Shifted(m, s, 1, l, d)
  BY <1>1 DEF Shifted
<1>4. Shifted(s, m, p, e, k)
  BY <1>1 DEF Shifted
<1> HIDE DEF d, l, k
<1>5. NumberAt(s, 1, l) => NumberAt(m, p, e)
  <2>1. NumberAt(s, 1, l) => NumberAt(m, 1 + d, l + d)
    BY <1>2, <1>3, ShiftedNumber
  <2> QED BY <1>2, <2>1
<1>6. NumberAt(m, p, e) => NumberAt(s, 1, l)
  <2>1. NumberAt(m, p, e) => NumberAt(s, p + k, e + k)
    BY <1>2, <1>4, ShiftedNumber
  <2> QED BY <1>2, <2>1
<1>7. Reference!IsNumber(s) <=> NumberAt(s, 1, l)
  BY <1>1, ReferenceNumber
<1> QED BY <1>5, <1>6, <1>7 DEF s

-----------------------------------------------------------------------------
(* next_number takes the numbers of the reference, and nothing else.       *)

\* The input ends at b, or goes on with no byte of the set.
EndsAt(m, n, b, set) == b = n \/ m[b + 1] \notin set

\* Signs, the point and the exponent letter are no digits.
LEMMA NoDigits == "0" \in Digit /\ \A c \in {"-", "+", ".", "e", "E"} : c \notin Digit
BY DEF Digit

\* The loop over digits takes all of them.
LEMMA RunReached ==
  ASSUME NEW m, NEW n \in Nat, NEW a \in Nat \ {0}, NEW b \in Nat, b <= n,
         DigitRun(m, a, b), EndsAt(m, n, b, Digit)
  PROVE  NeedDigits(m, n, a) = Reached(b + 1)
<1>1. a <= b /\ a <= n /\ m[a] \in Digit
  BY DEF DigitRun
<1>2. Skip(m, n, a, Digit) = b + 1
  <2>1. CASE b = n
    <3>1. /\ Skip(m, n, a, Digit) = n + 1
             \/ (Skip(m, n, a, Digit) >= a /\ m[Skip(m, n, a, Digit)] \notin Digit)
          /\ Skip(m, n, a, Digit) \in Nat /\ Skip(m, n, a, Digit) <= n + 1
      BY SkipFacts
    <3> DEFINE s == Skip(m, n, a, Digit)
    <3> HIDE DEF s
    <3>2. s \in Nat /\ s <= n + 1 /\ (s = n + 1 \/ (s >= a /\ m[s] \notin Digit))
      BY <3>1 DEF s
    <3>3. s = n + 1
      BY <2>1, <3>2 DEF DigitRun
    <3> QED BY <2>1, <3>3 DEF s
  <2>2. CASE b # n
    <3> DEFINE q == b + 1
    <3>1. q \in a .. n /\ q - 1 = b /\ m[q] \notin Digit
      BY <1>1, <2>2 DEF EndsAt
    <3>2. \A r \in a .. q - 1 : m[r] \in Digit
      BY <3>1 DEF DigitRun
    <3> HIDE DEF q
    <3>3. Skip(m, n, a, Digit) = q
      BY <3>1, <3>2, SkipUnique
    <3> QED BY <3>3 DEF q
  <2> QED BY <2>1, <2>2
<1>3. ~(a > n) /\ ~(m[a] \notin Digit)
  BY <1>1
<1> QED BY <1>2, <1>3 DEF NeedDigits

\* And what it takes is digits, up to a byte that is none.
LEMMA DigitsFound ==
  ASSUME NEW m, NEW n \in Nat, NEW p \in 1 .. n + 1, NeedDigits(m, n, p).err = "NONE"
  PROVE  \E b \in p .. n : /\ NeedDigits(m, n, p) = Reached(b + 1)
                           /\ DigitRun(m, p, b) /\ EndsAt(m, n, b, Digit)
<1> DEFINE s == Skip(m, n, p, Digit)
<1>1. ~(p > n) /\ m[p] \in Digit
  BY DEF NeedDigits, Fault
<1>2. NeedDigits(m, n, p) = Reached(s)
  BY <1>1 DEF NeedDigits
<1>3. /\ s \in Nat /\ s <= n + 1
      /\ s = n + 1 \/ (s >= p /\ m[s] \notin Digit)
      /\ \A r \in p .. n : m[r] \notin Digit => s <= r
  <2>1. p \in Nat
    OBVIOUS
  <2> QED BY <2>1, SkipFacts
<1> HIDE DEF s
<1>4. s # p
  BY <1>1, <1>3
<1> DEFINE b == s - 1
<1>5. b \in p .. n /\ b + 1 = s
  BY <1>1, <1>3, <1>4
<1>6. DigitRun(m, p, b)
  BY <1>3, <1>5 DEF DigitRun
<1>7. EndsAt(m, n, b, Digit)
  BY <1>3, <1>5 DEF EndsAt
<1> QED BY <1>2, <1>5, <1>6, <1>7

\* What may follow a part of a number.
Continues == Digit \cup {".", "e", "E"}

\* Where the parts of a number end, if nothing follows that could continue it.
LEMMA CutEnds ==
  ASSUME NEW m, NEW n \in Nat, NEW b \in Nat, NEW c \in Nat, NEW e \in Nat,
         b <= c, c <= e, e <= n, Fractional(m, b, c), Exponential(m, c, e),
         EndsAt(m, n, e, Continues)
  PROVE  /\ EndsAt(m, n, b, Digit) /\ EndsAt(m, n, c, Digit) /\ EndsAt(m, n, e, Digit)
         /\ c = b => EndsAt(m, n, b, {"."})
         /\ e = c => EndsAt(m, n, c, {"e", "E"})
<1>1. c = b \/ (m[b + 1] = "." /\ b < c)
  BY DEF Fractional, DigitRun
<1>2. e = c \/ (m[c + 1] \in {"e", "E"} /\ c < e)
  BY DEF Exponential, DigitRun
<1>3. e = n \/ (m[e + 1] \notin Digit /\ m[e + 1] # "." /\ m[e + 1] \notin {"e", "E"})
  BY DEF EndsAt, Continues
<1>4. EndsAt(m, n, e, Digit)
  BY <1>3 DEF EndsAt
<1>5. EndsAt(m, n, c, Digit)
  BY <1>2, <1>4, NoDigits DEF EndsAt
<1>6. EndsAt(m, n, b, Digit)
  BY <1>1, <1>5, NoDigits DEF EndsAt
<1>7. e = c => EndsAt(m, n, c, {"e", "E"})
  BY <1>3 DEF EndsAt
<1>8. ASSUME c = b PROVE EndsAt(m, n, b, {"."})
  BY <1>2, <1>3, <1>8 DEF EndsAt
<1> QED BY <1>4, <1>5, <1>6, <1>7, <1>8

\* The three parts of next_number, each on the part it is for.
LEMMA CutInteger ==
  ASSUME NEW m, NEW n \in Nat, NEW p \in 1 .. n, NEW a \in Nat, NEW b \in Nat,
         a = p \/ (a = p + 1 /\ m[p] = "-"), b <= n, Integral(m, a, b), EndsAt(m, n, b, Digit)
  PROVE  IntegerPart(m, n, p) = Reached(b + 1)
<1>1. a <= b /\ m[a] \in Digit /\ DigitRun(m, a, b) /\ (b > a => m[a] # "0")
  BY DEF Integral, DigitRun
<1> DEFINE q == IF Has(m, n, p, {"-"}) THEN p + 1 ELSE p
<1>2. q = a
  <2>1. CASE a = p
    <3>1. m[p] # "-"
      BY <1>1, <2>1, NoDigits
    <3> QED BY <2>1, <3>1 DEF Has
  <2>2. CASE a = p + 1 /\ m[p] = "-"
    BY <2>2 DEF Has
  <2> QED BY <2>1, <2>2
<1>3. CASE Has(m, n, q, {"0"})
  <2>1. m[a] = "0"
    BY <1>2, <1>3 DEF Has
  <2>2. b = a
    BY <1>1, <2>1
  <2>3. ~Has(m, n, q + 1, Digit)
    BY <1>2, <2>2 DEF Has, EndsAt
  <2>4. IntegerPart(m, n, p) = Reached(q + 1)
    BY <1>3, <2>3, Zenon DEF IntegerPart
  <2> QED BY <1>2, <2>2, <2>4
<1>4. CASE ~Has(m, n, q, {"0"})
  <2>1. IntegerPart(m, n, p) = NeedDigits(m, n, q)
    BY <1>4, Zenon DEF IntegerPart
  <2>2. a \in Nat \ {0}
    OBVIOUS
  <2>3. NeedDigits(m, n, a) = Reached(b + 1)
    BY <1>1, <2>2, RunReached
  <2> QED BY <1>2, <2>1, <2>3
<1> QED BY <1>3, <1>4

LEMMA CutFraction ==
  ASSUME NEW m, NEW n \in Nat, NEW b \in Nat, NEW c \in Nat, b <= c, c <= n,
         Fractional(m, b, c), EndsAt(m, n, c, Digit), c = b => EndsAt(m, n, b, {"."})
  PROVE  FractionPart(m, n, b + 1) = Reached(c + 1)
<1>1. CASE c = b
  <2>1. ~Has(m, n, b + 1, {"."})
    BY <1>1 DEF Has, EndsAt
  <2> QED BY <1>1, <2>1 DEF FractionPart
<1>2. CASE m[b + 1] = "." /\ DigitRun(m, b + 2, c)
  <2>1. Has(m, n, b + 1, {"."})
    BY <1>2 DEF Has, DigitRun
  <2>2. FractionPart(m, n, b + 1) = NeedDigits(m, n, (b + 1) + 1)
    BY <2>1 DEF FractionPart
  <2> DEFINE k == b + 2
  <2>3. k \in Nat \ {0} /\ k = (b + 1) + 1 /\ DigitRun(m, k, c)
    BY <1>2
  <2> HIDE DEF k
  <2>4. NeedDigits(m, n, k) = Reached(c + 1)
    BY <2>3, RunReached
  <2> QED BY <2>2, <2>3, <2>4
<1> QED BY <1>1, <1>2 DEF Fractional

LEMMA CutExponent ==
  ASSUME NEW m, NEW n \in Nat, NEW c \in Nat, NEW e \in Nat, c <= e, e <= n,
         Exponential(m, c, e), EndsAt(m, n, e, Digit), e = c => EndsAt(m, n, c, {"e", "E"})
  PROVE  ExponentPart(m, n, c + 1) = Reached(e + 1)
<1> DEFINE k == c + 1
           l == c + 2
           d == c + 3
<1>0. k \in Nat /\ l \in Nat \ {0} /\ d \in Nat \ {0} /\ l = k + 1 /\ d = k + 2
        /\ k = c + 1 /\ l = c + 2 /\ d = c + 3
  OBVIOUS
<1> HIDE DEF k, l, d
<1>1. CASE e = c
  <2>1. ~Has(m, n, k, {"e", "E"})
    BY <1>0, <1>1 DEF Has, EndsAt
  <2>2. ExponentPart(m, n, k) = Reached(k)
    BY <2>1, Zenon DEF ExponentPart
  <2> QED BY <1>0, <1>1, <2>2
<1>2. CASE m[k] \in {"e", "E"} /\ DigitRun(m, l, e)
  <2>1. l <= e /\ m[l] \in Digit
    BY <1>0, <1>2 DEF DigitRun
  <2>2. Has(m, n, k, {"e", "E"})
    BY <1>0, <1>2, <2>1 DEF Has
  <2>3. ~Has(m, n, k + 1, {"+", "-"})
    BY <1>0, <2>1, NoDigits DEF Has
  <2>4. ExponentPart(m, n, k) = NeedDigits(m, n, k + 1)
    BY <2>2, <2>3, Zenon DEF ExponentPart
  <2>5. NeedDigits(m, n, l) = Reached(e + 1)
    BY <1>0, <1>2, RunReached
  <2> QED BY <1>0, <2>4, <2>5
<1>3. CASE m[k] \in {"e", "E"} /\ m[l] \in {"+", "-"} /\ DigitRun(m, d, e)
  <2>1. d <= e
    BY <1>0, <1>3 DEF DigitRun
  <2>2. Has(m, n, k, {"e", "E"}) /\ Has(m, n, k + 1, {"+", "-"})
    BY <1>0, <1>3, <2>1 DEF Has
  <2>4. ExponentPart(m, n, k) = NeedDigits(m, n, k + 2)
    BY <2>2, Zenon DEF ExponentPart
  <2>5. NeedDigits(m, n, d) = Reached(e + 1)
    BY <1>0, <1>3, RunReached
  <2> QED BY <1>0, <2>4, <2>5
<1> QED BY <1>0, <1>1, <1>2, <1>3 DEF Exponential

\* A number of the reference that nothing continues is found, to its end.
LEMMA NumberLexed ==
  ASSUME NEW m, NEW n \in Nat, NEW p \in 1 .. n, NEW e \in Nat, e <= n,
         NumberAt(m, p, e), EndsAt(m, n, e, Continues)
  PROVE  NextNumber(m, n, p) = Token("0", p, e + 1, e + 1)
<1>1. PICK a, b, c \in Nat : NumberCut(m, p, a, b, c, e)
  BY Zenon DEF NumberAt
<1>2. /\ a = p \/ (a = p + 1 /\ m[p] = "-")
      /\ b <= c /\ c <= e
      /\ Integral(m, a, b) /\ Fractional(m, b, c) /\ Exponential(m, c, e)
  BY <1>1 DEF NumberCut
<1>3. /\ EndsAt(m, n, b, Digit) /\ EndsAt(m, n, c, Digit) /\ EndsAt(m, n, e, Digit)
      /\ c = b => EndsAt(m, n, b, {"."})
      /\ e = c => EndsAt(m, n, c, {"e", "E"})
  BY <1>2, CutEnds
<1>4. b <= n /\ c <= n
  BY <1>2
<1>5. IntegerPart(m, n, p) = Reached(b + 1)
  BY <1>2, <1>3, <1>4, CutInteger
<1>6. FractionPart(m, n, b + 1) = Reached(c + 1)
  BY <1>2, <1>3, <1>4, CutFraction
<1>7. ExponentPart(m, n, c + 1) = Reached(e + 1)
  BY <1>2, <1>3, <1>4, CutExponent
<1>8. \A x : Reached(x).err = "NONE" /\ Reached(x).pos = x
  BY DEF Reached, Token
<1>9. Fraction(m, n, Reached(b + 1)) = Reached(c + 1)
  BY <1>6, <1>8, Zenon DEF Fraction
<1>10. Exponent(m, n, Reached(c + 1)) = Reached(e + 1)
  BY <1>7, <1>8, Zenon DEF Exponent
<1>11. Number(p, Reached(e + 1)) = Token("0", p, e + 1, e + 1)
  BY <1>8, Zenon DEF Number
<1> QED BY <1>5, <1>9, <1>10, <1>11, NumberParts

\* What next_number takes is a number: its three parts, one by one.
LEMMA IntegerFound ==
  ASSUME NEW m, NEW n \in Nat, NEW p \in 1 .. n, IntegerPart(m, n, p).err = "NONE"
  PROVE  \E a \in Nat, b \in Nat :
           /\ IntegerPart(m, n, p) = Reached(b + 1) /\ b <= n
           /\ a = p \/ (a = p + 1 /\ m[p] = "-")
           /\ Integral(m, a, b) /\ EndsAt(m, n, b, Digit)
<1> DEFINE q == IF Has(m, n, p, {"-"}) THEN p + 1 ELSE p
<1>1. q \in 1 .. n + 1 /\ q \in Nat /\ (q = p \/ (q = p + 1 /\ m[p] = "-"))
  BY DEF Has
<1>2. CASE Has(m, n, q, {"0"})
  <2>1. q <= n /\ m[q] = "0"
    BY <1>2 DEF Has
  <2>2. /\ ~Has(m, n, q + 1, Digit)
        /\ IntegerPart(m, n, p) = Reached(q + 1)
    <3>1. CASE Has(m, n, q + 1, Digit)
      <4>1. IntegerPart(m, n, p) = Fault("spelling", "INVALID_JSON", q + 1)
        BY <1>2, <3>1, Zenon DEF IntegerPart
      <4> QED BY <4>1 DEF Fault
    <3>2. CASE ~Has(m, n, q + 1, Digit)
      BY <1>2, <3>2, Zenon DEF IntegerPart
    <3> QED BY <3>1, <3>2
  <2>3. EndsAt(m, n, q, Digit)
    BY <1>1, <2>1, <2>2 DEF EndsAt, Has
  <2>4. Integral(m, q, q)
    <3>1. \A i \in q .. q : i = q
      BY <1>1
    <3>2. m[q] \in Digit
      BY <2>1, NoDigits
    <3>3. DigitRun(m, q, q)
      BY <1>1, <3>1, <3>2 DEF DigitRun
    <3>4. ~(q > q)
      BY <1>1
    <3> QED BY <3>3, <3>4 DEF Integral
  <2> HIDE DEF q
  <2> QED BY <1>1, <2>1, <2>2, <2>3, <2>4
<1>3. CASE ~Has(m, n, q, {"0"})
  <2>1. IntegerPart(m, n, p) = NeedDigits(m, n, q)
    BY <1>3, Zenon DEF IntegerPart
  <2> HIDE DEF q
  <2>2. PICK b \in q .. n : /\ NeedDigits(m, n, q) = Reached(b + 1)
                            /\ DigitRun(m, q, b) /\ EndsAt(m, n, b, Digit)
    BY <1>1, <2>1, DigitsFound
  <2>3. b \in Nat /\ b <= n
    BY <1>1
  <2>4. Integral(m, q, b)
    <3>1. m[q] # "0"
      BY <1>1, <1>3, <2>2 DEF Has
    <3> QED BY <2>2, <3>1 DEF Integral
  <2> QED BY <1>1, <2>1, <2>2, <2>3, <2>4
<1> QED BY <1>2, <1>3

LEMMA FractionFound ==
  ASSUME NEW m, NEW n \in Nat, NEW b \in Nat, b <= n, EndsAt(m, n, b, Digit),
         FractionPart(m, n, b + 1).err = "NONE"
  PROVE  \E c \in Nat :
           /\ FractionPart(m, n, b + 1) = Reached(c + 1) /\ b <= c /\ c <= n
           /\ Fractional(m, b, c) /\ EndsAt(m, n, c, Digit)
           /\ c = b => EndsAt(m, n, b, {"."})
<1>1. CASE Has(m, n, b + 1, {"."})
  <2>1. b + 1 <= n /\ m[b + 1] = "."
    BY <1>1 DEF Has
  <2> DEFINE k == b + 2
  <2>2. FractionPart(m, n, b + 1) = NeedDigits(m, n, k) /\ k \in 1 .. n + 1
    BY <1>1, <2>1 DEF FractionPart
  <2> HIDE DEF k
  <2>3. PICK c \in k .. n : /\ NeedDigits(m, n, k) = Reached(c + 1)
                            /\ DigitRun(m, k, c) /\ EndsAt(m, n, c, Digit)
    BY <2>2, DigitsFound
  <2>4. c \in Nat /\ b <= c /\ c <= n /\ c # b
    BY <2>2 DEF k
  <2>5. Fractional(m, b, c)
    BY <2>1, <2>3 DEF Fractional, k
  <2> QED BY <2>2, <2>3, <2>4, <2>5
<1>2. CASE ~Has(m, n, b + 1, {"."})
  <2>1. FractionPart(m, n, b + 1) = Reached(b + 1)
    BY <1>2 DEF FractionPart
  <2>2. EndsAt(m, n, b, {"."})
    BY <1>2 DEF Has, EndsAt
  <2>3. Fractional(m, b, b)
    BY DEF Fractional
  <2> QED BY <2>1, <2>2, <2>3
<1> QED BY <1>1, <1>2

LEMMA ExponentFound ==
  ASSUME NEW m, NEW n \in Nat, NEW c \in Nat, c <= n, EndsAt(m, n, c, Digit),
         ExponentPart(m, n, c + 1).err = "NONE"
  PROVE  \E e \in Nat :
           /\ ExponentPart(m, n, c + 1) = Reached(e + 1) /\ c <= e /\ e <= n
           /\ Exponential(m, c, e) /\ EndsAt(m, n, e, Digit)
           /\ e = c => EndsAt(m, n, c, {"e", "E"})
<1> DEFINE x == c + 1
<1>0. x \in Nat
  OBVIOUS
<1>1. CASE Has(m, n, x, {"e", "E"})
  <2>1. c + 1 <= n /\ m[c + 1] \in {"e", "E"}
    BY <1>1 DEF Has
  <2> DEFINE k == IF Has(m, n, x + 1, {"+", "-"}) THEN x + 2 ELSE x + 1
  <2>2. k \in 1 .. n + 1 /\ (k = c + 2 \/ (k = c + 3 /\ m[c + 2] \in {"+", "-"}))
    BY <2>1 DEF Has
  <2>3. ExponentPart(m, n, x) = NeedDigits(m, n, k)
    BY <1>1, Zenon DEF ExponentPart
  <2> HIDE DEF k
  <2>4. PICK e \in k .. n : /\ NeedDigits(m, n, k) = Reached(e + 1)
                            /\ DigitRun(m, k, e) /\ EndsAt(m, n, e, Digit)
    BY <2>2, <2>3, DigitsFound
  <2>5. e \in Nat /\ c <= e /\ e <= n /\ e # c
    BY <2>2
  <2>6. Exponential(m, c, e)
    BY <2>1, <2>2, <2>4 DEF Exponential
  <2> QED BY <2>3, <2>4, <2>5, <2>6
<1>2. CASE ~Has(m, n, x, {"e", "E"})
  <2>1. ExponentPart(m, n, x) = Reached(x)
    BY <1>2, Zenon DEF ExponentPart
  <2>2. EndsAt(m, n, c, {"e", "E"})
    BY <1>2 DEF Has, EndsAt
  <2>3. Exponential(m, c, c)
    BY DEF Exponential
  <2> QED BY <2>1, <2>2, <2>3
<1> QED BY <1>1, <1>2

\* No part of the number could be longer.
Longest(m, n, b, c, e) ==
  /\ EndsAt(m, n, b, Digit) /\ EndsAt(m, n, c, Digit) /\ EndsAt(m, n, e, Digit)
  /\ c = b => EndsAt(m, n, b, {"."})
  /\ e = c => EndsAt(m, n, c, {"e", "E"})

\* And the parts are as long as they can be.
LEMMA NumberFound ==
  ASSUME NEW m, NEW n \in Nat, NEW p \in 1 .. n, NextNumber(m, n, p).err = "NONE"
  PROVE  \E a, b, c, e \in Nat :
           /\ NextNumber(m, n, p) = Token("0", p, e + 1, e + 1) /\ e <= n
           /\ NumberCut(m, p, a, b, c, e) /\ Longest(m, n, b, c, e)
<1> DEFINE i == IntegerPart(m, n, p)
           f == Fraction(m, n, i)
           x == Exponent(m, n, f)
<1>1. NextNumber(m, n, p) = Number(p, x)
  BY NumberParts
<1> HIDE DEF x
<1>2. x.err = "NONE" /\ Number(p, x) = Token("0", p, x.pos, x.pos)
  <2>1. CASE x.err # "NONE"
    <3>1. Number(p, x) = x
      BY <2>1, Zenon DEF Number
    <3> QED BY <1>1, <2>1, <3>1
  <2>2. CASE x.err = "NONE"
    BY <2>2, Zenon DEF Number
  <2> QED BY <2>1, <2>2
<1> HIDE DEF f
<1>3. f.err = "NONE" /\ x = ExponentPart(m, n, f.pos)
  BY <1>2, Zenon DEF Exponent, x
<1> HIDE DEF i
<1>4. i.err = "NONE" /\ f = FractionPart(m, n, i.pos)
  BY <1>3, Zenon DEF Fraction, f
<1>5. \A y : Reached(y).pos = y
  BY DEF Reached, Token
<1>6. PICK a \in Nat, b \in Nat :
        /\ i = Reached(b + 1) /\ b <= n
        /\ a = p \/ (a = p + 1 /\ m[p] = "-")
        /\ Integral(m, a, b) /\ EndsAt(m, n, b, Digit)
  BY <1>4, IntegerFound DEF i
<1>7. PICK c \in Nat :
        /\ f = Reached(c + 1) /\ b <= c /\ c <= n
        /\ Fractional(m, b, c) /\ EndsAt(m, n, c, Digit)
        /\ c = b => EndsAt(m, n, b, {"."})
  <2>1. f = FractionPart(m, n, b + 1)
    BY <1>4, <1>5, <1>6
  <2> QED BY <1>3, <1>6, <2>1, FractionFound
<1>8. PICK e \in Nat :
        /\ x = Reached(e + 1) /\ c <= e /\ e <= n
        /\ Exponential(m, c, e) /\ EndsAt(m, n, e, Digit)
        /\ e = c => EndsAt(m, n, c, {"e", "E"})
  <2>1. x = ExponentPart(m, n, c + 1)
    BY <1>3, <1>5, <1>7
  <2> QED BY <1>2, <1>7, <2>1, ExponentFound
<1>9. NextNumber(m, n, p) = Token("0", p, e + 1, e + 1)
  BY <1>1, <1>2, <1>5, <1>8
<1>10. NumberCut(m, p, a, b, c, e)
  BY <1>6, <1>7, <1>8 DEF NumberCut
<1>11. Longest(m, n, b, c, e)
  BY <1>6, <1>7, <1>8 DEF Longest
<1> QED BY <1>8, <1>9, <1>10, <1>11

\* So no longer number begins there.
LEMMA NumberLongest ==
  ASSUME NEW m, NEW n \in Nat, NEW p \in 1 .. n,
         NEW a \in Nat, NEW b \in Nat, NEW c \in Nat, NEW e \in Nat, e <= n,
         NumberCut(m, p, a, b, c, e), Longest(m, n, b, c, e),
         NEW l \in Nat, l <= n, NumberAt(m, p, l)
  PROVE  l <= e
<1>1. PICK x, y, z \in Nat : NumberCut(m, p, x, y, z, l)
  BY Zenon DEF NumberAt
<1>2. /\ x = p \/ (x = p + 1 /\ m[p] = "-")
      /\ x <= y /\ y <= z /\ z <= l /\ DigitRun(m, x, y)
      /\ Fractional(m, y, z) /\ Exponential(m, z, l)
  BY <1>1 DEF NumberCut, Integral, DigitRun
<1>3. /\ a = p \/ (a = p + 1 /\ m[p] = "-")
      /\ a <= b /\ b <= c /\ c <= e /\ DigitRun(m, a, b)
      /\ Fractional(m, b, c) /\ Exponential(m, c, e)
  BY DEF NumberCut, Integral, DigitRun
<1>4. \A u, v \in Nat : DigitRun(m, u, v) => m[u] # "-" /\ u <= v
  BY NoDigits DEF DigitRun
<1>5. x = a
  BY <1>2, <1>3, <1>4
\* Digits go on up to where a part ends.
<1>6. \A u, v, t \in Nat : DigitRun(m, u, v) /\ EndsAt(m, n, t, Digit) /\ u <= t + 1 /\ v <= n => v <= t
  BY DEF DigitRun, EndsAt
<1>7. \A u, v, t \in Nat : DigitRun(m, u, v) /\ u <= t /\ t < v => m[t + 1] \in Digit
  BY DEF DigitRun
<1>8. y <= b
  BY <1>2, <1>3, <1>5, <1>6 DEF Longest
<1>9. z = y \/ (m[y + 1] = "." /\ DigitRun(m, y + 2, z))
  BY <1>2 DEF Fractional
<1>10. CASE y < b
  <2>1. m[y + 1] \in Digit
    BY <1>2, <1>3, <1>5, <1>7, <1>10
  <2>2. z = y
    BY <1>9, <2>1, NoDigits
  <2>3. l = z
    BY <1>2, <2>1, <2>2, NoDigits DEF Exponential
  <2> QED BY <1>3, <1>10, <2>2, <2>3
<1>11. CASE y = b
  <2>1. z <= c
    <3>1. CASE z = y
      BY <1>3, <1>11, <3>1
    <3>2. CASE z # y
      <4>1. m[b + 1] = "." /\ DigitRun(m, b + 2, z) /\ b + 2 <= z
        BY <1>4, <1>9, <1>11, <3>2
      <4>2. c # b
        BY <1>2, <4>1 DEF Longest, EndsAt
      <4>3. DigitRun(m, b + 2, c) /\ b + 2 <= c
        BY <1>3, <1>4, <4>2 DEF Fractional
      <4> QED BY <1>2, <1>6, <4>1, <4>3 DEF Longest
    <3> QED BY <3>1, <3>2
  <2>2. CASE z < c
    <3>1. c # b /\ DigitRun(m, b + 2, c) /\ b + 2 <= c /\ m[b + 1] = "."
      BY <1>2, <1>3, <1>4, <1>11, <2>2 DEF Fractional
    <3>2. m[z + 1] = "." \/ m[z + 1] \in Digit
      <4>1. CASE z = y
        BY <1>11, <3>1, <4>1
      <4>2. CASE z # y
        <5>1. b + 2 <= z
          BY <1>4, <1>9, <1>11, <4>2
        <5> QED BY <1>7, <2>2, <3>1, <5>1
      <4> QED BY <4>1, <4>2
    <3>3. m[z + 1] \notin {"e", "E"}
      BY <3>2, NoDigits
    <3>4. l = z
      BY <1>2, <3>3 DEF Exponential
    <3> QED BY <1>3, <2>2, <3>4
  <2>3. CASE z = c
    <3>1. CASE l = z
      BY <1>3, <2>3, <3>1
    <3>2. CASE l # z
      <4>1. /\ m[c + 1] \in {"e", "E"} /\ c < l
            /\ \/ DigitRun(m, c + 2, l)
               \/ m[c + 2] \in {"+", "-"} /\ DigitRun(m, c + 3, l)
        BY <1>2, <1>4, <2>3, <3>2 DEF Exponential
      <4>2. e # c
        BY <4>1 DEF Longest, EndsAt
      <4>3. \/ DigitRun(m, c + 2, e)
            \/ m[c + 2] \in {"+", "-"} /\ DigitRun(m, c + 3, e)
        BY <1>3, <4>2 DEF Exponential
      <4>4. DigitRun(m, c + 2, e) \/ DigitRun(m, c + 2, l) => m[c + 2] \in Digit
        BY DEF DigitRun
      <4>5. m[c + 2] \in {"+", "-"} => m[c + 2] \notin Digit
        BY NoDigits
      <4>6. EndsAt(m, n, e, Digit)
        BY DEF Longest
      <4>7. CASE DigitRun(m, c + 2, l) /\ DigitRun(m, c + 2, e)
        <5> DEFINE k == c + 2
        <5>1. k \in Nat /\ DigitRun(m, k, l) /\ DigitRun(m, k, e)
          BY <4>7
        <5> HIDE DEF k
        <5>2. k <= e + 1
          BY <1>4, <5>1
        <5> QED BY <1>6, <4>6, <5>1, <5>2
      <4>8. CASE DigitRun(m, c + 3, l) /\ DigitRun(m, c + 3, e)
        <5> DEFINE k == c + 3
        <5>1. k \in Nat /\ DigitRun(m, k, l) /\ DigitRun(m, k, e)
          BY <4>8
        <5> HIDE DEF k
        <5>2. k <= e + 1
          BY <1>4, <5>1
        <5> QED BY <1>6, <4>6, <5>1, <5>2
      <4> QED BY <4>1, <4>3, <4>4, <4>5, <4>7, <4>8
    <3> QED BY <3>1, <3>2
  <2> QED BY <2>1, <2>2, <2>3
<1> QED BY <1>8, <1>10, <1>11

-----------------------------------------------------------------------------
(* The chars of a string, by positions.                                    *)

\* The digits of an escape.
Hexadecimal == DOMAIN HexValue

\* The lexer and the reference mean the same hexadecimal digits.
LEMMA SameHex == Reference!HexValue = HexValue
BY DEF Reference!HexValue, HexValue, Reference!HexDigits, HexDigits, Reference!Chars, Chars

\* The 0 that completes an escape is one of them.
LEMMA ZeroIsHex == "0" \in Hexadecimal
<1> DEFINE lower == Chars("0123456789abcdef")
<1>1. HexDigits[1] = "0"
  BY DEF HexDigits
<1>2. Hexadecimal = {HexDigits[i] : i \in 1 .. 16} \cup {lower[i] : i \in 1 .. 16}
  BY DEF Hexadecimal, HexValue
<1>3. 1 \in 1 .. 16
  OBVIOUS
<1> HIDE DEF lower
<1> QED BY <1>1, <1>2, <1>3, Zenon

\* Names, because the provers read no escapes.
DoubleQuote == "\""
Backslash == "\\"

\* What a char of a string looks like where it begins.
PlainAt(m, q) == m[q] \notin {DoubleQuote, Backslash}
ShortAt(m, q) == m[q] = Backslash /\ m[q + 1] \in EscapeLetters
UnicodeAt(m, q) ==
  m[q] = Backslash /\ m[q + 1] = "u" /\ \A k \in q + 2 .. q + 5 : m[k] \in Hexadecimal

\* A sequence of two.
LEMMA PairIs ==
  ASSUME NEW x \in Seq(STRING), Len(x) = 2
  PROVE  x = <<x[1], x[2]>>
<1>1. x = [i \in 1 .. Len(x) |-> x[i]]
  OBVIOUS
<1> QED BY <1>1

\* A char of the reference, by what stands where it begins.
LEMMA ReferenceChar ==
  ASSUME NEW s \in Seq(STRING), NEW i \in Nat \ {0}, NEW j \in {i, i + 1, i + 5}, j <= Len(s)
  PROVE  Reference!IsChar(SubSeq(s, i, j))
           <=> \/ j = i /\ PlainAt(s, i)
               \/ j = i + 1 /\ ShortAt(s, i)
               \/ j = i + 5 /\ UnicodeAt(s, i)
<1> DEFINE t == SubSeq(s, i, j)
           l == j - i + 1
<1>1. t \in Seq(STRING) /\ Len(t) = l /\ \A k \in 1 .. l : t[k] = s[i + k - 1]
  <2>1. j \in Nat /\ i <= j + 1
    OBVIOUS
  <2> QED BY <2>1, SubSeqFacts
<1>2. l \in {1, 2, 6} /\ (l = 1 <=> j = i) /\ (l = 2 <=> j = i + 1) /\ (l = 6 <=> j = i + 5)
  OBVIOUS
<1>3. t[1] = s[i] /\ (l > 1 => t[2] = s[i + 1])
  <2>1. 1 \in 1 .. l /\ (l > 1 => 2 \in 1 .. l) /\ i + 1 - 1 = i /\ i + 2 - 1 = i + 1
    BY <1>2
  <2> HIDE DEF t, l
  <2>2. t[1] = s[i + 1 - 1] /\ (l > 1 => t[2] = s[i + 2 - 1])
    BY <1>1, <2>1
  <2> QED BY <2>1, <2>2
<1>4. Reference!IsPlain(t) <=> l = 1 /\ PlainAt(s, i)
  BY <1>1, <1>3, Zenon DEF Reference!IsPlain, PlainAt, DoubleQuote, Backslash
<1>5. Reference!IsShort(t) <=> l = 2 /\ ShortAt(s, i)
  <2>1. Reference!IsShort(t) <=> Len(t) = 2 /\ t[1] = Backslash /\ t[2] \in EscapeLetters
    BY Zenon DEF Reference!IsShort, EscapeLetters, Backslash
  <2> HIDE DEF t
  <2> QED BY <1>1, <1>3, <2>1 DEF ShortAt
<1>6. Reference!IsUnicode(t) <=> l = 6 /\ UnicodeAt(s, i)
  <2>1. CASE l # 6
    BY <1>1, <2>1 DEF Reference!IsUnicode
  <2>2. CASE l = 6
    <3>1. SubSeq(t, 1, 2) = <<Backslash, "u">> <=> t[1] = Backslash /\ t[2] = "u"
      <4> DEFINE x == SubSeq(t, 1, 2)
      <4>1. x \in Seq(STRING) /\ Len(x) = 2 /\ x[1] = t[1] /\ x[2] = t[2]
        BY <1>1, <2>2
      <4> HIDE DEF x
      <4>2. x = <<x[1], x[2]>>
        BY <4>1, PairIs
      <4>3. x = <<Backslash, "u">> <=> x[1] = Backslash /\ x[2] = "u"
        BY <4>2
      <4> QED BY <4>1, <4>3 DEF x
    <3>2. (\A k \in 3 .. 6 : t[k] \in Hexadecimal)
            <=> (\A k \in i + 2 .. i + 5 : s[k] \in Hexadecimal)
      <4>1. ASSUME \A k \in 3 .. 6 : t[k] \in Hexadecimal, NEW k \in i + 2 .. i + 5
            PROVE  s[k] \in Hexadecimal
        <5>1. k - i + 1 \in 3 .. 6 /\ k - i + 1 \in 1 .. l /\ i + (k - i + 1) - 1 = k
          BY <2>2
        <5> QED BY <1>1, <4>1, <5>1
      <4>2. ASSUME \A k \in i + 2 .. i + 5 : s[k] \in Hexadecimal, NEW k \in 3 .. 6
            PROVE  t[k] \in Hexadecimal
        <5>1. i + k - 1 \in i + 2 .. i + 5 /\ k \in 1 .. l
          BY <2>2
        <5> QED BY <1>1, <4>2, <5>1
      <4> QED BY <4>1, <4>2
    <3>3. Reference!IsUnicode(t)
            <=> SubSeq(t, 1, 2) = <<Backslash, "u">> /\ \A k \in 3 .. 6 : t[k] \in Hexadecimal
      BY <1>1, <2>2, SameHex, Zenon DEF Reference!IsUnicode, Hexadecimal, Backslash
    <3> HIDE DEF t
    <3> QED BY <1>3, <2>2, <3>1, <3>2, <3>3 DEF UnicodeAt
  <2> QED BY <2>1, <2>2
<1> HIDE DEF t, l
<1> QED BY <1>2, <1>4, <1>5, <1>6 DEF Reference!IsChar, t

\* How chars go on from i.
CharsGoOn(s, f, i) ==
  \/ i = Len(s) + 1
  \/ i <= Len(s) /\ PlainAt(s, i) /\ f[i + 1]
  \/ i + 1 <= Len(s) /\ ShortAt(s, i) /\ f[i + 2]
  \/ i + 5 <= Len(s) /\ UnicodeAt(s, i) /\ f[i + 6]

\* The equation of the recursive function of the reference, by positions.
LEMMA CharsAtRule ==
  ASSUME NEW s \in Seq(STRING), NEW i \in 1 .. Len(s) + 1, NEW f
  PROVE  (i = Len(s) + 1 \/ \E j \in Reference!CharsAt(s, i) : f[j + 1])
           <=> CharsGoOn(s, f, i)
<1>1. i \in Nat \ {0} /\ Len(s) \in Nat
  OBVIOUS
<1>2. \A j \in {i, i + 1, i + 5} : j \in Reference!CharsAt(s, i)
        <=> /\ j <= Len(s)
            /\ \/ j = i /\ PlainAt(s, i)
               \/ j = i + 1 /\ ShortAt(s, i)
               \/ j = i + 5 /\ UnicodeAt(s, i)
  BY <1>1, ReferenceChar DEF Reference!CharsAt
<1>3. Reference!CharsAt(s, i) \subseteq {i, i + 1, i + 5}
  BY DEF Reference!CharsAt
<1>4. i + 1 = i + 1 /\ (i + 1) + 1 = i + 2 /\ (i + 5) + 1 = i + 6 /\ i # i + 1 /\ i # i + 5 /\ i + 1 # i + 5
  BY <1>1
<1>5. (\E j \in Reference!CharsAt(s, i) : f[j + 1])
        <=> \/ i \in Reference!CharsAt(s, i) /\ f[i + 1]
            \/ i + 1 \in Reference!CharsAt(s, i) /\ f[i + 2]
            \/ i + 5 \in Reference!CharsAt(s, i) /\ f[i + 6]
  <2> HIDE DEF Reference!CharsAt
  <2> QED BY <1>3, <1>4
<1> QED BY <1>2, <1>4, <1>5 DEF CharsGoOn

\* That function satisfies its equation: induction over the distance from the
\* end of the text.
LEMMA CharsRule ==
  ASSUME NEW s \in Seq(STRING)
  PROVE  \E f : /\ \A i \in 1 .. Len(s) + 1 : f[i] <=> CharsGoOn(s, f, i)
                /\ \A i \in 1 .. Len(s) + 1 : f[i] \in BOOLEAN
                /\ Reference!AreChars(s) <=> f[1]
<1> DEFINE X == 1 .. Len(s) + 1
           Rule(f, i) == i = Len(s) + 1 \/ \E j \in Reference!CharsAt(s, i) : f[j + 1]
           mu == [i \in X |-> Len(s) + 1 - i]
           R == [fi \in [X -> BOOLEAN] \X X |-> Rule(fi[1], fi[2])]
           Solution(f) == f = [i \in X |-> Rule(f, i)]
<1>0. Len(s) \in Nat
  OBVIOUS
<1>1. mu \in [X -> Nat] /\ \A i \in X : mu[i] = Len(s) + 1 - i
  BY <1>0
<1>2. \A f, i : Rule(f, i) \in BOOLEAN
  OBVIOUS
<1>3. R \in [[X -> BOOLEAN] \X X -> BOOLEAN]
        /\ \A f \in [X -> BOOLEAN], i \in X : R[<<f, i>>] = Rule(f, i)
  BY <1>2
<1>4. ASSUME NEW i \in X, NEW f, NEW g, \A j \in X : mu[j] < mu[i] => f[j] = g[j]
      PROVE  Rule(f, i) = Rule(g, i)
  <2>1. CASE i = Len(s) + 1
    BY <2>1
  <2>2. CASE i # Len(s) + 1
    <3>1. ASSUME NEW j \in Reference!CharsAt(s, i) PROVE f[j + 1] = g[j + 1]
      <4>1. j \in {i, i + 1, i + 5} /\ j <= Len(s)
        BY DEF Reference!CharsAt
      <4>2. j + 1 \in X /\ mu[j + 1] < mu[i]
        BY <1>0, <1>1, <4>1
      <4> QED BY <1>4, <4>2
    <3> QED BY <3>1
  <2> QED BY <2>1, <2>2
<1> HIDE DEF mu, R, Rule
<1>5. LooksBelow(X, BOOLEAN, mu, R)
  <2>1. ASSUME NEW i \in X, NEW f \in [X -> BOOLEAN], NEW g \in [X -> BOOLEAN],
               \A j \in X : mu[j] < mu[i] => f[j] = g[j]
        PROVE  R[<<f, i>>] = R[<<g, i>>]
    <3>1. Rule(f, i) = Rule(g, i)
      BY <1>4, <2>1
    <3>2. R[<<f, i>>] = Rule(f, i) /\ R[<<g, i>>] = Rule(g, i)
      BY <1>3
    <3> QED BY <3>1, <3>2
  <2> HIDE DEF X
  <2> QED BY <2>1, Zenon DEF LooksBelow
<1>6. BOOLEAN # {}
  OBVIOUS
<1> HIDE DEF X
<1>7. PICK e : IsSolution(X, BOOLEAN, R, e)
  BY <1>1, <1>3, <1>5, <1>6, Recursion
<1>8. Solution(e)
  <2>1. e \in [X -> BOOLEAN] /\ \A i \in X : e[i] = Rule(e, i)
    BY <1>3, <1>7 DEF IsSolution
  <2> QED BY <2>1
<1> DEFINE from == CHOOSE f : Solution(f)
<1>9. Reference!AreChars(s) <=> from[1]
  BY Zenon DEF Reference!AreChars, Rule, X
<1> HIDE DEF Solution
<1>10. Solution(from)
  BY <1>8
<1> HIDE DEF from
<1>11. \A i \in X : from[i] = Rule(from, i)
  BY <1>10 DEF Solution
<1>12. ASSUME NEW i \in X PROVE from[i] \in BOOLEAN /\ (from[i] <=> CharsGoOn(s, from, i))
  <2>1. Rule(from, i) <=> CharsGoOn(s, from, i)
    BY CharsAtRule DEF Rule, X
  <2> QED BY <1>2, <1>11, <2>1
<1> QED BY <1>9, <1>12 DEF X

-----------------------------------------------------------------------------
(* The loop over a string takes chars up to a quote, and nothing else.     *)

\* A string ends with a quote and escapes with a backslash.
LEMMA NotTheSame == Backslash # DoubleQuote
BY Zenon DEF Backslash, DoubleQuote

\* What the loop over a string does at q, by what is there.
LEMMA ScanTurn ==
  ASSUME NEW m, NEW n \in Nat, NEW p, NEW g, Scans(m, n, p, g), NEW q \in Nat, q <= n
  PROVE  /\ m[q] = DoubleQuote => g[q] = Token("s", p + 1, q, q + 1)
         /\ PlainAt(m, q) => g[q] = g[q + 1]
         /\ m[q] = Backslash /\ q = n => g[q] = Fault("end", "PARTIAL", p + 1)
         /\ ShortAt(m, q) /\ q < n => g[q] = g[q + 2]
         /\ UnicodeAt(m, q) /\ q + 5 <= n => g[q] = g[q + 6]
<1>1. g[q] = ScanRule(m, n, p, g, q) /\ ~(q > n)
  BY DEF Scans
<1>2. m[q] = DoubleQuote => g[q] = Token("s", p + 1, q, q + 1)
  BY <1>1, Zenon DEF ScanRule, Backslash, DoubleQuote
<1>3. PlainAt(m, q) => g[q] = g[q + 1]
  BY <1>1, Zenon DEF ScanRule, Backslash, DoubleQuote, PlainAt
<1>4. Backslash # DoubleQuote /\ "u" \notin EscapeLetters
  BY Zenon DEF EscapeLetters, Backslash, DoubleQuote
<1>5. ASSUME m[q] = Backslash, q = n PROVE g[q] = Fault("end", "PARTIAL", p + 1)
  <2>1. q + 1 > n
    BY <1>5
  <2> QED BY <1>1, <1>4, <1>5, <2>1, Zenon DEF ScanRule, Backslash, DoubleQuote
<1>6. ASSUME ShortAt(m, q), q < n PROVE g[q] = g[q + 2]
  <2>1. ~(q + 1 > n)
    BY <1>6
  <2> QED BY <1>1, <1>4, <1>6, <2>1, Zenon DEF ScanRule, Backslash, DoubleQuote, ShortAt
<1>7. ASSUME UnicodeAt(m, q), q + 5 <= n PROVE g[q] = g[q + 6]
  <2>1. ~(q + 1 > n) /\ ~(q + 5 > n)
    BY <1>7
  <2>2. NoHexDigit(m, n, q) = {}
    BY <1>7 DEF NoHexDigit, UnicodeAt, Hexadecimal
  <2> QED BY <1>1, <1>4, <1>7, <2>1, <2>2, Zenon DEF ScanRule, Backslash, DoubleQuote, UnicodeAt
<1> QED BY <1>2, <1>3, <1>5, <1>6, <1>7

\* And the other way round: the ways in which it comes to its result.
ScanCase(m, n, p, g, q) ==
  \/ q > n /\ g[q] = Fault("end", "PARTIAL", p + 1)
  \/ q <= n /\ m[q] = DoubleQuote /\ g[q] = Token("s", p + 1, q, q + 1)
  \/ q <= n /\ PlainAt(m, q) /\ g[q] = g[q + 1]
  \/ q = n /\ m[q] = Backslash /\ g[q] = Fault("end", "PARTIAL", p + 1)
  \/ q < n /\ ShortAt(m, q) /\ g[q] = g[q + 2]
  \/ q < n /\ m[q] = Backslash /\ g[q] = Fault("escape", "TYPE_NOT_MATCH", p + 1)
  \/ /\ q < n /\ m[q] = Backslash /\ m[q + 1] = "u" /\ q + 5 > n
     /\ \A i \in q + 2 .. n : m[i] \in Hexadecimal
     /\ g[q] = Fault("end", "PARTIAL", p + 1)
  \/ q + 5 <= n /\ UnicodeAt(m, q) /\ g[q] = g[q + 6]

\* The ways in which the loop over a string comes to its result.
LEMMA ScanCases ==
  ASSUME NEW m, NEW n \in Nat, NEW p, NEW g, Scans(m, n, p, g), NEW q \in Nat
  PROVE  ScanCase(m, n, p, g, q)
<1>1. g[q] = ScanRule(m, n, p, g, q)
  BY DEF Scans
<1>2. CASE q > n
  BY <1>1, <1>2, Zenon DEF ScanRule, ScanCase
<1>3. CASE q <= n /\ m[q] # Backslash
  <2>1. ~(q > n)
    BY <1>3
  <2>2. CASE m[q] = DoubleQuote
    BY <1>1, <1>3, <2>1, <2>2, Zenon DEF ScanRule, ScanCase, Backslash, DoubleQuote
  <2>3. CASE m[q] # DoubleQuote
    <3>1. PlainAt(m, q)
      BY <1>3, <2>3 DEF PlainAt
    <3>2. g[q] = g[q + 1]
      BY <1>1, <1>3, <2>1, <2>3, Zenon DEF ScanRule, Backslash, DoubleQuote
    <3> QED BY <1>3, <3>1, <3>2 DEF ScanCase
  <2> QED BY <2>2, <2>3
<1>4. CASE q = n /\ m[q] = Backslash
  <2>1. ~(q > n) /\ q + 1 > n /\ m[q] # DoubleQuote
    BY <1>4, NotTheSame
  <2>2. g[q] = Fault("end", "PARTIAL", p + 1)
    BY <1>1, <1>4, <2>1, Zenon DEF ScanRule, Backslash, DoubleQuote
  <2> QED BY <1>4, <2>2 DEF ScanCase
<1>5. CASE q < n /\ m[q] = Backslash
  <2>1. ~(q > n) /\ ~(q + 1 > n) /\ m[q] # DoubleQuote
    BY <1>5, NotTheSame
  <2>2. CASE m[q + 1] \in EscapeLetters
    <3>1. g[q] = g[q + 2]
      BY <1>1, <1>5, <2>1, <2>2, Zenon DEF ScanRule, Backslash, DoubleQuote
    <3> QED BY <1>5, <2>2, <3>1 DEF ShortAt, ScanCase
  <2>3. CASE m[q + 1] \notin EscapeLetters /\ (m[q + 1] # "u" \/ NoHexDigit(m, n, q) # {})
    <3>1. g[q] = Fault("escape", "TYPE_NOT_MATCH", p + 1)
      BY <1>1, <1>5, <2>1, <2>3, Zenon DEF ScanRule, Backslash, DoubleQuote
    <3> QED BY <1>5, <3>1 DEF ScanCase
  <2>4. CASE m[q + 1] \notin EscapeLetters /\ m[q + 1] = "u" /\ NoHexDigit(m, n, q) = {} /\ q + 5 > n
    <3>1. g[q] = Fault("end", "PARTIAL", p + 1)
      BY <1>1, <1>5, <2>1, <2>4, Zenon DEF ScanRule, Backslash, DoubleQuote
    <3>2. \A i \in q + 2 .. n : i \in q + 2 .. q + 5 /\ i <= n
      BY <2>4
    <3>3. \A i \in q + 2 .. n : m[i] \in Hexadecimal
      BY <2>4, <3>2 DEF NoHexDigit, Hexadecimal
    <3> QED BY <1>5, <2>4, <3>1, <3>3 DEF ScanCase
  <2>5. CASE m[q + 1] \notin EscapeLetters /\ m[q + 1] = "u" /\ NoHexDigit(m, n, q) = {} /\ q + 5 <= n
    <3>1. ~(q + 5 > n)
      BY <2>5
    <3>2. g[q] = g[q + 6]
      BY <1>1, <1>5, <2>1, <2>5, <3>1, Zenon DEF ScanRule, Backslash, DoubleQuote
    <3>3. \A i \in q + 2 .. q + 5 : i <= n
      BY <2>5
    <3>4. \A i \in q + 2 .. q + 5 : m[i] \in Hexadecimal
      BY <2>5, <3>3 DEF NoHexDigit, Hexadecimal
    <3>5. UnicodeAt(m, q)
      BY <1>5, <2>5, <3>4 DEF UnicodeAt
    <3> QED BY <2>5, <3>2, <3>5 DEF ScanCase
  <2> QED BY <2>2, <2>3, <2>4, <2>5
<1> QED BY <1>2, <1>3, <1>4, <1>5

\* The loop finds a quote or a fault.
LEMMA ScanFound ==
  ASSUME NEW m, NEW n \in Nat, NEW p, NEW g, Scans(m, n, p, g)
  PROVE  \A q \in Nat : g[q].err = "NONE" =>
           \E r \in q .. n : m[r] = DoubleQuote /\ g[q] = Token("s", p + 1, r, r + 1)
<1> DEFINE Good(q) == g[q].err = "NONE" =>
                        \E r \in q .. n : m[r] = DoubleQuote /\ g[q] = Token("s", p + 1, r, r + 1)
           S == {d \in Nat : \A q \in Nat : q + d > n => Good(q)}
<1>1. ASSUME NEW q \in Nat, q <= n => Good(q + 1) /\ Good(q + 2) /\ Good(q + 6)
      PROVE  Good(q)
  <2> SUFFICES ASSUME g[q].err = "NONE"
               PROVE  \E r \in q .. n : m[r] = DoubleQuote /\ g[q] = Token("s", p + 1, r, r + 1)
    OBVIOUS
  <2>1. \A t, e, x : e # "NONE" => g[q] # Fault(t, e, x)
    BY DEF Fault
  <2>2. \/ q <= n /\ m[q] = DoubleQuote /\ g[q] = Token("s", p + 1, q, q + 1)
        \/ q <= n /\ g[q] = g[q + 1]
        \/ q < n /\ g[q] = g[q + 2]
        \/ q + 5 <= n /\ g[q] = g[q + 6]
    <3>1. ScanCase(m, n, p, g, q)
      BY ScanCases
    <3> QED BY <2>1, <3>1 DEF ScanCase
  <2>3. CASE q <= n /\ m[q] = DoubleQuote /\ g[q] = Token("s", p + 1, q, q + 1)
    BY <2>3
  <2>4. CASE q <= n /\ g[q] = g[q + 1]
    <3>1. PICK r \in q + 1 .. n : m[r] = DoubleQuote /\ g[q + 1] = Token("s", p + 1, r, r + 1)
      BY <1>1, <2>4
    <3> QED BY <2>4, <3>1
  <2>5. CASE q < n /\ g[q] = g[q + 2]
    <3>1. PICK r \in q + 2 .. n : m[r] = DoubleQuote /\ g[q + 2] = Token("s", p + 1, r, r + 1)
      BY <1>1, <2>5
    <3> QED BY <2>5, <3>1
  <2>6. CASE q + 5 <= n /\ g[q] = g[q + 6]
    <3>1. PICK r \in q + 6 .. n : m[r] = DoubleQuote /\ g[q + 6] = Token("s", p + 1, r, r + 1)
      BY <1>1, <2>6
    <3> QED BY <2>6, <3>1
  <2> QED BY <2>2, <2>3, <2>4, <2>5, <2>6
<1> HIDE DEF Good
<1>2. 0 \in S
  <2>1. \A q \in Nat : q > n => Good(q)
    BY <1>1
  <2> QED BY <2>1
<1>3. ASSUME NEW d \in Nat, d \in S PROVE d + 1 \in S
  <2>1. \A q \in Nat : q + d > n => Good(q)
    BY <1>3
  <2>2. ASSUME NEW q \in Nat, q + (d + 1) > n PROVE Good(q)
    <3>1. Good(q + 1) /\ Good(q + 2) /\ Good(q + 6)
      BY <2>1, <2>2
    <3> QED BY <1>1, <3>1
  <2> QED BY <2>2
<1> HIDE DEF S
<1>4. n + 1 \in S
  BY <1>2, <1>3, SetInduction
<1>5. ASSUME NEW q \in Nat PROVE Good(q)
  <2>1. q + (n + 1) > n
    OBVIOUS
  <2> QED BY <1>4, <2>1 DEF S
<1> QED BY <1>5 DEF Good

\* A token determines where it ends.
LEMMA TokenEnds ==
  ASSUME NEW t, NEW x, NEW a, NEW b, Token(t, x, a, a + 1) = Token(t, x, b, b + 1)
  PROVE  a = b
BY DEF Token

\* The bytes of s, from p + 1 on.
Inside(m, s, p, r) == \A i \in 1 .. r - p - 1 : s[i] = m[p + i]

\* A char of the string is a char of the text.
LEMMA InsideChars ==
  ASSUME NEW m, NEW s, NEW p \in Nat, NEW r \in Nat, Inside(m, s, p, r), NEW i \in Nat \ {0},
         p + i < r
  PROVE  /\ PlainAt(s, i) <=> PlainAt(m, p + i)
         /\ p + i + 1 < r => (ShortAt(s, i) <=> ShortAt(m, p + i))
         /\ p + i + 5 < r => (UnicodeAt(s, i) <=> UnicodeAt(m, p + i))
<1>1. s[i] = m[p + i]
  BY DEF Inside
<1>2. p + i + 1 < r => s[i + 1] = m[(p + i) + 1]
  <2>1. p + i + 1 < r => i + 1 \in 1 .. r - p - 1 /\ p + (i + 1) = (p + i) + 1
    OBVIOUS
  <2> QED BY <2>1 DEF Inside
<1>3. ASSUME p + i + 5 < r
      PROVE  (\A k \in i + 2 .. i + 5 : s[k] \in Hexadecimal)
               <=> (\A k \in (p + i) + 2 .. (p + i) + 5 : m[k] \in Hexadecimal)
  <2>1. \A k \in i + 2 .. i + 5 : k \in 1 .. r - p - 1 /\ p + k \in (p + i) + 2 .. (p + i) + 5
    BY <1>3
  <2>2. \A k \in (p + i) + 2 .. (p + i) + 5 : k - p \in i + 2 .. i + 5 /\ p + (k - p) = k
    BY <1>3
  <2>3. ASSUME \A k \in i + 2 .. i + 5 : s[k] \in Hexadecimal,
               NEW k \in (p + i) + 2 .. (p + i) + 5
        PROVE  m[k] \in Hexadecimal
    <3>1. k - p \in i + 2 .. i + 5 /\ k - p \in 1 .. r - p - 1 /\ p + (k - p) = k
      BY <2>1, <2>2
    <3>2. s[k - p] = m[p + (k - p)]
      BY <3>1 DEF Inside
    <3> QED BY <2>3, <3>1, <3>2
  <2>4. ASSUME \A k \in (p + i) + 2 .. (p + i) + 5 : m[k] \in Hexadecimal,
               NEW k \in i + 2 .. i + 5
        PROVE  s[k] \in Hexadecimal
    <3>1. s[k] = m[p + k]
      BY <2>1 DEF Inside
    <3> QED BY <2>1, <2>4, <3>1
  <2> QED BY <2>3, <2>4
<1> QED BY <1>1, <1>2, <1>3 DEF PlainAt, ShortAt, UnicodeAt

\* A string that the loop has taken consists of chars.
LEMMA TakenIsChars ==
  ASSUME NEW m, NEW n \in Nat, NEW p \in Nat, NEW g, Scans(m, n, p, g), NEW r \in p + 1 .. n,
         NEW s \in Seq(STRING), Len(s) = r - p - 1, Inside(m, s, p, r),
         g[p + 1] = Token("s", p + 1, r, r + 1)
  PROVE  Reference!AreChars(s)
<1>1. PICK f : /\ \A i \in 1 .. Len(s) + 1 : f[i] <=> CharsGoOn(s, f, i)
               /\ Reference!AreChars(s) <=> f[1]
  BY CharsRule
<1> DEFINE T == Token("s", p + 1, r, r + 1)
           Good(i) == g[p + i] = T => f[i]
           S == {d \in Nat : \A i \in 1 .. r - p : i + d >= r - p => Good(i)}
<1>2. ASSUME NEW q \in Nat, g[q] = T PROVE q <= r
  <2>1. g[q].err = "NONE"
    BY <1>2 DEF Token
  <2>2. PICK x \in q .. n : m[x] = DoubleQuote /\ g[q] = Token("s", p + 1, x, x + 1)
    BY <2>1, ScanFound
  <2>3. x = r
    BY <1>2, <2>2, TokenEnds
  <2> QED BY <2>3
<1>3. ASSUME NEW i \in 1 .. r - p,
             \A j \in i + 1 .. r - p : Good(j)
      PROVE  Good(i)
  <2> SUFFICES ASSUME g[p + i] = T PROVE f[i]
    OBVIOUS
  <2> DEFINE q == p + i
  <2>0. q \in Nat /\ q <= r /\ q <= n /\ i \in Nat \ {0} /\ i \in 1 .. Len(s) + 1
    OBVIOUS
  <2> HIDE DEF q
  <2>1. f[i] <=> CharsGoOn(s, f, i)
    BY <1>1, <2>0
  <2>2. CASE i = r - p
    BY <2>1, <2>2 DEF CharsGoOn
  <2>3. CASE i < r - p
    <3>1. q < r
      BY <2>3 DEF q
    <3>2. g[q] # Token("s", p + 1, q, q + 1)
      BY <3>1, TokenEnds DEF q
    <3>3. \A t, e, x : e # "NONE" => g[q] # Fault(t, e, x)
      BY DEF Fault, Token, q
    <3>4. \/ PlainAt(m, q) /\ g[q] = g[q + 1]
          \/ ShortAt(m, q) /\ g[q] = g[q + 2]
          \/ UnicodeAt(m, q) /\ g[q] = g[q + 6]
      <4>1. ScanCase(m, n, p, g, q)
        BY <2>0, ScanCases
      <4> QED BY <2>0, <3>2, <3>3, <4>1 DEF ScanCase
    <3>5. p + i < r /\ q + 1 = p + (i + 1) /\ q + 2 = p + (i + 2) /\ q + 6 = p + (i + 6)
      BY <2>3 DEF q
    <3>6. /\ PlainAt(s, i) <=> PlainAt(m, q)
          /\ p + i + 1 < r => (ShortAt(s, i) <=> ShortAt(m, q))
          /\ p + i + 5 < r => (UnicodeAt(s, i) <=> UnicodeAt(m, q))
      <4>1. r \in Nat /\ p + i < r
        BY <3>5
      <4>2. /\ PlainAt(s, i) <=> PlainAt(m, p + i)
            /\ p + i + 1 < r => (ShortAt(s, i) <=> ShortAt(m, p + i))
            /\ p + i + 5 < r => (UnicodeAt(s, i) <=> UnicodeAt(m, p + i))
        BY <2>0, <4>1, InsideChars
      <4> QED BY <4>2 DEF q
    <3>7. CASE PlainAt(m, q) /\ g[q] = g[q + 1]
      <4>1. i + 1 \in i + 1 .. r - p /\ i <= Len(s)
        BY <2>3
      <4>2. f[i + 1]
        BY <1>3, <3>5, <3>7, <4>1 DEF q
      <4> QED BY <2>1, <3>6, <3>7, <4>1, <4>2 DEF CharsGoOn
    <3>8. CASE ShortAt(m, q) /\ g[q] = g[q + 2]
      <4>1. q + 2 <= r
        BY <1>2, <2>0, <3>8 DEF q
      <4>2. i + 2 \in i + 1 .. r - p /\ i + 1 <= Len(s) /\ p + i + 1 < r
        BY <4>1 DEF q
      <4>3. f[i + 2]
        BY <1>3, <3>5, <3>8, <4>2 DEF q
      <4> QED BY <2>1, <3>6, <3>8, <4>2, <4>3 DEF CharsGoOn
    <3>9. CASE UnicodeAt(m, q) /\ g[q] = g[q + 6]
      <4>1. q + 6 <= r
        BY <1>2, <2>0, <3>9 DEF q
      <4>2. i + 6 \in i + 1 .. r - p /\ i + 5 <= Len(s) /\ p + i + 5 < r
        BY <4>1 DEF q
      <4>3. f[i + 6]
        BY <1>3, <3>5, <3>9, <4>2 DEF q
      <4> QED BY <2>1, <3>6, <3>9, <4>2, <4>3 DEF CharsGoOn
    <3> QED BY <3>4, <3>7, <3>8, <3>9
  <2> QED BY <2>2, <2>3
<1> HIDE DEF Good
<1>4. 0 \in S
  <2>1. ASSUME NEW i \in 1 .. r - p, i >= r - p PROVE Good(i)
    <3>1. \A j \in i + 1 .. r - p : FALSE
      BY <2>1
    <3> QED BY <1>3, <3>1
  <2> QED BY <2>1
<1>5. ASSUME NEW d \in Nat, d \in S PROVE d + 1 \in S
  <2>1. ASSUME NEW i \in 1 .. r - p, i + (d + 1) >= r - p PROVE Good(i)
    <3>1. \A j \in i + 1 .. r - p : j \in 1 .. r - p /\ j + d >= r - p
      BY <2>1
    <3>2. \A j \in i + 1 .. r - p : Good(j)
      BY <1>5, <3>1
    <3> QED BY <1>3, <3>2
  <2> QED BY <2>1
<1>6. r - p \in Nat /\ 1 \in 1 .. r - p /\ 1 + (r - p) >= r - p
  OBVIOUS
<1> HIDE DEF S
<1>7. r - p \in S
  BY <1>4, <1>5, <1>6, SetInduction
<1>8. Good(1)
  BY <1>6, <1>7 DEF S
<1> QED BY <1>1, <1>8 DEF Good

\* Where chars and a quote are, the loop takes a string.
LEMMA CharsAreTaken ==
  ASSUME NEW m, NEW n \in Nat, NEW p \in Nat, NEW g, Scans(m, n, p, g), NEW r \in p + 1 .. n,
         NEW s \in Seq(STRING), Len(s) = r - p - 1, Inside(m, s, p, r), m[r] = DoubleQuote,
         Reference!AreChars(s)
  PROVE  g[p + 1] = Token("s", p + 1, r, r + 1)
<1>1. PICK f : /\ \A i \in 1 .. Len(s) + 1 : f[i] <=> CharsGoOn(s, f, i)
               /\ Reference!AreChars(s) <=> f[1]
  BY CharsRule
<1> DEFINE T == Token("s", p + 1, r, r + 1)
           Good(i) == f[i] => g[p + i] = T
           S == {d \in Nat : \A i \in 1 .. r - p : i + d >= r - p => Good(i)}
<1>3. ASSUME NEW i \in 1 .. r - p,
             \A j \in i + 1 .. r - p : Good(j)
      PROVE  Good(i)
  <2> SUFFICES ASSUME f[i] PROVE g[p + i] = T
    OBVIOUS
  <2> DEFINE q == p + i
  <2>0. q \in Nat /\ q <= r /\ q <= n /\ i \in Nat \ {0} /\ i \in 1 .. Len(s) + 1
    OBVIOUS
  <2> HIDE DEF q
  <2>1. CharsGoOn(s, f, i)
    BY <1>1, <2>0
  <2>2. CASE i = r - p
    <3>1. q = r
      BY <2>2 DEF q
    <3>2. g[q] = Token("s", p + 1, q, q + 1)
      BY <2>0, <3>1, ScanTurn
    <3> QED BY <3>1, <3>2 DEF q
  <2>3. CASE i < r - p
    <3>1. i <= Len(s) /\ p + i < r /\ i # Len(s) + 1
      BY <2>3
    <3>5. q + 1 = p + (i + 1) /\ q + 2 = p + (i + 2) /\ q + 6 = p + (i + 6)
      BY DEF q
    <3>6. /\ PlainAt(s, i) <=> PlainAt(m, q)
          /\ p + i + 1 < r => (ShortAt(s, i) <=> ShortAt(m, q))
          /\ p + i + 5 < r => (UnicodeAt(s, i) <=> UnicodeAt(m, q))
      <4>1. r \in Nat /\ p + i < r
        BY <3>1
      <4>2. /\ PlainAt(s, i) <=> PlainAt(m, p + i)
            /\ p + i + 1 < r => (ShortAt(s, i) <=> ShortAt(m, p + i))
            /\ p + i + 5 < r => (UnicodeAt(s, i) <=> UnicodeAt(m, p + i))
        BY <2>0, <4>1, InsideChars
      <4> QED BY <4>2 DEF q
    <3>7. CASE PlainAt(s, i) /\ f[i + 1]
      <4>1. i + 1 \in i + 1 .. r - p
        BY <2>3
      <4>2. g[q + 1] = T
        BY <1>3, <3>5, <3>7, <4>1
      <4>3. g[q] = g[q + 1]
        BY <2>0, <3>6, <3>7, ScanTurn
      <4> QED BY <4>2, <4>3 DEF q
    <3>8. CASE i + 1 <= Len(s) /\ ShortAt(s, i) /\ f[i + 2]
      <4>1. i + 2 \in i + 1 .. r - p /\ p + i + 1 < r /\ q < n
        BY <3>8 DEF q
      <4>2. g[q + 2] = T
        BY <1>3, <3>5, <3>8, <4>1
      <4>3. g[q] = g[q + 2]
        BY <2>0, <3>6, <3>8, <4>1, ScanTurn
      <4> QED BY <4>2, <4>3 DEF q
    <3>9. CASE i + 5 <= Len(s) /\ UnicodeAt(s, i) /\ f[i + 6]
      <4>1. i + 6 \in i + 1 .. r - p /\ p + i + 5 < r /\ q + 5 <= n
        BY <3>9 DEF q
      <4>2. g[q + 6] = T
        BY <1>3, <3>5, <3>9, <4>1
      <4>3. g[q] = g[q + 6]
        BY <2>0, <3>6, <3>9, <4>1, ScanTurn
      <4> QED BY <4>2, <4>3 DEF q
    <3> QED BY <2>1, <3>1, <3>7, <3>8, <3>9 DEF CharsGoOn
  <2> QED BY <2>2, <2>3
<1> HIDE DEF Good
<1>4. 0 \in S
  <2>1. ASSUME NEW i \in 1 .. r - p, i >= r - p PROVE Good(i)
    <3>1. \A j \in i + 1 .. r - p : FALSE
      BY <2>1
    <3> QED BY <1>3, <3>1
  <2> QED BY <2>1
<1>5. ASSUME NEW d \in Nat, d \in S PROVE d + 1 \in S
  <2>1. ASSUME NEW i \in 1 .. r - p, i + (d + 1) >= r - p PROVE Good(i)
    <3>1. \A j \in i + 1 .. r - p : j \in 1 .. r - p /\ j + d >= r - p
      BY <2>1
    <3>2. \A j \in i + 1 .. r - p : Good(j)
      BY <1>5, <3>1
    <3> QED BY <1>3, <3>2
  <2> QED BY <2>1
<1>6. r - p \in Nat /\ 1 \in 1 .. r - p /\ 1 + (r - p) >= r - p
  OBVIOUS
<1> HIDE DEF S
<1>7. r - p \in S
  BY <1>4, <1>5, <1>6, SetInduction
<1>8. Good(1)
  BY <1>6, <1>7 DEF S
<1> QED BY <1>1, <1>8 DEF Good

\* A string of the reference inside a text, by positions in that text.
LEMMA StringInside ==
  ASSUME NEW m \in Seq(STRING), NEW p \in Nat \ {0}, NEW r \in Nat, r <= Len(m), p <= r
  PROVE  Reference!IsString(SubSeq(m, p, r))
           <=> /\ p < r /\ m[p] = DoubleQuote /\ m[r] = DoubleQuote
               /\ Reference!AreChars(SubSeq(m, p + 1, r - 1))
<1> DEFINE s == SubSeq(m, p, r)
           l == r - p + 1
           t == SubSeq(m, p + 1, r - 1)
           u == SubSeq(s, 2, l - 1)
<1>1. s \in Seq(STRING) /\ Len(s) = l /\ \A i \in 1 .. l : s[i] = m[p + i - 1]
  BY SubSeqFacts
<1>2. l \in Nat \ {0} /\ (l >= 2 <=> p < r)
  OBVIOUS
<1>3. s[1] = m[p] /\ s[l] = m[r]
  <2>1. 1 \in 1 .. l /\ l \in 1 .. l /\ p + 1 - 1 = p /\ p + l - 1 = r
    BY <1>2
  <2> HIDE DEF s, l
  <2> QED BY <1>1, <2>1
<1>4. p < r => u = t
  <2> SUFFICES ASSUME p < r PROVE u = t
    OBVIOUS
  <2>1. p + 1 \in Nat \ {0} /\ r - 1 \in Nat /\ r - 1 <= Len(m) /\ p + 1 <= (r - 1) + 1
    OBVIOUS
  <2> DEFINE a == p + 1
             b == r - 1
             d == l - 1
  <2>2. a \in Nat \ {0} /\ b \in Nat /\ b <= Len(m) /\ a <= b + 1
    BY <2>1
  <2>3. d \in Nat /\ 2 \in Nat \ {0} /\ d <= l /\ 2 <= d + 1 /\ d - 2 + 1 = b - a + 1
    BY <1>2
  <2>4. /\ t \in Seq(STRING) /\ Len(t) = b - a + 1
        /\ \A i \in 1 .. b - a + 1 : t[i] = m[a + i - 1]
    <3> HIDE DEF a, b
    <3>1. /\ SubSeq(m, a, b) \in Seq(STRING) /\ Len(SubSeq(m, a, b)) = b - a + 1
          /\ \A i \in 1 .. b - a + 1 : SubSeq(m, a, b)[i] = m[a + i - 1]
      BY <2>2, SubSeqFacts
    <3> QED BY <3>1 DEF a, b
  <2>5. /\ u \in Seq(STRING) /\ Len(u) = d - 2 + 1
        /\ \A i \in 1 .. d - 2 + 1 : u[i] = s[2 + i - 1]
    <3> HIDE DEF d, s, l
    <3>1. d <= Len(s)
      BY <1>1, <2>3
    <3>2. /\ SubSeq(s, 2, d) \in Seq(STRING) /\ Len(SubSeq(s, 2, d)) = d - 2 + 1
          /\ \A i \in 1 .. d - 2 + 1 : SubSeq(s, 2, d)[i] = s[2 + i - 1]
      BY <1>1, <2>3, <3>1, SubSeqFacts
    <3> QED BY <3>2 DEF d
  <2>6. ASSUME NEW i \in 1 .. b - a + 1 PROVE u[i] = t[i]
    <3>1. u[i] = s[i + 1]
      BY <2>3, <2>5
    <3>2. i + 1 \in 1 .. l /\ p + (i + 1) - 1 = p + i /\ a + i - 1 = p + i
      OBVIOUS
    <3>3. s[i + 1] = m[p + i]
      <4> HIDE DEF s, l, a, b
      <4> QED BY <1>1, <3>2
    <3>4. t[i] = m[p + i]
      <4> HIDE DEF t
      <4> QED BY <2>4, <3>2
    <3> QED BY <3>1, <3>3, <3>4
  <2> HIDE DEF u, t, a, b, d
  <2> QED BY <2>3, <2>4, <2>5, <2>6, SequencesAlike
<1>5. Reference!IsString(s) <=> /\ Len(s) >= 2 /\ s[1] = DoubleQuote /\ s[Len(s)] = DoubleQuote
                                /\ Reference!AreChars(SubSeq(s, 2, Len(s) - 1))
  BY Zenon DEF Reference!IsString, DoubleQuote
<1> HIDE DEF s, t, l
<1>6. Reference!IsString(s) <=> /\ l >= 2 /\ m[p] = DoubleQuote /\ m[r] = DoubleQuote
                                /\ Reference!AreChars(u)
  BY <1>1, <1>3, <1>5, Zenon
<1> HIDE DEF u
<1> QED BY <1>2, <1>4, <1>6, Zenon DEF s, t

\* What stands between two quotes.
LEMMA InsideIs ==
  ASSUME NEW m \in Seq(STRING), NEW p \in Nat \ {0}, NEW r \in Nat, r <= Len(m), p < r
  PROVE  LET s == SubSeq(m, p + 1, r - 1) IN
         s \in Seq(STRING) /\ Len(s) = r - p - 1 /\ Inside(m, s, p, r)
<1> DEFINE a == p + 1
           b == r - 1
           s == SubSeq(m, a, b)
<1>1. a \in Nat \ {0} /\ b \in Nat /\ b <= Len(m) /\ a <= b + 1 /\ b - a + 1 = r - p - 1
  OBVIOUS
<1>2. s \in Seq(STRING) /\ Len(s) = b - a + 1 /\ \A i \in 1 .. b - a + 1 : s[i] = m[a + i - 1]
  <2> HIDE DEF a, b
  <2> QED BY <1>1, SubSeqFacts
<1>3. \A i \in 1 .. r - p - 1 : a + i - 1 = p + i
  OBVIOUS
<1> HIDE DEF s
<1>4. Inside(m, s, p, r)
  BY <1>1, <1>2, <1>3 DEF Inside
<1>5. s = SubSeq(m, p + 1, r - 1)
  BY DEF s
<1> QED BY <1>1, <1>2, <1>4, <1>5

\* What the loop takes is a string, and the other way round.
LEMMA StringFound ==
  ASSUME NEW m \in Seq(STRING), NEW n \in Nat, n <= Len(m), NEW p \in 1 .. n,
         m[p] = DoubleQuote, NextString(m, n, p).err = "NONE"
  PROVE  \E r \in p + 1 .. n : /\ NextString(m, n, p) = Token("s", p + 1, r, r + 1)
                               /\ Reference!IsString(SubSeq(m, p, r))
<1>1. PICK g : Scans(m, n, p, g) /\ NextString(m, n, p) = g[p + 1]
  BY StringRule
<1>2. p + 1 \in Nat /\ p \in Nat \ {0}
  OBVIOUS
<1>3. PICK r \in p + 1 .. n : m[r] = DoubleQuote /\ g[p + 1] = Token("s", p + 1, r, r + 1)
  BY <1>1, <1>2, ScanFound
<1> DEFINE s == SubSeq(m, p + 1, r - 1)
<1>4. r \in Nat /\ r <= Len(m) /\ p < r /\ p <= r
  OBVIOUS
<1>5. s \in Seq(STRING) /\ Len(s) = r - p - 1 /\ Inside(m, s, p, r)
  BY <1>2, <1>4, InsideIs
<1> HIDE DEF s
<1>6. Reference!AreChars(s)
  BY <1>1, <1>2, <1>3, <1>5, TakenIsChars
<1>7. Reference!IsString(SubSeq(m, p, r))
  BY <1>2, <1>3, <1>4, <1>6, StringInside DEF s
<1> QED BY <1>1, <1>3, <1>7

\* A string of the reference is found, to its closing quote.
LEMMA StringLexed ==
  ASSUME NEW m \in Seq(STRING), NEW n \in Nat, n <= Len(m), NEW p \in 1 .. n, NEW r \in p .. n,
         Reference!IsString(SubSeq(m, p, r))
  PROVE  NextString(m, n, p) = Token("s", p + 1, r, r + 1)
<1>1. PICK g : Scans(m, n, p, g) /\ NextString(m, n, p) = g[p + 1]
  BY StringRule
<1>2. p \in Nat /\ p \in Nat \ {0} /\ r \in Nat /\ r <= Len(m) /\ p <= r
  OBVIOUS
<1> DEFINE s == SubSeq(m, p + 1, r - 1)
<1>3. p < r /\ m[r] = DoubleQuote /\ Reference!AreChars(s)
  BY <1>2, StringInside
<1>4. s \in Seq(STRING) /\ Len(s) = r - p - 1 /\ Inside(m, s, p, r)
  BY <1>2, <1>3, InsideIs
<1>5. r \in p + 1 .. n
  BY <1>3
<1> HIDE DEF s
<1> QED BY <1>1, <1>2, <1>3, <1>4, <1>5, CharsAreTaken

\* What closes a string that is cut.
Closings ==
  {<<DoubleQuote>>, <<"n", DoubleQuote>>, <<"0", DoubleQuote>>, <<"0", "0", DoubleQuote>>,
   <<"0", "0", "0", DoubleQuote>>, <<"0", "0", "0", "0", DoubleQuote>>}

\* k zeros and a quote.
LEMMA Zeros ==
  ASSUME NEW k \in 1 .. 4
  PROVE  \E c \in Closings : /\ Len(c) = k + 1 /\ c[k + 1] = DoubleQuote
                             /\ \A i \in 1 .. k : c[i] = "0"
<1>1. CASE k = 1
  <2> DEFINE c == <<"0", DoubleQuote>>
  <2>1. c \in Closings /\ Len(c) = k + 1 /\ c[k + 1] = DoubleQuote /\ \A i \in 1 .. k : c[i] = "0"
    BY <1>1 DEF Closings
  <2> QED BY <2>1
<1>2. CASE k = 2
  <2> DEFINE c == <<"0", "0", DoubleQuote>>
  <2>1. c \in Closings /\ Len(c) = k + 1 /\ c[k + 1] = DoubleQuote /\ \A i \in 1 .. k : c[i] = "0"
    BY <1>2 DEF Closings
  <2> QED BY <2>1
<1>3. CASE k = 3
  <2> DEFINE c == <<"0", "0", "0", DoubleQuote>>
  <2>1. c \in Closings /\ Len(c) = k + 1 /\ c[k + 1] = DoubleQuote /\ \A i \in 1 .. k : c[i] = "0"
    BY <1>3 DEF Closings
  <2> QED BY <2>1
<1>4. CASE k = 4
  <2> DEFINE c == <<"0", "0", "0", "0", DoubleQuote>>
  <2>1. c \in Closings /\ Len(c) = k + 1 /\ c[k + 1] = DoubleQuote /\ \A i \in 1 .. k : c[i] = "0"
    BY <1>4 DEF Closings
  <2> QED BY <2>1
<1> QED BY <1>1, <1>2, <1>3, <1>4

\* What closes a string is among the completions of the reference.
LEMMA ClosingsAreTexts ==
  ASSUME NEW c \in Closings
  PROVE  c \in Reference!Completions /\ c \in Seq(STRING) /\ Len(c) \in Nat /\ Len(c) >= 1
<1>1. c \in Reference!Completions
  <2>1. Closings = Reference!StringEnds
    BY Zenon DEF Closings, Reference!StringEnds, DoubleQuote
  <2> QED BY <2>1, Zenon DEF Reference!Completions
<1>2. c \in Seq(STRING) /\ Len(c) \in Nat
  BY <1>1, CompletionsAreTexts
<1>3. Len(c) >= 1
  BY DEF Closings
<1> QED BY <1>1, <1>2, <1>3

\* A string that the end of the input cuts is closed by one of them.
LEMMA StringCompleted ==
  ASSUME NEW m \in Seq(STRING), NEW n \in Nat, n = Len(m), NEW p \in 1 .. n,
         NextString(m, n, p).type = "end"
  PROVE  \E c \in Closings : NextString(m \o c, n + Len(c), p).err = "NONE"
<1>1. PICK g : Scans(m, n, p, g) /\ NextString(m, n, p) = g[p + 1]
  BY StringRule
<1> DEFINE N(c) == n + Len(c)
           w(c) == m \o c
           Loop(c, h) == Scans(w(c), N(c), p, h) /\ NextString(w(c), N(c), p) = h[p + 1]
           H(c) == CHOOSE h : Loop(c, h)
<1>2. ASSUME NEW c \in Closings
      PROVE  /\ N(c) \in Nat /\ N(c) > n
             /\ \A i \in 1 .. n : w(c)[i] = m[i]
             /\ \A i \in 1 .. Len(c) : w(c)[n + i] = c[i]
  <2>1. c \in Seq(STRING) /\ Len(c) >= 1 /\ Len(c) \in Nat
    BY ClosingsAreTexts
  <2> QED BY <2>1
<1>3. ASSUME NEW c \in Closings PROVE Loop(c, H(c))
  <2>1. \E h : Loop(c, h)
    BY <1>2, StringRule
  <2> HIDE DEF Loop
  <2> QED BY <2>1
<1> HIDE DEF H, N, w
<1> DEFINE Good(q) == g[q].type = "end" => \E c \in Closings : H(c)[q].err = "NONE"
           S == {d \in Nat : \A q \in 1 .. n + 1 : q + d > n => Good(q)}
<1>4. \A t, x, a, b : Token(t, x, a, b).err = "NONE" /\ Token(t, x, a, b).type = t
  BY DEF Token
\* The string is closed at the last byte.
<1>5. ASSUME NEW c \in Closings, NEW q \in Nat, q = N(c), w(c)[q] = DoubleQuote
      PROVE  H(c)[q].err = "NONE"
  <2>1. Scans(w(c), N(c), p, H(c))
    BY <1>3
  <2>2. H(c)[q] = Token("s", p + 1, q, q + 1)
    BY <1>2, <1>5, <2>1, ScanTurn
  <2> QED BY <1>4, <2>2
<1>6. ASSUME NEW q \in 1 .. n + 1, \A r \in q + 1 .. n + 1 : Good(r)
      PROVE  Good(q)
  <2> SUFFICES ASSUME g[q].type = "end" PROVE \E c \in Closings : H(c)[q].err = "NONE"
    OBVIOUS
  <2>0. q \in Nat
    OBVIOUS
  <2>1. ScanCase(m, n, p, g, q)
    BY <1>1, <2>0, ScanCases
  <2>2. CASE q = n + 1
    <3>1. PICK c \in Closings : Len(c) = 1 /\ c[1] = DoubleQuote
      <4> DEFINE d == <<DoubleQuote>>
      <4>1. d \in Closings /\ Len(d) = 1 /\ d[1] = DoubleQuote
        BY DEF Closings
      <4> QED BY <4>1
    <3>2. q = N(c)
      BY <2>2, <3>1 DEF N
    <3>3. w(c)[q] = DoubleQuote
      <4>1. 1 \in 1 .. Len(c)
        BY <3>1
      <4>2. w(c)[n + 1] = c[1]
        BY <1>2, <4>1
      <4> QED BY <2>2, <3>1, <4>2
    <3> QED BY <1>5, <2>0, <3>1, <3>2, <3>3
  <2>3. CASE q <= n /\ m[q] = DoubleQuote /\ g[q] = Token("s", p + 1, q, q + 1)
    BY <1>4, <2>3
  <2>4. CASE q <= n /\ PlainAt(m, q) /\ g[q] = g[q + 1]
    <3>1. q + 1 \in q + 1 .. n + 1
      BY <2>4
    <3>2. PICK c \in Closings : H(c)[q + 1].err = "NONE"
      BY <1>6, <2>4, <3>1
    <3>3. q <= N(c) /\ w(c)[q] = m[q] /\ N(c) \in Nat
      BY <1>2, <2>4
    <3>4. PlainAt(w(c), q)
      BY <2>4, <3>3 DEF PlainAt
    <3>5. Scans(w(c), N(c), p, H(c))
      BY <1>3
    <3>6. H(c)[q] = H(c)[q + 1]
      BY <2>0, <3>3, <3>4, <3>5, ScanTurn
    <3> QED BY <3>2, <3>6
  <2>5. CASE q = n /\ m[q] = Backslash
    <3>1. PICK c \in Closings : Len(c) = 2 /\ c[1] = "n" /\ c[2] = DoubleQuote
      <4> DEFINE d == <<"n", DoubleQuote>>
      <4>1. d \in Closings /\ Len(d) = 2 /\ d[1] = "n" /\ d[2] = DoubleQuote
        BY DEF Closings
      <4> QED BY <4>1
    <3>2. w(c)[q] = m[q] /\ w(c)[n + 1] = "n" /\ w(c)[n + 2] = DoubleQuote
      <4>1. 1 \in 1 .. Len(c) /\ 2 \in 1 .. Len(c) /\ q \in 1 .. n
        BY <2>5, <3>1
      <4> QED BY <1>2, <3>1, <4>1
    <3>3. N(c) = q + 2 /\ q + 2 \in Nat /\ q < N(c) /\ q <= N(c)
      BY <2>5, <3>1 DEF N
    <3>4. H(c)[q + 2].err = "NONE"
      BY <1>5, <2>5, <3>1, <3>2, <3>3
    <3>5. ShortAt(w(c), q)
      <4>1. "n" \in EscapeLetters
        BY Zenon DEF EscapeLetters
      <4> QED BY <2>5, <3>2, <4>1 DEF ShortAt
    <3>6. Scans(w(c), N(c), p, H(c)) /\ N(c) \in Nat
      BY <1>2, <1>3, <3>1
    <3>7. q < N(c) /\ q <= N(c)
      BY <3>3
    <3>8. H(c)[q] = H(c)[q + 2]
      <4>1. Scans(w(c), N(c), p, H(c))
        BY <3>6
      <4>2. q < N(c) /\ q <= N(c) /\ N(c) \in Nat /\ q \in Nat
        BY <2>0, <3>6, <3>7
      <4> HIDE DEF Loop
      <4>3. ShortAt(w(c), q) /\ q < N(c) => H(c)[q] = H(c)[q + 2]
        BY <3>2, <4>1, <4>2, ScanTurn
      <4> QED BY <3>5, <3>7, <4>3
    <3> QED BY <3>1, <3>4, <3>8
  <2>6. CASE q < n /\ ShortAt(m, q) /\ g[q] = g[q + 2]
    <3>1. q + 2 \in q + 1 .. n + 1
      BY <2>6
    <3>2. PICK c \in Closings : H(c)[q + 2].err = "NONE"
      BY <1>6, <2>6, <3>1
    <3>3. q <= N(c) /\ q < N(c) /\ w(c)[q] = m[q] /\ w(c)[q + 1] = m[q + 1] /\ N(c) \in Nat
      BY <1>2, <2>6
    <3>4. ShortAt(w(c), q)
      BY <2>6, <3>3 DEF ShortAt
    <3>5. Scans(w(c), N(c), p, H(c))
      BY <1>3
    <3>6. H(c)[q] = H(c)[q + 2]
      BY <2>0, <3>3, <3>4, <3>5, ScanTurn
    <3> QED BY <3>2, <3>6
  <2>7. CASE q < n /\ m[q] = Backslash /\ g[q] = Fault("escape", "TYPE_NOT_MATCH", p + 1)
    BY <2>7 DEF Fault
  <2>8. CASE /\ q < n /\ m[q] = Backslash /\ m[q + 1] = "u" /\ q + 5 > n
             /\ \A i \in q + 2 .. n : m[i] \in Hexadecimal
    <3> DEFINE k == q + 5 - n
    <3>1. k \in 1 .. 4 /\ n + k = q + 5
      BY <2>8
    <3> HIDE DEF k
    <3>2. PICK c \in Closings : /\ Len(c) = k + 1 /\ c[k + 1] = DoubleQuote
                                /\ \A i \in 1 .. k : c[i] = "0"
      BY <3>1, Zeros
    <3>3. /\ N(c) = q + 6 /\ q + 6 \in Nat /\ q + 5 <= N(c) /\ q <= N(c) /\ N(c) \in Nat
      BY <3>1, <3>2 DEF N
    <3>4. w(c)[q] = m[q] /\ w(c)[q + 1] = m[q + 1]
      BY <1>2, <2>8
    <3>5. ASSUME NEW i \in q + 2 .. q + 5 PROVE w(c)[i] \in Hexadecimal
      <4>1. CASE i <= n
        <5>1. i \in 1 .. n /\ i \in q + 2 .. n
          BY <4>1
        <5> QED BY <1>2, <2>8, <5>1
      <4>2. CASE i > n
        <5>1. i - n \in 1 .. k /\ i - n \in 1 .. Len(c) /\ n + (i - n) = i
          BY <3>1, <3>2, <4>2
        <5>2. w(c)[n + (i - n)] = c[i - n]
          BY <1>2, <5>1
        <5> QED BY <3>2, <5>1, <5>2, ZeroIsHex
      <4> QED BY <4>1, <4>2
    <3>6. UnicodeAt(w(c), q)
      BY <2>8, <3>4, <3>5 DEF UnicodeAt
    <3>7. Scans(w(c), N(c), p, H(c))
      BY <1>3
    <3>8. H(c)[q] = H(c)[q + 6]
      <4>1. N(c) \in Nat /\ q <= N(c) /\ q + 5 <= N(c)
        BY <3>3
      <4> HIDE DEF Loop
      <4>3. UnicodeAt(w(c), q) /\ q + 5 <= N(c) => H(c)[q] = H(c)[q + 6]
        BY <2>0, <3>4, <3>7, <4>1, ScanTurn
      <4> QED BY <3>6, <4>1, <4>3
    <3>9. w(c)[q + 6] = DoubleQuote
      <4>1. k + 1 \in 1 .. Len(c) /\ n + (k + 1) = q + 6
        BY <3>1, <3>2
      <4>2. w(c)[n + (k + 1)] = c[k + 1]
        BY <1>2, <4>1
      <4> QED BY <3>2, <4>1, <4>2
    <3>10. H(c)[q + 6].err = "NONE"
      BY <1>5, <3>3, <3>9
    <3> QED BY <3>8, <3>10
  <2>9. CASE q + 5 <= n /\ UnicodeAt(m, q) /\ g[q] = g[q + 6]
    <3>1. q + 6 \in q + 1 .. n + 1
      BY <2>9
    <3>2. PICK c \in Closings : H(c)[q + 6].err = "NONE"
      BY <1>6, <2>9, <3>1
    <3>3. q <= N(c) /\ q + 5 <= N(c) /\ w(c)[q] = m[q] /\ w(c)[q + 1] = m[q + 1] /\ N(c) \in Nat
      BY <1>2, <2>9
    <3>4. \A i \in q + 2 .. q + 5 : w(c)[i] = m[i]
      BY <1>2, <2>9
    <3>5. UnicodeAt(w(c), q)
      BY <2>9, <3>3, <3>4 DEF UnicodeAt
    <3>6. Scans(w(c), N(c), p, H(c))
      BY <1>3
    <3>7. H(c)[q] = H(c)[q + 6]
      BY <2>0, <3>3, <3>5, <3>6, ScanTurn
    <3> QED BY <3>2, <3>7
  <2>10. q > n => q = n + 1
    OBVIOUS
  <2> QED BY <2>1, <2>2, <2>3, <2>4, <2>5, <2>6, <2>7, <2>8, <2>9, <2>10 DEF ScanCase
<1> HIDE DEF Good
<1>7. 0 \in S
  <2>1. ASSUME NEW q \in 1 .. n + 1, q > n PROVE Good(q)
    <3>1. \A r \in q + 1 .. n + 1 : FALSE
      BY <2>1
    <3> QED BY <1>6, <3>1
  <2> QED BY <2>1
<1>8. ASSUME NEW d \in Nat, d \in S PROVE d + 1 \in S
  <2>1. ASSUME NEW q \in 1 .. n + 1, q + (d + 1) > n PROVE Good(q)
    <3>1. \A r \in q + 1 .. n + 1 : r \in 1 .. n + 1 /\ r + d > n
      BY <2>1
    <3>2. \A r \in q + 1 .. n + 1 : Good(r)
      BY <1>8, <3>1
    <3> QED BY <1>6, <3>2
  <2> QED BY <2>1
<1> HIDE DEF S
<1>9. n \in S
  BY <1>7, <1>8, SetInduction
<1>10. Good(p + 1)
  <2>1. p + 1 \in 1 .. n + 1 /\ (p + 1) + n > n
    OBVIOUS
  <2> QED BY <1>9, <2>1 DEF S
<1>11. PICK c \in Closings : H(c)[p + 1].err = "NONE"
  BY <1>1, <1>10 DEF Good
<1>12. NextString(w(c), N(c), p) = H(c)[p + 1]
  BY <1>3
<1>13. NextString(w(c), N(c), p).err = "NONE"
  BY <1>11, <1>12
<1> QED BY <1>13 DEF w, N

-----------------------------------------------------------------------------
(* Outcomes, and keywords.                                                 *)

\* What is found is a token, or the input ended, or a byte is wrong.
Outcome(v) ==
  \/ v.err = "NONE"
  \/ v.err = "PARTIAL" /\ v.type = "end"
  \/ v.err \notin {"NONE", "PARTIAL"} /\ v.type \notin {"end", "0"}

\* Every result of the lexer is an outcome.
LEMMA FaultOutcome ==
  ASSUME NEW x
  PROVE  /\ Outcome(Fault("end", "PARTIAL", x)) /\ Outcome(Fault("escape", "TYPE_NOT_MATCH", x))
         /\ Outcome(Fault("spelling", "INVALID_JSON", x))
BY DEF Outcome, Fault

LEMMA TokenOutcome ==
  ASSUME NEW t, NEW x, NEW y, NEW z
  PROVE  Outcome(Token(t, x, y, z)) /\ Outcome(Reached(x))
BY DEF Outcome, Token, Reached

LEMMA StringOutcome ==
  ASSUME NEW m, NEW n \in Nat, NEW p \in Nat
  PROVE  Outcome(NextString(m, n, p))
<1>1. PICK g : Scans(m, n, p, g) /\ NextString(m, n, p) = g[p + 1]
  BY StringRule
<1> DEFINE S == {d \in Nat : \A q \in Nat : q + d > n => Outcome(g[q])}
<1>2. ASSUME NEW q \in Nat,
             q <= n => Outcome(g[q + 1]) /\ Outcome(g[q + 2]) /\ Outcome(g[q + 6])
      PROVE  Outcome(g[q])
  <2>1. ScanCase(m, n, p, g, q)
    BY <1>1, ScanCases
  <2>2. \/ g[q] = Fault("end", "PARTIAL", p + 1)
        \/ g[q] = Fault("escape", "TYPE_NOT_MATCH", p + 1)
        \/ g[q] = Token("s", p + 1, q, q + 1)
        \/ q <= n /\ g[q] \in {g[q + 1], g[q + 2], g[q + 6]}
    BY <2>1 DEF ScanCase
  <2> QED BY <1>2, <2>2, FaultOutcome, TokenOutcome
<1>3. 0 \in S
  BY <1>2
<1>4. ASSUME NEW d \in Nat, d \in S PROVE d + 1 \in S
  <2>1. ASSUME NEW q \in Nat, q + (d + 1) > n PROVE Outcome(g[q])
    <3>1. Outcome(g[q + 1])
      BY <1>4, <2>1
    <3>2. Outcome(g[q + 2])
      BY <1>4, <2>1
    <3>3. Outcome(g[q + 6])
      BY <1>4, <2>1
    <3> QED BY <1>2, <3>1, <3>2, <3>3
  <2> QED BY <2>1
<1> HIDE DEF S
<1>5. n \in S
  BY <1>3, <1>4, SetInduction
<1>6. p + 1 \in Nat /\ (p + 1) + n > n
  OBVIOUS
<1> QED BY <1>1, <1>5, <1>6 DEF S

LEMMA KeywordOutcome ==
  ASSUME NEW m, NEW n, NEW p, NEW rest
  PROVE  Outcome(NextKeyword(m, n, p, rest))
<1>1. \E x, y : NextKeyword(m, n, p, rest)
                  \in {Token(m[p], p, y, y), Fault("end", "PARTIAL", x), Fault("spelling", "INVALID_JSON", x)}
  BY Zenon DEF NextKeyword
<1> QED BY <1>1, FaultOutcome, TokenOutcome

LEMMA DigitsOutcome ==
  ASSUME NEW m, NEW n, NEW p
  PROVE  Outcome(NeedDigits(m, n, p))
BY FaultOutcome, TokenOutcome DEF NeedDigits

LEMMA NumberOutcome ==
  ASSUME NEW m, NEW n, NEW p
  PROVE  Outcome(NextNumber(m, n, p))
<1>1. Outcome(IntegerPart(m, n, p))
  BY DigitsOutcome, FaultOutcome, TokenOutcome DEF IntegerPart
<1>2. ASSUME NEW v, Outcome(v) PROVE Outcome(Fraction(m, n, v)) /\ Outcome(Exponent(m, n, v))
  <2>1. \A x : Outcome(FractionPart(m, n, x))
    BY DigitsOutcome, TokenOutcome DEF FractionPart
  <2>2. \A x : Outcome(ExponentPart(m, n, x))
    BY DigitsOutcome, TokenOutcome DEF ExponentPart
  <2> QED BY <1>2, <2>1, <2>2 DEF Fraction, Exponent
<1> DEFINE f == Fraction(m, n, IntegerPart(m, n, p))
           x == Exponent(m, n, f)
<1>3. Outcome(x)
  BY <1>1, <1>2
<1>4. NextNumber(m, n, p) = Number(p, x)
  BY NumberParts
<1> HIDE DEF x
<1>5. Outcome(Number(p, x))
  BY <1>3, TokenOutcome DEF Number
<1> QED BY <1>4, <1>5

\* Keywords: the rest of one stands at q, up to e.
RestAt(m, q, rest, e) == e = q + Len(rest) /\ \A i \in 1 .. Len(rest) : m[q + i] = rest[i]

\* A keyword is found, to its end.
LEMMA KeywordLexed ==
  ASSUME NEW m, NEW n \in Nat, NEW q \in 1 .. n, NEW rest, Len(rest) \in Nat,
         NEW e \in Nat, e <= n, RestAt(m, q, rest, e)
  PROVE  NextKeyword(m, n, q, rest) = Token(m[q], q, e + 1, e + 1)
<1>1. {i \in 1 .. Len(rest) : ~Has(m, n, q + i, {rest[i]})} = {}
  BY DEF RestAt, Has
<1>2. NextKeyword(m, n, q, rest) = Token(m[q], q, q + 1 + Len(rest), q + 1 + Len(rest))
  BY <1>1, Zenon DEF NextKeyword
<1>3. q + 1 + Len(rest) = e + 1
  BY DEF RestAt
<1> QED BY <1>2, <1>3

\* And what is found is a keyword.
LEMMA KeywordFound ==
  ASSUME NEW m, NEW n \in Nat, NEW q \in 1 .. n, NEW rest, Len(rest) \in Nat \ {0},
         NextKeyword(m, n, q, rest).err = "NONE"
  PROVE  LET e == q + Len(rest) IN
         /\ NextKeyword(m, n, q, rest) = Token(m[q], q, e + 1, e + 1)
         /\ e <= n /\ RestAt(m, q, rest, e)
<1> DEFINE B == {i \in 1 .. Len(rest) : ~Has(m, n, q + i, {rest[i]})}
           e == q + Len(rest)
<1>1. B = {}
  <2>1. CASE B # {}
    <3>1. \E x : NextKeyword(m, n, q, rest)
                   \in {Fault("end", "PARTIAL", x), Fault("spelling", "INVALID_JSON", x)}
      BY <2>1, Zenon DEF NextKeyword
    <3> QED BY <3>1 DEF Fault
  <2> QED BY <2>1
<1>2. \A i \in 1 .. Len(rest) : q + i <= n /\ m[q + i] = rest[i]
  BY <1>1 DEF Has
<1>3. NextKeyword(m, n, q, rest) = Token(m[q], q, q + 1 + Len(rest), q + 1 + Len(rest))
  BY <1>1, Zenon DEF NextKeyword
<1>4. q + 1 + Len(rest) = e + 1 /\ e <= n
  BY <1>2
<1>5. RestAt(m, q, rest, e)
  BY <1>2 DEF RestAt
<1> QED BY <1>3, <1>4, <1>5

\* A keyword that is cut: what is there is how it begins.
LEMMA KeywordEnded ==
  ASSUME NEW m, NEW n \in Nat, NEW q \in 1 .. n, NEW rest, Len(rest) \in Nat,
         NextKeyword(m, n, q, rest).type = "end", m[q] # "end"
  PROVE  \E k \in 1 .. Len(rest) : q + k = n + 1 /\ \A i \in 1 .. k - 1 : m[q + i] = rest[i]
<1> DEFINE B == {i \in 1 .. Len(rest) : ~Has(m, n, q + i, {rest[i]})}
<1>1. B # {}
  <2>1. CASE B = {}
    <3>1. \E x : NextKeyword(m, n, q, rest) = Token(m[q], q, x, x)
      BY <2>1, Zenon DEF NextKeyword
    <3> QED BY <3>1 DEF Token
  <2> QED BY <2>1
<1>2. NextKeyword(m, n, q, rest)
        = IF q + Min(B) > n THEN Fault("end", "PARTIAL", q + Min(B))
          ELSE Fault("spelling", "INVALID_JSON", q + Min(B))
  BY <1>1, Zenon DEF NextKeyword
<1>3. q + Min(B) > n
  BY <1>2 DEF Fault
<1>4. B \subseteq 1 .. Len(rest) /\ B \subseteq Nat
  OBVIOUS
<1>5. \A i \in 1 .. Len(rest) : i \notin B => q + i <= n /\ m[q + i] = rest[i]
  BY DEF Has
<1> HIDE DEF B
<1>6. PICK k \in B : \A j \in B : k <= j
  BY <1>1, <1>4, LeastElement
<1>7. Min(B) = k
  <2>1. \A x \in B : (\A y \in B : x <= y) => x = k
    BY <1>4, <1>6
  <2> QED BY <1>6, <2>1 DEF Min
<1>8. k \in 1 .. Len(rest) /\ q + k > n
  BY <1>3, <1>4, <1>6, <1>7
<1>9. \A i \in 1 .. k - 1 : q + i <= n /\ m[q + i] = rest[i]
  BY <1>4, <1>5, <1>6, <1>8
<1>10. q + k = n + 1
  <2>1. CASE k = 1
    BY <1>8, <2>1
  <2>2. CASE k > 1
    <3>1. k - 1 \in 1 .. k - 1
      BY <1>8, <2>2
    <3>2. q + (k - 1) <= n
      BY <1>9, <3>1
    <3> QED BY <1>8, <3>2
  <2> QED BY <1>8, <2>1, <2>2
<1> QED BY <1>8, <1>9, <1>10

\* A keyword with its first character.
IsWord(k, first, rest) ==
  /\ \E T : k \in Seq(T)
  /\ Len(rest) \in Nat \ {0} /\ Len(k) = Len(rest) + 1 /\ k[1] = first
  /\ \A i \in 1 .. Len(rest) : k[i + 1] = rest[i]

True == <<"t", "r", "u", "e">>
False == <<"f", "a", "l", "s", "e">>
Null == <<"n", "u", "l", "l">>

\* The keywords of the reference are those of lexer_next.
LEMMA KeywordsAreWords ==
  /\ Reference!Keywords = {True, False, Null}
  /\ IsWord(True, "t", OfTrue) /\ IsWord(False, "f", OfFalse) /\ IsWord(Null, "n", OfNull)
<1>1. Reference!Keywords = {True, False, Null}
  BY Zenon DEF Reference!Keywords, True, False, Null
<1> DEFINE T == {"t", "r", "u", "e", "f", "a", "l", "s", "n"}
<1>2. True \in Seq(T) /\ False \in Seq(T) /\ Null \in Seq(T)
  <2>1. /\ "t" \in T /\ "r" \in T /\ "u" \in T /\ "e" \in T /\ "f" \in T /\ "a" \in T
        /\ "l" \in T /\ "s" \in T /\ "n" \in T
    OBVIOUS
  <2> HIDE DEF T
  <2> QED BY <2>1 DEF True, False, Null
<1>3. IsWord(True, "t", OfTrue)
  <2>1. /\ Len(OfTrue) = 3 /\ Len(True) = 4 /\ True[1] = "t" /\ True[2] = "r" /\ True[3] = "u"
        /\ True[4] = "e" /\ OfTrue[1] = "r" /\ OfTrue[2] = "u" /\ OfTrue[3] = "e"
    BY DEF True, OfTrue
  <2> QED BY <1>2, <2>1 DEF IsWord
<1>4. IsWord(False, "f", OfFalse)
  <2>1. /\ Len(OfFalse) = 4 /\ Len(False) = 5 /\ False[1] = "f" /\ False[2] = "a"
        /\ False[3] = "l" /\ False[4] = "s" /\ False[5] = "e"
        /\ OfFalse[1] = "a" /\ OfFalse[2] = "l" /\ OfFalse[3] = "s" /\ OfFalse[4] = "e"
    BY DEF False, OfFalse
  <2> QED BY <1>2, <2>1 DEF IsWord
<1>5. IsWord(Null, "n", OfNull)
  <2>1. /\ Len(OfNull) = 3 /\ Len(Null) = 4 /\ Null[1] = "n" /\ Null[2] = "u" /\ Null[3] = "l"
        /\ Null[4] = "l" /\ OfNull[1] = "u" /\ OfNull[2] = "l" /\ OfNull[3] = "l"
    BY DEF Null, OfNull
  <2> QED BY <1>2, <2>1 DEF IsWord
<1> QED BY <1>1, <1>3, <1>4, <1>5

\* A keyword in a text, by positions.
LEMMA WordAt ==
  ASSUME NEW m \in Seq(STRING), NEW q \in 1 .. Len(m), NEW e \in q .. Len(m),
         NEW k, NEW first, NEW rest, IsWord(k, first, rest)
  PROVE  SubSeq(m, q, e) = k <=> m[q] = first /\ RestAt(m, q, rest, e)
<1> DEFINE s == SubSeq(m, q, e)
           l == e - q + 1
<1>1. s \in Seq(STRING) /\ Len(s) = l /\ \A i \in 1 .. l : s[i] = m[q + i - 1]
  <2>1. q \in Nat \ {0} /\ e \in Nat /\ e <= Len(m) /\ q <= e + 1
    OBVIOUS
  <2> QED BY <2>1, SubSeqFacts
<1>2. PICK T : k \in Seq(T)
  BY DEF IsWord
<1>3. /\ Len(rest) \in Nat \ {0} /\ Len(k) = Len(rest) + 1 /\ k[1] = first
      /\ \A i \in 1 .. Len(rest) : k[i + 1] = rest[i]
  BY DEF IsWord
<1>4. l \in Nat \ {0} /\ (e = q + Len(rest) <=> l = Len(rest) + 1)
  <2>1. q \in Nat \ {0} /\ e \in Nat /\ q <= e
    OBVIOUS
  <2> DEFINE r == Len(rest)
  <2>2. r \in Nat
    BY <1>3
  <2> HIDE DEF r
  <2>3. e = q + r <=> l = r + 1
    BY <2>1, <2>2
  <2> QED BY <2>1, <2>3 DEF r
<1>5. \A i \in 1 .. l - 1 : s[i + 1] = m[q + i]
  <2>1. \A i \in 1 .. l - 1 : i + 1 \in 1 .. l /\ q + (i + 1) - 1 = q + i
    OBVIOUS
  <2> HIDE DEF s, l
  <2> QED BY <1>1, <2>1
<1>6. s[1] = m[q]
  <2>1. 1 \in 1 .. l /\ q + 1 - 1 = q
    BY <1>4
  <2> HIDE DEF s, l
  <2> QED BY <1>1, <2>1
<1> HIDE DEF s, l
<1>7. ASSUME s = k PROVE m[q] = first /\ RestAt(m, q, rest, e)
  BY <1>1, <1>3, <1>4, <1>5, <1>6, <1>7 DEF RestAt
<1>8. ASSUME m[q] = first, RestAt(m, q, rest, e) PROVE s = k
  <2>1. l = Len(rest) + 1 /\ Len(s) = Len(k)
    BY <1>1, <1>3, <1>4, <1>8 DEF RestAt
  <2>2. ASSUME NEW i \in 1 .. Len(s) PROVE s[i] = k[i]
    <3>1. CASE i = 1
      BY <1>3, <1>6, <1>8, <3>1
    <3>2. CASE i > 1
      <4>1. i - 1 \in 1 .. Len(rest) /\ i - 1 \in 1 .. l - 1 /\ (i - 1) + 1 = i
        BY <1>1, <1>3, <2>1, <3>2
      <4>2. s[i] = m[q + (i - 1)] /\ k[i] = rest[i - 1]
        BY <1>3, <1>5, <4>1
      <4> QED BY <1>8, <4>1, <4>2 DEF RestAt
    <3> QED BY <1>1, <1>4, <3>1, <3>2
  <2> QED BY <1>1, <1>2, <2>1, <2>2, SequencesAlike
<1> QED BY <1>7, <1>8 DEF s

\* A token of one byte.
LEMMA SymbolAt ==
  ASSUME NEW m \in Seq(STRING), NEW q \in 1 .. Len(m), NEW e \in q .. Len(m), NEW c
  PROVE  SubSeq(m, q, e) = <<c>> <=> e = q /\ m[q] = c
<1> DEFINE s == SubSeq(m, q, e)
           l == e - q + 1
<1>1. s \in Seq(STRING) /\ Len(s) = l /\ \A i \in 1 .. l : s[i] = m[q + i - 1]
  <2>1. q \in Nat \ {0} /\ e \in Nat /\ e <= Len(m) /\ q <= e + 1
    OBVIOUS
  <2> QED BY <2>1, SubSeqFacts
<1>2. 1 \in 1 .. l /\ q + 1 - 1 = q /\ (l = 1 <=> e = q)
  OBVIOUS
<1> HIDE DEF s, l
<1>3. s[1] = m[q]
  BY <1>1, <1>2
<1>4. ASSUME s = <<c>> PROVE e = q /\ m[q] = c
  <2>1. Len(s) = 1 /\ s[1] = c
    BY <1>4
  <2> QED BY <1>1, <1>2, <1>3, <2>1
<1>5. ASSUME e = q, m[q] = c PROVE s = <<c>>
  <2>1. Len(s) = 1 /\ s[1] = c
    BY <1>1, <1>2, <1>3, <1>5
  <2>2. s \in Seq(STRING) /\ <<c>> \in Seq({c}) /\ Len(<<c>>) = 1 /\ <<c>>[1] = c
    BY <1>1
  <2> QED BY <2>1, <2>2, SequencesAlike
<1> QED BY <1>4, <1>5 DEF s

\* What a token of the reference is, by its first byte.
LEMMA TokenByFirst ==
  ASSUME NEW s, s # << >>
  PROVE  /\ s[1] = DoubleQuote => (Reference!IsToken(s) <=> Reference!IsString(s))
         /\ s[1] \in Digit \cup {"-"} => (Reference!IsToken(s) <=> Reference!IsNumber(s))
         /\ s[1] \notin Digit \cup {"-"} /\ s[1] # DoubleQuote =>
              (Reference!IsToken(s) <=> s \in Reference!Keywords \/ \E c \in Symbols : s = <<c>>)
<1>1. DoubleQuote \notin Digit \cup {"-"}
  BY Zenon DEF Digit, DoubleQuote
<1>2. CASE s[1] = DoubleQuote
  BY <1>1, <1>2, Zenon DEF Reference!IsToken, DoubleQuote, Digit, Reference!Digit
<1>3. CASE s[1] \in Digit \cup {"-"}
  BY <1>1, <1>3, Zenon DEF Reference!IsToken, DoubleQuote, Digit, Reference!Digit
<1>4. CASE s[1] \notin Digit \cup {"-"} /\ s[1] # DoubleQuote
  <2>1. Reference!IsToken(s)
          <=> s \in Reference!Keywords \cup {<<c>> : c \in {"{", "}", "[", "]", ":", ","}}
    BY <1>1, <1>4, Zenon DEF Reference!IsToken, DoubleQuote, Digit, Reference!Digit
  <2>2. s \in {<<c>> : c \in {"{", "}", "[", "]", ":", ","}} <=> \E c \in Symbols : s = <<c>>
    BY Zenon DEF Symbols
  <2> QED BY <2>1, <2>2, <1>1, <1>4, Zenon
<1> QED BY <1>1, <1>2, <1>3, <1>4, Zenon

-----------------------------------------------------------------------------
(* lexer_next takes the longest token that stands at a byte.               *)

\* What numbers begin with.
Begins == Digit \cup {"-"}

\* A symbol or a keyword stands at q, up to e.
WordStands(m, q, e) ==
  \/ m[q] \in Symbols /\ e = q
  \/ m[q] = "t" /\ RestAt(m, q, OfTrue, e)
  \/ m[q] = "f" /\ RestAt(m, q, OfFalse, e)
  \/ m[q] = "n" /\ RestAt(m, q, OfNull, e)

\* The same of a part of a text.
LEMMA PartIsToken ==
  ASSUME NEW m \in Seq(STRING), NEW q \in 1 .. Len(m), NEW e \in q .. Len(m)
  PROVE  LET s == SubSeq(m, q, e) IN
         /\ s # << >> /\ s[1] = m[q]
         /\ m[q] = DoubleQuote => (Reference!IsToken(s) <=> Reference!IsString(s))
         /\ m[q] \in Begins => (Reference!IsToken(s) <=> NumberAt(m, q, e))
         /\ m[q] \notin Begins /\ m[q] # DoubleQuote =>
              (Reference!IsToken(s) <=> WordStands(m, q, e))
<1> DEFINE s == SubSeq(m, q, e)
<1>0. q \in Nat \ {0} /\ e \in Nat /\ e <= Len(m) /\ q <= e + 1 /\ q <= e
  OBVIOUS
<1>1. s # << >> /\ s[1] = m[q]
  <2> DEFINE l == e - q + 1
  <2>1. s \in Seq(STRING) /\ Len(s) = l /\ \A i \in 1 .. l : s[i] = m[q + i - 1]
    BY <1>0, SubSeqFacts
  <2>2. 1 \in 1 .. l /\ q + 1 - 1 = q /\ l # 0
    OBVIOUS
  <2> HIDE DEF s, l
  <2> QED BY <2>1, <2>2
<1>2. m[q] \in Begins => (Reference!IsNumber(s) <=> NumberAt(m, q, e))
  BY <1>0, NumberInside
<1>3. m[q] \notin Begins /\ m[q] # DoubleQuote =>
        (s \in Reference!Keywords \/ (\E c \in Symbols : s = <<c>>) <=> WordStands(m, q, e))
  <2>1. (\E c \in Symbols : s = <<c>>) <=> m[q] \in Symbols /\ e = q
    BY SymbolAt
  <2>2. s = True <=> m[q] = "t" /\ RestAt(m, q, OfTrue, e)
    BY KeywordsAreWords, WordAt
  <2>3. s = False <=> m[q] = "f" /\ RestAt(m, q, OfFalse, e)
    BY KeywordsAreWords, WordAt
  <2>4. s = Null <=> m[q] = "n" /\ RestAt(m, q, OfNull, e)
    BY KeywordsAreWords, WordAt
  <2>5. s \in Reference!Keywords <=> s = True \/ s = False \/ s = Null
    BY KeywordsAreWords
  <2> HIDE DEF s
  <2> QED BY <2>1, <2>2, <2>3, <2>4, <2>5, Zenon DEF WordStands
<1> HIDE DEF s
<1>4. /\ s[1] = DoubleQuote => (Reference!IsToken(s) <=> Reference!IsString(s))
      /\ s[1] \in Begins => (Reference!IsToken(s) <=> Reference!IsNumber(s))
      /\ s[1] \notin Begins /\ s[1] # DoubleQuote =>
           (Reference!IsToken(s) <=> s \in Reference!Keywords \/ \E c \in Symbols : s = <<c>>)
  BY <1>1, TokenByFirst, Zenon DEF Begins
<1> QED BY <1>1, <1>2, <1>3, <1>4, Zenon DEF s

\* What lexer_next does at q, by the byte.
LEMMA TokenAtCases ==
  ASSUME NEW m, NEW n, NEW q
  PROVE  /\ m[q] = DoubleQuote => TokenAt(m, n, q) = NextString(m, n, q)
         /\ m[q] \in Begins => TokenAt(m, n, q) = NextNumber(m, n, q)
         /\ m[q] \in Symbols => TokenAt(m, n, q) = Token(m[q], q, q + 1, q + 1)
         /\ m[q] = "t" => TokenAt(m, n, q) = NextKeyword(m, n, q, OfTrue)
         /\ m[q] = "f" => TokenAt(m, n, q) = NextKeyword(m, n, q, OfFalse)
         /\ m[q] = "n" => TokenAt(m, n, q) = NextKeyword(m, n, q, OfNull)
         /\ \/ m[q] = DoubleQuote \/ m[q] \in Begins \/ m[q] \in Symbols
            \/ m[q] \in {"t", "f", "n"}
            \/ TokenAt(m, n, q) = Fault("character", "PARTIAL", q)
BY TokenAtRule, Zenon DEF DoubleQuote, Begins, OtherBegins, NextSymbol

\* The first bytes of the tokens tell them apart.
LEMMA BytesDiffer ==
  /\ \A c \in Symbols \cup {"t", "f", "n"} :
       c \notin Begins /\ c # DoubleQuote /\ c # "s" /\ c # "0" /\ c # "end"
  /\ DoubleQuote \notin Begins
<1>1. \A c \in Symbols \cup {"t", "f", "n"} : c \notin Begins
  BY DEF Symbols, Begins, Digit
<1>2. \A c \in Symbols \cup {"t", "f", "n"} : c # DoubleQuote
  BY Zenon DEF Symbols, DoubleQuote
<1>3. \A c \in Symbols \cup {"t", "f", "n"} : c # "s" /\ c # "0" /\ c # "end"
  BY DEF Symbols
<1>4. DoubleQuote \notin Begins
  BY Zenon DEF Begins, Digit, DoubleQuote
<1> QED BY <1>1, <1>2, <1>3, <1>4

\* A token of the reference that the text goes on behind is found, to its end.
LEMMA TokenLexed ==
  ASSUME NEW m \in Seq(STRING), NEW n \in Nat, n <= Len(m), NEW q \in 1 .. n, NEW e \in q .. n,
         m[q] \in Begins => EndsAt(m, n, e, Continues),
         Reference!IsToken(SubSeq(m, q, e))
  PROVE  \E t, x, y : TokenAt(m, n, q) = Token(t, x, y, e + 1)
<1>0. q \in 1 .. Len(m) /\ e \in q .. Len(m) /\ e \in Nat /\ e <= n
  OBVIOUS
<1>1. CASE m[q] = DoubleQuote
  <2>1. Reference!IsString(SubSeq(m, q, e))
    BY <1>0, <1>1, PartIsToken
  <2>2. NextString(m, n, q) = Token("s", q + 1, e, e + 1)
    BY <2>1, StringLexed
  <2> QED BY <1>1, <2>2, TokenAtCases
<1>2. CASE m[q] \in Begins
  <2>1. NumberAt(m, q, e)
    BY <1>0, <1>2, PartIsToken
  <2>2. NextNumber(m, n, q) = Token("0", q, e + 1, e + 1)
    BY <1>0, <1>2, <2>1, NumberLexed
  <2> QED BY <1>2, <2>2, TokenAtCases
<1>3. CASE m[q] \notin Begins /\ m[q] # DoubleQuote
  <2>1. WordStands(m, q, e)
    BY <1>0, <1>3, PartIsToken
  <2>2. CASE m[q] \in Symbols /\ e = q
    BY <2>2, TokenAtCases
  <2>3. CASE m[q] = "t" /\ RestAt(m, q, OfTrue, e)
    BY <1>0, <2>3, KeywordLexed, KeywordLengths, TokenAtCases
  <2>4. CASE m[q] = "f" /\ RestAt(m, q, OfFalse, e)
    BY <1>0, <2>4, KeywordLexed, KeywordLengths, TokenAtCases
  <2>5. CASE m[q] = "n" /\ RestAt(m, q, OfNull, e)
    BY <1>0, <2>5, KeywordLexed, KeywordLengths, TokenAtCases
  <2> QED BY <2>1, <2>2, <2>3, <2>4, <2>5 DEF WordStands
<1> QED BY <1>1, <1>2, <1>3

\* The type that lexer_next gives a token, by its first byte.
KindOf(c) == IF c = DoubleQuote THEN "s" ELSE IF c \in Begins THEN "0" ELSE c

\* v is the token from q to e, and no longer one begins there.
Found(m, n, q, v, e) ==
  /\ v.type = KindOf(m[q]) /\ v.pos = e + 1
  /\ v.start = IF v.type = "s" THEN q + 1 ELSE q
  /\ Reference!IsToken(SubSeq(m, q, e))
  /\ \A l \in e + 1 .. n : ~Reference!IsToken(SubSeq(m, q, l))

\* And what is found is a token of the reference, and the longest one there.
LEMMA TokenFound ==
  ASSUME NEW m \in Seq(STRING), NEW n \in Nat, n <= Len(m), NEW q \in 1 .. n,
         TokenAt(m, n, q).err = "NONE"
  PROVE  \E e \in q .. n : Found(m, n, q, TokenAt(m, n, q), e)
<1>0. q \in 1 .. Len(m) /\ \A e \in q .. n : e \in q .. Len(m)
  OBVIOUS
<1>1. ASSUME NEW e \in q .. n, NEW t, NEW x, NEW y,
             TokenAt(m, n, q) = Token(t, x, y, e + 1), m[q] \notin Begins
      PROVE  \A l \in e + 1 .. n : ~Reference!IsToken(SubSeq(m, q, l))
  <2> SUFFICES ASSUME NEW l \in e + 1 .. n, Reference!IsToken(SubSeq(m, q, l))
               PROVE  FALSE
    OBVIOUS
  <2>1. l \in q .. n
    OBVIOUS
  <2>2. PICK u, v, w : TokenAt(m, n, q) = Token(u, v, w, l + 1)
    BY <1>1, <2>1, TokenLexed
  <2>3. e + 1 = l + 1
    BY <1>1, <2>2 DEF Token
  <2> QED BY <2>3
<1>2. CASE m[q] = DoubleQuote
  <2>1. TokenAt(m, n, q) = NextString(m, n, q) /\ m[q] \notin Begins
    BY <1>2, TokenAtCases, BytesDiffer
  <2>2. PICK e \in q + 1 .. n : /\ NextString(m, n, q) = Token("s", q + 1, e, e + 1)
                                /\ Reference!IsString(SubSeq(m, q, e))
    BY <1>2, <2>1, StringFound
  <2>3. e \in q .. n
    OBVIOUS
  <2>4. Reference!IsToken(SubSeq(m, q, e))
    BY <1>0, <1>2, <2>2, <2>3, PartIsToken
  <2>5. \A l \in e + 1 .. n : ~Reference!IsToken(SubSeq(m, q, l))
    BY <1>1, <2>1, <2>2, <2>3
  <2>6. Found(m, n, q, Token("s", q + 1, e, e + 1), e)
    BY <1>2, <2>4, <2>5 DEF Found, Token, KindOf
  <2> QED BY <2>1, <2>2, <2>3, <2>6
<1>3. CASE m[q] \in Begins
  <2>1. TokenAt(m, n, q) = NextNumber(m, n, q) /\ m[q] # DoubleQuote
    BY <1>3, TokenAtCases, BytesDiffer
  <2>2. PICK a, b, c, e \in Nat :
           /\ NextNumber(m, n, q) = Token("0", q, e + 1, e + 1) /\ e <= n
           /\ NumberCut(m, q, a, b, c, e) /\ Longest(m, n, b, c, e)
    BY <2>1, NumberFound
  <2>3. NumberAt(m, q, e)
    BY <2>2, Zenon DEF NumberAt
  <2>4. e \in q .. n
    BY <2>2 DEF NumberCut, Integral, DigitRun
  <2>5. Reference!IsToken(SubSeq(m, q, e))
    BY <1>0, <1>3, <2>3, <2>4, PartIsToken
  <2>6. ASSUME NEW l \in e + 1 .. n, Reference!IsToken(SubSeq(m, q, l)) PROVE FALSE
    <3>1. l \in q .. n /\ l \in Nat /\ l <= n
      BY <2>4
    <3>2. NumberAt(m, q, l)
      BY <1>0, <1>3, <2>6, <3>1, PartIsToken
    <3>3. l <= e
      BY <2>2, <3>1, <3>2, NumberLongest
    <3> QED BY <3>3
  <2>7. Found(m, n, q, Token("0", q, e + 1, e + 1), e)
    BY <1>3, <2>1, <2>5, <2>6 DEF Found, Token, KindOf
  <2> QED BY <2>1, <2>2, <2>4, <2>7
<1>4. ASSUME m[q] \in Symbols \cup {"t", "f", "n"}, NEW e \in q .. n, WordStands(m, q, e),
             TokenAt(m, n, q) = Token(m[q], q, e + 1, e + 1)
      PROVE  Found(m, n, q, TokenAt(m, n, q), e)
  <2>1. m[q] \notin Begins /\ m[q] # DoubleQuote /\ m[q] # "s"
    BY <1>4, BytesDiffer
  <2>2. Reference!IsToken(SubSeq(m, q, e))
    BY <1>0, <1>4, <2>1, PartIsToken
  <2>3. \A l \in e + 1 .. n : ~Reference!IsToken(SubSeq(m, q, l))
    BY <1>1, <1>4, <2>1
  <2>4. Found(m, n, q, Token(m[q], q, e + 1, e + 1), e)
    BY <2>1, <2>2, <2>3 DEF Found, Token, KindOf
  <2> QED BY <1>4, <2>4
<1>5. CASE m[q] \in Symbols
  <2>1. q \in q .. n /\ WordStands(m, q, q) /\ TokenAt(m, n, q) = Token(m[q], q, q + 1, q + 1)
    BY <1>5, TokenAtCases DEF WordStands
  <2> QED BY <1>4, <1>5, <2>1
<1>6. ASSUME NEW rest, Len(rest) \in Nat \ {0}, TokenAt(m, n, q) = NextKeyword(m, n, q, rest)
      PROVE  \E e \in q .. n : /\ TokenAt(m, n, q) = Token(m[q], q, e + 1, e + 1)
                               /\ RestAt(m, q, rest, e)
  <2> DEFINE e == q + Len(rest)
  <2>1. /\ NextKeyword(m, n, q, rest) = Token(m[q], q, e + 1, e + 1)
        /\ e <= n /\ RestAt(m, q, rest, e)
    BY <1>6, KeywordFound
  <2>2. e \in q .. n
    BY <1>6, <2>1
  <2> QED BY <1>6, <2>1, <2>2
<1>7. Len(OfTrue) \in Nat \ {0} /\ Len(OfFalse) \in Nat \ {0} /\ Len(OfNull) \in Nat \ {0}
  BY DEF OfTrue, OfFalse, OfNull
<1>8. CASE m[q] = "t"
  <2>1. PICK e \in q .. n : /\ TokenAt(m, n, q) = Token(m[q], q, e + 1, e + 1)
                            /\ RestAt(m, q, OfTrue, e)
    BY <1>6, <1>7, <1>8, TokenAtCases
  <2>2. WordStands(m, q, e)
    BY <1>8, <2>1 DEF WordStands
  <2> QED BY <1>4, <1>8, <2>1, <2>2
<1>9. CASE m[q] = "f"
  <2>1. PICK e \in q .. n : /\ TokenAt(m, n, q) = Token(m[q], q, e + 1, e + 1)
                            /\ RestAt(m, q, OfFalse, e)
    BY <1>6, <1>7, <1>9, TokenAtCases
  <2>2. WordStands(m, q, e)
    BY <1>9, <2>1 DEF WordStands
  <2> QED BY <1>4, <1>9, <2>1, <2>2
<1>10. CASE m[q] = "n"
  <2>1. PICK e \in q .. n : /\ TokenAt(m, n, q) = Token(m[q], q, e + 1, e + 1)
                            /\ RestAt(m, q, OfNull, e)
    BY <1>6, <1>7, <1>10, TokenAtCases
  <2>2. WordStands(m, q, e)
    BY <1>10, <2>1 DEF WordStands
  <2> QED BY <1>4, <1>10, <2>1, <2>2
<1>11. CASE TokenAt(m, n, q) = Fault("character", "PARTIAL", q)
  BY <1>11 DEF Fault
<1> QED BY <1>2, <1>3, <1>5, <1>8, <1>9, <1>10, <1>11, TokenAtCases

\* What has been received is a text.
LEMMA TextIsText == TextOK => text \in Seq(STRING) /\ Len(text) \in Nat
<1> SUFFICES ASSUME TextOK PROVE text \in Seq(STRING) /\ Len(text) \in Nat
  OBVIOUS
<1>1. text \in Seq(Bytes)
  BY DEF TextOK
<1>2. text \in Seq(STRING)
  BY <1>1, BytesAreStrings, WiderSeq
<1> QED BY <1>2

\* The verdict on the whole text is about its first byte that is no blank.
LEMMA WholeAtFirst ==
  ASSUME NEW n, n = Len(text), n \in Nat
  PROVE  \/ FirstByte = n + 1 /\ Whole = Fault("end", "PARTIAL", n + 1)
         \/ FirstByte \in 1 .. n /\ Whole = TokenAt(text, n, FirstByte)
<1>1. FirstByte = Skip(text, n, 1, Blanks) /\ Whole = LexNext(text, n, 1)
  BY DEF FirstByte, Whole, Verdict
<1> DEFINE q == FirstByte
<1>2. q \in Nat /\ q <= n + 1 /\ (q = n + 1 \/ q >= 1)
  BY <1>1, SkipFacts
<1>3. Whole = IF q > n THEN Fault("end", "PARTIAL", q) ELSE TokenAt(text, n, q)
  BY <1>1, LexNextRule
<1> HIDE DEF q
<1>4. CASE q > n
  <2>1. q = n + 1
    BY <1>2, <1>4
  <2> QED BY <1>3, <1>4, <2>1 DEF q
<1>5. CASE ~(q > n)
  <2>1. q \in 1 .. n
    BY <1>2, <1>5
  <2> QED BY <1>3, <1>5, <2>1 DEF q
<1> QED BY <1>4, <1>5

\* The type of a token, by its first byte.
LEMMA KindIsType ==
  ASSUME NEW s, NEW c, s[1] = c
  PROVE  TypeOfToken(s) = KindOf(c)
<1>1. DoubleQuote \notin Begins
  BY BytesDiffer
<1> QED BY <1>1, Zenon DEF TypeOfToken, KindOf, DoubleQuote, Begins

-----------------------------------------------------------------------------
(* A number that the end of the input cuts, and a zero behind it.          *)

\* A number that the end cuts goes on with a zero behind it.
GoesOn(v, u, n) ==
  /\ v.type = "end" => u = Reached(n + 2)
  /\ v.err = "NONE" => v = Reached(n + 1) \/ (v = u /\ v.pos \in 1 .. n)

\* It goes on if it stands with more input and completes where the end cuts it.
LEMMA PartGoesOn ==
  ASSUME NEW n \in Nat, NEW v, NEW u, Part(v, n), PartStands(v, u, n),
         v.type = "end" => u = Reached(n + 2)
  PROVE  GoesOn(v, u, n)
<1> SUFFICES ASSUME v.err = "NONE", v # Reached(n + 1) PROVE v = u /\ v.pos \in 1 .. n
  BY DEF GoesOn
<1>1. v = u
  BY DEF PartStands
<1>2. v = Reached(v.pos) /\ v.pos \in 1 .. n + 1
  BY DEF Part
<1> QED BY <1>1, <1>2

\* Every part of next_number goes on.
LEMMA DigitsGoOn ==
  ASSUME NEW w, NEW n \in Nat, w[n + 1] = "0", NEW x \in 1 .. n + 1,
         NeedDigits(w, n, x).type = "end"
  PROVE  x = n + 1 /\ NeedDigits(w, n + 1, x) = Reached(n + 2)
<1>1. x = n + 1
  <2>1. CASE x <= n
    <3>1. \E y : NeedDigits(w, n, x) \in {Fault("spelling", "INVALID_JSON", x), Reached(y)}
      <4>1. ~(x > n)
        BY <2>1
      <4> QED BY <4>1, Zenon DEF NeedDigits
    <3> QED BY <3>1 DEF Fault, Reached, Token
  <2> QED BY <2>1
<1> DEFINE k == n + 1
           s == Skip(w, k, k, Digit)
<1>2. k \in Nat /\ x = k /\ w[k] \in Digit /\ k + 1 = n + 2
  BY <1>1, NoDigits
<1>3. s = k + 1
  <2> HIDE DEF k
  <2>1. s \in Nat /\ s <= k + 1 /\ (s = k + 1 \/ (s >= k /\ w[s] \notin Digit))
    BY <1>2, SkipFacts
  <2> HIDE DEF s
  <2> QED BY <1>2, <2>1
<1> HIDE DEF k
<1>4. NeedDigits(w, k, x) = Reached(s)
  BY <1>2 DEF NeedDigits
<1> QED BY <1>1, <1>2, <1>3, <1>4 DEF k

LEMMA IntegerGoesOn ==
  ASSUME NEW w, NEW n \in Nat, w[n + 1] = "0", NEW p \in 1 .. n
  PROVE  GoesOn(IntegerPart(w, n, p), IntegerPart(w, n + 1, p), n)
<1> DEFINE v == IntegerPart(w, n, p)
           q == IF Has(w, n, p, {"-"}) THEN p + 1 ELSE p
           k == n + 1
<1>0. k \in Nat /\ n <= k /\ k = n + 1 /\ p \in 1 .. k /\ k + 1 = n + 2 /\ ~(k + 1 <= k)
  OBVIOUS
<1>1. Part(v, n) /\ PartStands(v, IntegerPart(w, k, p), n)
  BY <1>0, IntegerIsPart, IntegerStands
<1>2. q \in 1 .. n + 1 /\ q = IF Has(w, k, p, {"-"}) THEN p + 1 ELSE p
  BY DEF Has
<1>3. ASSUME v.type = "end" PROVE IntegerPart(w, k, p) = Reached(n + 2)
  <2>1. ~Has(w, n, q, {"0"})
    <3>1. CASE Has(w, n, q, {"0"})
      <4>1. v \in {Fault("spelling", "INVALID_JSON", q + 1), Reached(q + 1)}
        BY <3>1, Zenon DEF IntegerPart
      <4> HIDE DEF v, q
      <4> QED BY <1>3, <4>1 DEF Fault, Reached, Token
    <3> QED BY <3>1
  <2>2. v = NeedDigits(w, n, q)
    BY <2>1, Zenon DEF IntegerPart
  <2> HIDE DEF v
  <2>3. NeedDigits(w, n, q).type = "end"
    BY <1>3, <2>2
  <2>4. q = k
    <3> HIDE DEF q
    <3> QED BY <1>0, <1>2, <2>3, DigitsGoOn
  <2>5. IntegerPart(w, k, p) = IF ~Has(w, k, q, {"0"}) THEN NeedDigits(w, k, q)
                               ELSE IF Has(w, k, q + 1, Digit)
                                    THEN Fault("spelling", "INVALID_JSON", q + 1)
                               ELSE Reached(q + 1)
    BY <1>2, Zenon DEF IntegerPart
  <2>6. Has(w, k, q, {"0"}) /\ ~Has(w, k, q + 1, Digit)
    <3> HIDE DEF q, k
    <3> QED BY <1>0, <2>4 DEF Has
  <2>7. q + 1 = n + 2
    BY <2>4
  <2> HIDE DEF q, k
  <2> QED BY <2>5, <2>6, <2>7
<1> HIDE DEF v, q
<1> QED BY <1>0, <1>1, <1>3, PartGoesOn DEF v, k

LEMMA FractionGoesOn ==
  ASSUME NEW w, NEW n \in Nat, w[n + 1] = "0", NEW p \in 1 .. n + 1
  PROVE  GoesOn(FractionPart(w, n, p), FractionPart(w, n + 1, p), n)
<1> DEFINE v == FractionPart(w, n, p)
           k == n + 1
<1>0. k \in Nat /\ n <= k /\ k = n + 1 /\ p \in 1 .. k
  OBVIOUS
<1>1. Part(v, n) /\ PartStands(v, FractionPart(w, k, p), n)
  BY <1>0, FractionIsPart, FractionStands
<1>2. ASSUME v.type = "end" PROVE FractionPart(w, k, p) = Reached(n + 2)
  <2>1. Has(w, n, p, {"."})
    <3>1. CASE ~Has(w, n, p, {"."})
      BY <1>2, <3>1 DEF FractionPart, Reached, Token
    <3> QED BY <3>1
  <2>2. NeedDigits(w, n, p + 1).type = "end"
    BY <1>2, <2>1 DEF FractionPart
  <2>3. Has(w, k, p, {"."}) /\ p + 1 \in 1 .. n + 1
    BY <2>1 DEF Has
  <2>4. NeedDigits(w, k, p + 1) = Reached(n + 2)
    BY <2>2, <2>3, DigitsGoOn
  <2> QED BY <2>3, <2>4 DEF FractionPart
<1> HIDE DEF v
<1> QED BY <1>1, <1>2, PartGoesOn DEF v

LEMMA ExponentGoesOn ==
  ASSUME NEW w, NEW n \in Nat, w[n + 1] = "0", NEW p \in 1 .. n + 1
  PROVE  GoesOn(ExponentPart(w, n, p), ExponentPart(w, n + 1, p), n)
<1> DEFINE v == ExponentPart(w, n, p)
           k == n + 1
           q == IF Has(w, n, p + 1, {"+", "-"}) THEN p + 2 ELSE p + 1
<1>0. k \in Nat /\ n <= k /\ k = n + 1 /\ p \in 1 .. k
  OBVIOUS
<1>1. Part(v, n) /\ PartStands(v, ExponentPart(w, k, p), n)
  BY <1>0, ExponentIsPart, ExponentStands
<1>2. ASSUME v.type = "end" PROVE ExponentPart(w, k, p) = Reached(n + 2)
  <2>1. Has(w, n, p, {"e", "E"})
    <3>1. CASE ~Has(w, n, p, {"e", "E"})
      BY <1>2, <3>1 DEF ExponentPart, Reached, Token
    <3> QED BY <3>1
  <2>2. NeedDigits(w, n, q).type = "end"
    BY <1>2, <2>1 DEF ExponentPart
  <2>3. Has(w, k, p, {"e", "E"}) /\ q \in 1 .. n + 1
    BY <2>1 DEF Has
  <2>4. q = IF Has(w, k, p + 1, {"+", "-"}) THEN p + 2 ELSE p + 1
    <3>1. Has(w, k, p + 1, {"+", "-"}) <=> Has(w, n, p + 1, {"+", "-"})
      BY <2>1 DEF Has
    <3> QED BY <3>1
  <2>5. NeedDigits(w, k, q) = Reached(n + 2)
    <3> HIDE DEF q
    <3> QED BY <2>2, <2>3, DigitsGoOn
  <2>6. ExponentPart(w, k, p) = NeedDigits(w, k, q)
    BY <2>3, <2>4, Zenon DEF ExponentPart
  <2> QED BY <2>5, <2>6
<1> HIDE DEF v, q
<1> QED BY <1>1, <1>2, PartGoesOn DEF v

\* So does the number.
LEMMA NumberGoesOn ==
  ASSUME NEW w, NEW n \in Nat, w[n + 1] = "0", NEW p \in 1 .. n,
         NextNumber(w, n, p).type = "end"
  PROVE  NextNumber(w, n + 1, p) = Token("0", p, n + 2, n + 2)
<1> DEFINE k == n + 1
           l == n + 2
<1>0. k \in Nat /\ k = n + 1 /\ ~(l <= k) /\ l = n + 2
  OBVIOUS
<1> HIDE DEF k, l
<1>1. FractionPart(w, k, l) = Reached(l) /\ ExponentPart(w, k, l) = Reached(l)
  BY <1>0 DEF FractionPart, ExponentPart, Has
<1>2. Reached(l).pos = l /\ Reached(l).err = "NONE" /\ Reached(k).pos = k /\ Reached(k).err = "NONE"
       /\ Reached(k).type = "0"
  BY DEF Reached, Token
<1>3. ASSUME NEW v, NEW u, Part(v, n), GoesOn(v, u, n)
      PROVE  /\ GoesOn(Fraction(w, n, v), Fraction(w, k, u), n)
             /\ GoesOn(Exponent(w, n, v), Exponent(w, k, u), n)
  <2>1. CASE v.err # "NONE"
    <3>1. Fraction(w, n, v) = v /\ Exponent(w, n, v) = v
      BY <2>1 DEF Fraction, Exponent
    <3>2. v.type = "end" => u = Reached(l)
      BY <1>0, <1>3 DEF GoesOn
    <3>3. u = Reached(l) => Fraction(w, k, u) = Reached(l) /\ Exponent(w, k, u) = Reached(l)
      BY <1>1, <1>2 DEF Fraction, Exponent
    <3> QED BY <1>0, <2>1, <3>1, <3>2, <3>3 DEF GoesOn
  <2>2. CASE v.err = "NONE" /\ v = u /\ v.pos \in 1 .. n
    <3> DEFINE q == v.pos
    <3>1. q \in 1 .. n + 1
      BY <2>2
    <3>2. /\ Fraction(w, n, v) = FractionPart(w, n, q) /\ Fraction(w, k, u) = FractionPart(w, k, q)
          /\ Exponent(w, n, v) = ExponentPart(w, n, q) /\ Exponent(w, k, u) = ExponentPart(w, k, q)
      BY <2>2, Zenon DEF Fraction, Exponent
    <3> HIDE DEF q
    <3> QED BY <1>0, <3>1, <3>2, FractionGoesOn, ExponentGoesOn
  <2>3. CASE v = Reached(k)
    <3>1. ~Has(w, n, k, {"."}) /\ ~Has(w, n, k, {"e", "E"})
      BY <1>0 DEF Has
    <3>2. Fraction(w, n, v) = Reached(k) /\ Exponent(w, n, v) = Reached(k)
      BY <1>2, <2>3, <3>1 DEF Fraction, Exponent, FractionPart, ExponentPart
    <3> QED BY <1>0, <1>2, <3>2 DEF GoesOn
  <2> QED BY <1>0, <1>3, <2>1, <2>2, <2>3 DEF GoesOn
<1> DEFINE i(j) == IntegerPart(w, j, p)
           f(j) == Fraction(w, j, i(j))
           e(j) == Exponent(w, j, f(j))
<1>4. NextNumber(w, n, p) = Number(p, e(n)) /\ NextNumber(w, k, p) = Number(p, e(k))
  BY NumberParts
<1>5. Part(i(n), n) /\ Part(f(n), n)
  BY IntegerIsPart, PartsOfNumber
<1>6. GoesOn(i(n), i(k), n)
  BY <1>0, IntegerGoesOn
<1> HIDE DEF i
<1>7. GoesOn(f(n), f(k), n)
  BY <1>3, <1>5, <1>6
<1> HIDE DEF f
<1>8. GoesOn(e(n), e(k), n)
  BY <1>3, <1>5, <1>7
<1> HIDE DEF e
<1>9. e(n).err # "NONE"
  <2>1. CASE e(n).err = "NONE"
    BY <1>4, <2>1 DEF Number, Token
  <2> QED BY <2>1
<1>10. e(n).type = "end"
  BY <1>4, <1>9 DEF Number
<1>11. e(k) = Reached(l)
  BY <1>0, <1>8, <1>10 DEF GoesOn
<1>12. NextNumber(w, k, p) = Token("0", p, l, l)
  BY <1>2, <1>4, <1>11 DEF Number
<1> QED BY <1>0, <1>12

-----------------------------------------------------------------------------
(* What an input that ended began, and what a wrong byte cannot begin.     *)

\* A part that reaches to the end of a text, and what is put behind it.
LEMMA JoinedText ==
  ASSUME NEW m \in Seq(STRING), NEW c \in Seq(STRING), NEW n, n = Len(m), NEW q \in 1 .. n,
         NEW w, w = m \o c, NEW k, k = n + Len(c)
  PROVE  /\ w \in Seq(STRING) /\ Len(w) = k /\ k \in Nat /\ n \in Nat /\ n <= k
         /\ SameInput(m, w, n) /\ \A i \in 1 .. Len(c) : w[n + i] = c[i]
         /\ SubSeq(w, q, k) = SubSeq(m, q, n) \o c
<1> DEFINE r == SubSeq(m, q, n)
           s == SubSeq(w, q, k)
           d == n - q + 1
<1>1. /\ w \in Seq(STRING) /\ Len(w) = k /\ k \in Nat /\ n \in Nat /\ n <= k
      /\ \A i \in 1 .. n : w[i] = m[i]
      /\ \A i \in 1 .. Len(c) : w[n + i] = c[i]
  OBVIOUS
<1>2. q \in Nat \ {0} /\ n <= Len(m) /\ q <= n + 1 /\ k <= Len(w) /\ q <= k + 1 /\ k - q + 1 = d + Len(c)
        /\ d \in Nat
  BY <1>1
<1>3. r \in Seq(STRING) /\ Len(r) = d /\ \A i \in 1 .. d : r[i] = m[q + i - 1]
  BY <1>1, <1>2, SubSeqFacts
<1>4. s \in Seq(STRING) /\ Len(s) = d + Len(c) /\ \A i \in 1 .. d + Len(c) : s[i] = w[q + i - 1]
  <2> HIDE DEF d
  <2>1. /\ SubSeq(w, q, k) \in Seq(STRING) /\ Len(SubSeq(w, q, k)) = k - q + 1
        /\ \A i \in 1 .. k - q + 1 : SubSeq(w, q, k)[i] = w[q + i - 1]
    BY <1>1, <1>2, SubSeqFacts
  <2> QED BY <1>2, <2>1
<1>5. ASSUME NEW i \in 1 .. d + Len(c) PROVE s[i] = (r \o c)[i]
  <2>1. CASE i <= d
    <3>1. i \in 1 .. d /\ q + i - 1 \in 1 .. n
      BY <2>1
    <3> HIDE DEF r, s
    <3>2. (r \o c)[i] = r[i]
      BY <1>3, <1>5, <3>1
    <3>3. s[i] = w[q + i - 1] /\ r[i] = m[q + i - 1]
      BY <1>3, <1>4, <3>1
    <3>4. w[q + i - 1] = m[q + i - 1]
      BY <1>1, <3>1
    <3> QED BY <3>2, <3>3, <3>4
  <2>2. CASE i > d
    <3>1. i - d \in 1 .. Len(c) /\ q + i - 1 = n + (i - d)
      BY <1>2, <2>2
    <3> HIDE DEF r, s
    <3>2. (r \o c)[i] = c[i - d]
      <4> DEFINE j == i - d
      <4>1. j \in 1 .. Len(c) /\ i = d + j
        BY <1>2, <3>1
      <4> HIDE DEF d, j
      <4>2. (r \o c)[Len(r) + j] = c[j]
        BY <1>3, <4>1, JoinedFacts
      <4>3. Len(r) = d
        BY <1>3
      <4> QED BY <4>1, <4>2, <4>3 DEF j
    <3>3. s[i] = w[n + (i - d)]
      BY <1>4, <3>1
    <3> QED BY <1>1, <3>1, <3>2, <3>3
  <2> QED BY <1>2, <2>1, <2>2
<1>6. r \o c \in Seq(STRING) /\ Len(r \o c) = d + Len(c)
  <2> HIDE DEF r, d
  <2> QED BY <1>3, JoinedFacts
<1>7. s = r \o c
  <2> HIDE DEF s, r, d
  <2> QED BY <1>4, <1>5, <1>6, SequencesAlike
<1>8. SameInput(m, w, n)
  BY <1>1 DEF SameInput
<1> QED BY <1>1, <1>7, <1>8

\* What is there of a string that is cut begins a string.
LEMMA StringBegins ==
  ASSUME NEW m \in Seq(STRING), NEW n, n = Len(m), NEW q \in 1 .. n,
         m[q] = DoubleQuote, NextString(m, n, q).type = "end"
  PROVE  \E c \in Reference!Completions : Reference!IsToken(SubSeq(m, q, n) \o c)
<1>0. n \in Nat /\ n <= Len(m)
  OBVIOUS
<1>1. PICK c \in Closings : NextString(m \o c, n + Len(c), q).err = "NONE"
  BY <1>0, StringCompleted
<1>2. c \in Reference!Completions /\ c \in Seq(STRING) /\ Len(c) \in Nat /\ Len(c) >= 1
  BY ClosingsAreTexts
<1> DEFINE w == m \o c
           k == n + Len(c)
<1>3. /\ w \in Seq(STRING) /\ Len(w) = k /\ k \in Nat /\ n <= k
      /\ SameInput(m, w, n) /\ \A i \in 1 .. Len(c) : w[n + i] = c[i]
      /\ SubSeq(w, q, k) = SubSeq(m, q, n) \o c
  <2>1. w = m \o c /\ k = n + Len(c)
    OBVIOUS
  <2> HIDE DEF w, k
  <2>2. w \in Seq(STRING) /\ Len(w) = k /\ k \in Nat /\ n <= k
    BY <1>2, <2>1, JoinedText
  <2>3. SameInput(m, w, n)
    BY <1>2, <2>1, JoinedText
  <2>4. \A i \in 1 .. Len(c) : w[n + i] = c[i]
    BY <1>2, <2>1, JoinedText
  <2>5. SubSeq(w, q, k) = SubSeq(m, q, n) \o c
    BY <1>2, <2>1, JoinedText
  <2> QED BY <2>2, <2>3, <2>4, <2>5
<1>4. NextString(w, k, q).err = "NONE"
  BY <1>1
<1> HIDE DEF w, k
<1>5. q \in 1 .. k /\ k <= Len(w) /\ w[q] = DoubleQuote
  BY <1>0, <1>3 DEF SameInput
<1>6. PICK r \in q + 1 .. k : /\ NextString(w, k, q) = Token("s", q + 1, r, r + 1)
                              /\ Reference!IsString(SubSeq(w, q, r))
  BY <1>3, <1>4, <1>5, StringFound
<1>7. r > n
  <2>1. CASE r <= n
    <3>1. r \in q .. n /\ n <= Len(w)
      BY <1>0, <1>3, <2>1
    <3>2. NextString(w, n, q) = Token("s", q + 1, r, r + 1)
      BY <1>0, <1>3, <1>6, <3>1, StringLexed
    <3>3. NextString(m, n, q) = NextString(w, n, q)
      <4>1. q \in Nat
        OBVIOUS
      <4> QED BY <1>0, <1>3, <4>1, SameString
    <3> QED BY <3>2, <3>3 DEF Token
  <2> QED BY <1>0, <2>1
<1>8. w[r] = DoubleQuote
  <2>1. q \in Nat \ {0} /\ r \in Nat /\ r <= Len(w) /\ q <= r
    BY <1>3
  <2> QED BY <1>3, <1>6, <2>1, StringInside
<1>9. r = k
  <2>1. \A i \in 1 .. Len(c) : c[i] = DoubleQuote => i = Len(c)
    <3>1. "n" # DoubleQuote /\ "0" # DoubleQuote
      BY Zenon DEF DoubleQuote
    <3>2. CASE c = <<DoubleQuote>>
      BY <3>2
    <3>3. CASE c = <<"n", DoubleQuote>>
      BY <3>1, <3>3
    <3>4. CASE c = <<"0", DoubleQuote>>
      BY <3>1, <3>4
    <3>5. CASE c = <<"0", "0", DoubleQuote>>
      BY <3>1, <3>5
    <3>6. CASE c = <<"0", "0", "0", DoubleQuote>>
      BY <3>1, <3>6
    <3>7. CASE c = <<"0", "0", "0", "0", DoubleQuote>>
      BY <3>1, <3>7
    <3> QED BY <3>2, <3>3, <3>4, <3>5, <3>6, <3>7, Zenon DEF Closings
  <2>2. r - n \in 1 .. Len(c) /\ n + (r - n) = r
    BY <1>0, <1>2, <1>3, <1>7 DEF k
  <2>3. c[r - n] = DoubleQuote
    BY <1>3, <1>8, <2>2
  <2>4. r - n = Len(c)
    BY <2>1, <2>2, <2>3
  <2> QED BY <1>0, <1>2, <2>4 DEF k
<1>10. Reference!IsToken(SubSeq(w, q, k))
  <2>1. q \in 1 .. Len(w) /\ k \in q .. Len(w)
    BY <1>3, <1>5
  <2> QED BY <1>3, <1>5, <1>6, <1>9, <2>1, PartIsToken
<1> QED BY <1>2, <1>3, <1>10

\* The same of a number.
LEMMA NumberBegins ==
  ASSUME NEW m \in Seq(STRING), NEW n, n = Len(m), NEW q \in 1 .. n,
         m[q] \in Begins, NextNumber(m, n, q).type = "end"
  PROVE  \E c \in Reference!Completions : Reference!IsToken(SubSeq(m, q, n) \o c)
<1> DEFINE c == <<"0">>
           w == m \o c
           k == n + 1
<1>0. n \in Nat /\ n <= Len(m)
  OBVIOUS
<1>1. c \in Reference!Completions
  BY Zenon DEF Reference!Completions
<1>2. c \in Seq(STRING) /\ Len(c) = 1 /\ c[1] = "0"
  BY <1>1, CompletionsAreTexts
<1> HIDE DEF c
<1>3. /\ w \in Seq(STRING) /\ Len(w) = k /\ k \in Nat /\ n <= k
      /\ SameInput(m, w, n) /\ w[n + 1] = "0"
      /\ SubSeq(w, q, k) = SubSeq(m, q, n) \o c
  <2>0. c \in Seq(STRING)
    BY <1>2
  <2>1. k = n + Len(c) /\ w = m \o c
    BY <1>2
  <2> HIDE DEF w, k
  <2>2. w \in Seq(STRING) /\ Len(w) = k /\ k \in Nat /\ n <= k
    BY <2>0, <2>1, JoinedText
  <2>3. SameInput(m, w, n)
    BY <2>0, <2>1, JoinedText
  <2>4. \A i \in 1 .. Len(c) : w[n + i] = c[i]
    BY <2>0, <2>1, JoinedText
  <2>5. SubSeq(w, q, k) = SubSeq(m, q, n) \o c
    BY <2>0, <2>1, JoinedText
  <2>6. 1 \in 1 .. Len(c)
    BY <1>2
  <2> QED BY <1>2, <2>6, <2>2, <2>3, <2>4, <2>5
<1>4. NextNumber(w, n, q).type = "end"
  <2> HIDE DEF w
  <2>1. NextNumber(m, n, q) = NextNumber(w, n, q)
    BY <1>0, <1>3, SameNumber
  <2> QED BY <2>1
<1> HIDE DEF w
<1>5. NextNumber(w, k, q) = Token("0", q, n + 2, n + 2)
  BY <1>0, <1>3, <1>4, NumberGoesOn
<1>6. q \in 1 .. k /\ k <= Len(w) /\ w[q] = m[q]
  BY <1>0, <1>3 DEF SameInput
<1>7. NextNumber(w, k, q).err = "NONE"
  BY <1>5 DEF Token
<1>8. k = n + 1 /\ n + 2 = k + 1
  BY <1>0
<1> HIDE DEF k
<1>9. PICK a, b, d, e \in Nat :
         /\ NextNumber(w, k, q) = Token("0", q, e + 1, e + 1) /\ e <= k
         /\ NumberCut(w, q, a, b, d, e) /\ Longest(w, k, b, d, e)
  BY <1>3, <1>6, <1>7, NumberFound
<1>10. e = k
  <2>1. e + 1 = n + 2
    BY <1>5, <1>9 DEF Token
  <2> QED BY <1>3, <1>8, <1>9, <2>1
<1>11. NumberAt(w, q, k)
  BY <1>9, <1>10, Zenon DEF NumberAt
<1>12. Reference!IsToken(SubSeq(w, q, k))
  <2>1. q \in 1 .. Len(w) /\ k \in q .. Len(w)
    BY <1>3, <1>6
  <2> QED BY <1>3, <1>6, <1>11, <2>1, PartIsToken
<1> QED BY <1>1, <1>3, <1>12

\* The same of a keyword.
LEMMA KeywordBegins ==
  ASSUME NEW m \in Seq(STRING), NEW n, n = Len(m), NEW q \in 1 .. n,
         NEW word \in Reference!Keywords, NEW rest, IsWord(word, m[q], rest),
         m[q] # "end", NextKeyword(m, n, q, rest).type = "end"
  PROVE  \E c \in Reference!Completions : SubSeq(m, q, n) \o c = word
<1>0. n \in Nat /\ n <= Len(m)
  OBVIOUS
<1>1. PICK T : word \in Seq(T)
  BY DEF IsWord
<1>2. /\ Len(rest) \in Nat \ {0} /\ Len(word) = Len(rest) + 1 /\ word[1] = m[q]
      /\ \A i \in 1 .. Len(rest) : word[i + 1] = rest[i]
  BY DEF IsWord
<1>3. PICK j \in 1 .. Len(rest) : q + j = n + 1 /\ \A i \in 1 .. j - 1 : m[q + i] = rest[i]
  <2>1. Len(rest) \in Nat
    BY <1>2
  <2> QED BY <1>0, <2>1, KeywordEnded
<1> DEFINE l == Len(word)
           b == j + 1
           c == SubSeq(word, b, l)
           r == SubSeq(m, q, n)
<1>4. j \in Nat \ {0} /\ l \in Nat /\ b \in 2 .. l /\ n - q + 1 = j
  BY <1>0, <1>2, <1>3
<1>5. c \in Reference!Completions
  <2>1. c \in Reference!KeywordEnds
    <3> DEFINE E(x) == {SubSeq(x, i, Len(x)) : i \in 2 .. Len(x)}
    <3>1. c \in E(word)
      BY <1>4
    <3> HIDE DEF c
    <3>2. Reference!KeywordEnds = UNION {E(x) : x \in Reference!Keywords}
      BY Zenon DEF Reference!KeywordEnds
    <3> HIDE DEF E
    <3> QED BY <3>1, <3>2
  <2> QED BY <2>1, Zenon DEF Reference!Completions
<1>6. c \in Seq(STRING)
  BY <1>5, CompletionsAreTexts
<1>7. Len(c) = l - j /\ \A i \in 1 .. l - j : c[i] = word[j + i]
  <2>1. Len(c) = l - b + 1 /\ \A i \in 1 .. l - b + 1 : c[i] = word[b + i - 1]
    <3> HIDE DEF b
    <3> QED BY <1>1, <1>4
  <2>2. l - b + 1 = l - j /\ \A i \in 1 .. l - j : b + i - 1 = j + i
    BY <1>4
  <2> HIDE DEF c, l, b
  <2> QED BY <2>1, <2>2
<1>8. r \in Seq(STRING) /\ Len(r) = j /\ \A i \in 1 .. j : r[i] = m[q + i - 1]
  <2>1. q \in Nat \ {0} /\ n \in Nat /\ n <= Len(m) /\ q <= n + 1
    BY <1>0
  <2>2. /\ SubSeq(m, q, n) \in Seq(STRING) /\ Len(SubSeq(m, q, n)) = n - q + 1
        /\ \A i \in 1 .. n - q + 1 : SubSeq(m, q, n)[i] = m[q + i - 1]
    BY <2>1, SubSeqFacts
  <2> HIDE DEF r
  <2> QED BY <1>4, <2>2 DEF r
<1>9. l - j \in Nat
  BY <1>4
<1> HIDE DEF c, r, l
<1>10. r \o c \in Seq(STRING) /\ Len(r \o c) = l
  <2>1. r \o c \in Seq(STRING) /\ Len(r \o c) = Len(r) + Len(c)
    BY <1>6, <1>8, JoinedFacts
  <2>2. Len(r) + Len(c) = l
    BY <1>4, <1>7, <1>8
  <2> QED BY <2>1, <2>2
<1>11. ASSUME NEW i \in 1 .. l PROVE (r \o c)[i] = word[i]
  <2>1. CASE i <= j
    <3>1. i \in 1 .. j
      BY <1>4, <2>1
    <3>2. (r \o c)[i] = m[q + i - 1]
      BY <1>4, <1>6, <1>8, <3>1
    <3>3. CASE i = 1
      BY <1>2, <3>2, <3>3
    <3>4. CASE i > 1
      <4>1. i - 1 \in 1 .. j - 1 /\ i - 1 \in 1 .. Len(rest) /\ q + i - 1 = q + (i - 1) /\ (i - 1) + 1 = i
        BY <1>2, <1>4, <3>1, <3>4
      <4>2. m[q + (i - 1)] = rest[i - 1] /\ word[i] = rest[i - 1]
        BY <1>2, <1>3, <4>1
      <4> QED BY <3>2, <4>1, <4>2
    <3>5. i = 1 \/ i > 1
      BY <3>1
    <3> QED BY <3>3, <3>4, <3>5, Zenon
  <2>2. CASE i > j
    <3>1. i - j \in 1 .. l - j /\ j + (i - j) = i
      BY <1>4, <2>2
    <3>2. (r \o c)[i] = c[i - j]
      <4>1. \A x \in 1 .. Len(c) : (r \o c)[Len(r) + x] = c[x]
        BY <1>6, <1>8, JoinedFacts
      <4>2. i - j \in 1 .. Len(c) /\ Len(r) + (i - j) = i
        BY <1>4, <1>7, <1>8, <3>1
      <4> QED BY <4>1, <4>2
    <3> QED BY <1>7, <3>1, <3>2
  <2>3. i <= j \/ i > j
    BY <1>4
  <2> QED BY <2>1, <2>2, <2>3, Zenon
<1>12. r \o c = word
  <2>1. Len(word) = l
    BY DEF l
  <2> QED BY <1>1, <1>10, <1>11, <2>1, SequencesAlike
<1> QED BY <1>5, <1>12 DEF r

\* Whatever byte is there, lexer_next comes to an outcome, or calls it a
\* character that begins nothing.
LEMMA TokenAtOutcome ==
  ASSUME NEW m, NEW n \in Nat, NEW q \in Nat
  PROVE  \/ Outcome(TokenAt(m, n, q))
         \/ TokenAt(m, n, q) = Fault("character", "PARTIAL", q)
<1>1. CASE m[q] \in Symbols
  BY <1>1, TokenAtCases, TokenOutcome
<1>2. CASE m[q] = DoubleQuote \/ m[q] \in Begins
  BY <1>2, TokenAtCases, StringOutcome, NumberOutcome
<1>3. CASE m[q] \in {"t", "f", "n"}
  BY <1>3, TokenAtCases, KeywordOutcome
<1> QED BY <1>1, <1>2, <1>3, TokenAtCases

\* A keyword is a token.
LEMMA WordIsToken ==
  ASSUME NEW word \in Reference!Keywords, NEW first \in {"t", "f", "n"}, NEW rest,
         IsWord(word, first, rest)
  PROVE  Reference!IsToken(word)
<1>1. PICK T : word \in Seq(T)
  BY DEF IsWord
<1>2. Len(rest) \in Nat \ {0} /\ Len(word) = Len(rest) + 1 /\ word[1] = first
  BY DEF IsWord
<1>3. word # << >>
  <2>1. Len(word) # 0
    BY <1>2
  <2> QED BY <1>1, <2>1
<1>4. first \notin Begins /\ first # DoubleQuote
  BY BytesDiffer
<1> QED BY <1>2, <1>3, <1>4, TokenByFirst DEF Begins

\* A byte that can begin no token.
LEMMA NoTokenBegins ==
  ASSUME NEW x \in STRING, x # DoubleQuote, x \notin Begins, x \notin Symbols, x \notin {"t", "f", "n"}
  PROVE  ~Reference!CanBegin(<<x>>)
<1> SUFFICES ASSUME NEW c \in Reference!Completions, Reference!IsToken(<<x>> \o c)
             PROVE  FALSE
  BY Zenon DEF Reference!CanBegin
<1> DEFINE s == <<x>> \o c
<1>1. c \in Seq(STRING)
  BY CompletionsAreTexts
<1>2. <<x>> \in Seq(STRING) /\ Len(<<x>>) = 1 /\ <<x>>[1] = x
  <2>1. <<x>> \in Seq({x})
    OBVIOUS
  <2>2. {x} \subseteq STRING
    OBVIOUS
  <2> QED BY <2>1, <2>2, WiderSeq
<1>3. s # << >> /\ s[1] = x
  <2>1. s \in Seq(STRING) /\ Len(s) = 1 + Len(c) /\ s[1] = x
    BY <1>1, <1>2, JoinedFacts
  <2>2. Len(s) # 0
    BY <1>1, <2>1
  <2> HIDE DEF s
  <2> QED BY <2>1, <2>2
<1>4. Reference!IsToken(s)
  OBVIOUS
<1> HIDE DEF s
<1>5. s \in Reference!Keywords \/ \E d \in Symbols : s = <<d>>
  BY <1>3, <1>4, TokenByFirst DEF Begins
<1>6. s \notin Reference!Keywords
  BY <1>3, KeywordsAreWords DEF IsWord
<1>7. \A d \in Symbols : s # <<d>>
  BY <1>3
<1> QED BY <1>5, <1>6, <1>7

\* An input that ended: what is there begins a token and is none.
LEMMA EndedBegins ==
  ASSUME NEW m \in Seq(STRING), NEW n, n = Len(m), NEW q \in 1 .. n,
         TokenAt(m, n, q).err = "PARTIAL"
  PROVE  \/ TokenAt(m, n, q).type = "end" /\ Reference!CanBegin(SubSeq(m, q, n))
         \/ TokenAt(m, n, q).type = "character" /\ ~Reference!CanBegin(<<m[q]>>)
<1>0. n \in Nat /\ q \in Nat
  OBVIOUS
<1>1. ASSUME Outcome(TokenAt(m, n, q)) PROVE TokenAt(m, n, q).type = "end"
  BY <1>1 DEF Outcome
<1>2. (\E c \in Reference!Completions : Reference!IsToken(SubSeq(m, q, n) \o c))
        => Reference!CanBegin(SubSeq(m, q, n))
  BY Zenon DEF Reference!CanBegin
<1>3. CASE m[q] = DoubleQuote
  <2>1. TokenAt(m, n, q) = NextString(m, n, q)
    BY <1>3, TokenAtCases
  <2>2. NextString(m, n, q).type = "end"
    BY <1>0, <1>1, <2>1, StringOutcome
  <2> QED BY <1>2, <1>3, <2>1, <2>2, StringBegins
<1>4. CASE m[q] \in Begins
  <2>1. TokenAt(m, n, q) = NextNumber(m, n, q)
    BY <1>4, TokenAtCases
  <2>2. NextNumber(m, n, q).type = "end"
    BY <1>0, <1>1, <2>1, NumberOutcome
  <2> QED BY <1>2, <1>4, <2>1, <2>2, NumberBegins
<1>5. CASE m[q] \in Symbols
  BY <1>5, TokenAtCases DEF Token
<1>6. ASSUME m[q] \in {"t", "f", "n"}, NEW word \in Reference!Keywords, NEW rest,
             IsWord(word, m[q], rest), TokenAt(m, n, q) = NextKeyword(m, n, q, rest)
      PROVE  TokenAt(m, n, q).type = "end" /\ Reference!CanBegin(SubSeq(m, q, n))
  <2>1. NextKeyword(m, n, q, rest).type = "end"
    BY <1>0, <1>1, <1>6, KeywordOutcome
  <2>2. m[q] # "end"
    BY <1>6
  <2>3. PICK c \in Reference!Completions : SubSeq(m, q, n) \o c = word
    BY <1>6, <2>1, <2>2, KeywordBegins
  <2>4. Reference!IsToken(word)
    BY <1>6, WordIsToken
  <2> QED BY <1>2, <1>6, <2>1, <2>3, <2>4
<1>7. True \in Reference!Keywords /\ False \in Reference!Keywords /\ Null \in Reference!Keywords
  BY KeywordsAreWords
<1>8. CASE m[q] = "t"
  <2>1. IsWord(True, m[q], OfTrue) /\ TokenAt(m, n, q) = NextKeyword(m, n, q, OfTrue)
    BY <1>8, KeywordsAreWords, TokenAtCases
  <2> QED BY <1>6, <1>7, <1>8, <2>1
<1>9. CASE m[q] = "f"
  <2>1. IsWord(False, m[q], OfFalse) /\ TokenAt(m, n, q) = NextKeyword(m, n, q, OfFalse)
    BY <1>9, KeywordsAreWords, TokenAtCases
  <2> QED BY <1>6, <1>7, <1>9, <2>1
<1>10. CASE m[q] = "n"
  <2>1. IsWord(Null, m[q], OfNull) /\ TokenAt(m, n, q) = NextKeyword(m, n, q, OfNull)
    BY <1>10, KeywordsAreWords, TokenAtCases
  <2> QED BY <1>6, <1>7, <1>10, <2>1
<1>11. CASE /\ m[q] # DoubleQuote /\ m[q] \notin Begins /\ m[q] \notin Symbols
            /\ m[q] \notin {"t", "f", "n"}
  <2>1. TokenAt(m, n, q) = Fault("character", "PARTIAL", q)
    BY <1>11, TokenAtCases
  <2>2. m[q] \in STRING
    OBVIOUS
  <2>3. ~Reference!CanBegin(<<m[q]>>)
    BY <1>11, <2>2, NoTokenBegins
  <2> QED BY <2>1, <2>3 DEF Fault
<1> QED BY <1>3, <1>4, <1>5, <1>8, <1>9, <1>10, <1>11

\* A wrong byte: no token begins there, and none can be made of it.
LEMMA WrongBegins ==
  ASSUME NEW m \in Seq(STRING), NEW n, n = Len(m), NEW q \in 1 .. n,
         TokenAt(m, n, q).err \notin {"NONE", "PARTIAL"}
  PROVE  /\ ~Reference!BeginsWithToken(SubSeq(m, q, n))
         /\ ~Reference!CanBegin(SubSeq(m, q, n))
<1>0. n \in Nat /\ q \in Nat /\ n <= Len(m)
  OBVIOUS
<1> DEFINE r == SubSeq(m, q, n)
           d == n - q + 1
<1>1. d \in Nat /\ r \in Seq(STRING) /\ Len(r) = d /\ \A i \in 1 .. d : r[i] = m[q + i - 1]
  <2>1. q \in Nat \ {0} /\ n \in Nat /\ n <= Len(m) /\ q <= n + 1
    BY <1>0
  <2> QED BY <2>1, SubSeqFacts
<1>2. ~Reference!BeginsWithToken(r)
  <2> SUFFICES ASSUME Reference!BeginsWithToken(r) PROVE FALSE
    OBVIOUS
  <2> HIDE DEF r, d
  <2>1. PICK i \in 1 .. Len(r) :
          /\ Reference!IsToken(SubSeq(r, 1, i))
          /\ i = Len(r) \/ r[i + 1] \in {" ", "TAB", "CR", "LF", "{", "}", "[", "]", ":", ","}
    BY Zenon DEF Reference!BeginsWithToken
  <2> DEFINE e == q + i - 1
  <2>2. e \in q .. n /\ i \in Nat /\ i <= d /\ (i = Len(r) => e = n)
          /\ (i # Len(r) => i + 1 \in 1 .. d /\ q + (i + 1) - 1 = e + 1)
    <3>1. i \in Nat /\ i >= 1 /\ i <= d
      BY <1>1
    <3>2. e \in q .. n /\ (i = d => e = n) /\ (i # d => i + 1 \in 1 .. d)
            /\ q + (i + 1) - 1 = e + 1
      <4>1. d = n - q + 1
        BY DEF d
      <4> QED BY <1>0, <3>1, <4>1
    <3>3. Len(r) = d
      BY <1>1
    <3> HIDE DEF e
    <3> QED BY <3>1, <3>2, <3>3
  <2>3. SubSeq(r, 1, i) = SubSeq(m, q, e)
    <3>1. /\ SubSeq(r, 1, i) \in Seq(STRING) /\ Len(SubSeq(r, 1, i)) = i
          /\ \A j \in 1 .. i : SubSeq(r, 1, i)[j] = r[j]
      BY <1>1, <2>2
    <3>2. /\ SubSeq(m, q, e) \in Seq(STRING) /\ Len(SubSeq(m, q, e)) = i
          /\ \A j \in 1 .. i : SubSeq(m, q, e)[j] = m[q + j - 1]
      <4>1. q \in Nat \ {0} /\ e \in Nat /\ e <= Len(m) /\ q <= e + 1 /\ e - q + 1 = i
        BY <1>0, <2>2
      <4> HIDE DEF e
      <4>2. /\ SubSeq(m, q, e) \in Seq(STRING) /\ Len(SubSeq(m, q, e)) = e - q + 1
            /\ \A j \in 1 .. e - q + 1 : SubSeq(m, q, e)[j] = m[q + j - 1]
        BY <4>1, SubSeqFacts
      <4> QED BY <4>1, <4>2
    <3>3. \A j \in 1 .. i : j \in 1 .. d
      BY <1>1, <2>2
    <3> HIDE DEF e
    <3>4. \A j \in 1 .. i : SubSeq(r, 1, i)[j] = SubSeq(m, q, e)[j]
      BY <1>1, <3>1, <3>2, <3>3
    <3> QED BY <3>1, <3>2, <3>4, SequencesAlike
  <2>4. EndsAt(m, n, e, Continues)
    <3>1. CASE i = Len(r)
      BY <2>2, <3>1 DEF EndsAt
    <3>2. CASE i # Len(r)
      <4>1. r[i + 1] = m[e + 1]
        <5> HIDE DEF e
        <5> QED BY <1>1, <2>2, <3>2
      <4>2. \A c \in {" ", "TAB", "CR", "LF", "{", "}", "[", "]", ":", ","} : c \notin Continues
        BY DEF Continues, Digit
      <4> HIDE DEF e
      <4> QED BY <2>1, <3>2, <4>1, <4>2 DEF EndsAt
    <3> QED BY <3>1, <3>2
  <2>5. Reference!IsToken(SubSeq(m, q, e))
    BY <2>1, <2>3
  <2> HIDE DEF e
  <2>6. PICK t, x, y : TokenAt(m, n, q) = Token(t, x, y, e + 1)
    BY <1>0, <2>2, <2>4, <2>5, TokenLexed
  <2> QED BY <2>6 DEF Token
<1>3. ~Reference!CanBegin(r)
  <2> SUFFICES ASSUME NEW c \in Reference!Completions, Reference!IsToken(r \o c)
               PROVE  FALSE
    BY Zenon DEF Reference!CanBegin
  <2>1. c \in Seq(STRING)
    BY CompletionsAreTexts
  <2> DEFINE w == m \o c
             k == n + Len(c)
  <2>2. w = m \o c /\ k = n + Len(c)
    OBVIOUS
  <2> HIDE DEF w, k
  <2>3. w \in Seq(STRING) /\ Len(w) = k /\ k \in Nat /\ n <= k
    BY <2>1, <2>2, JoinedText
  <2>4. SameInput(m, w, n)
    BY <2>1, <2>2, JoinedText
  <2>5. SubSeq(w, q, k) = r \o c
    BY <2>1, <2>2, JoinedText
  <2>6. Reference!IsToken(SubSeq(w, q, k))
    BY <2>5
  <2>7. EndsAt(w, k, k, Continues) /\ q \in 1 .. k /\ k \in q .. k /\ k <= Len(w)
    BY <1>0, <2>3 DEF EndsAt
  <2>8. PICK t, x, y : TokenAt(w, k, q) = Token(t, x, y, k + 1)
    BY <2>3, <2>6, <2>7, TokenLexed
  <2>9. TokenAt(w, n, q) = TokenAt(m, n, q)
    BY <1>0, <2>4, SameTokenAt
  <2>10. Stands(TokenAt(w, n, q), TokenAt(w, k, q), n)
    BY <1>0, <2>3, TokenAtStands
  <2>11. TokenAt(m, n, q).type \notin {"end", "0"}
    <3>1. TokenAt(m, n, q) # Fault("character", "PARTIAL", q)
      BY DEF Fault
    <3>2. Outcome(TokenAt(m, n, q))
      BY <1>0, <3>1, TokenAtOutcome
    <3> QED BY <3>2 DEF Outcome
  <2>12. TokenAt(m, n, q) = Token(t, x, y, k + 1)
    BY <2>8, <2>9, <2>10, <2>11 DEF Stands
  <2> QED BY <2>12 DEF Token
<1> QED BY <1>2, <1>3

-----------------------------------------------------------------------------
(* The text that arrives.                                                  *)

\* What lexer_next returns is one token of JSON, all of it and with its type,
\* behind nothing but blanks: the loops over strings, numbers and keywords stop
\* where the grammar says, in every text over the bytes and wherever it is cut.
THEOREM TokensAreRight == Spec => []TokenIsRight
<1>1. TextOK => TokenIsRight
  <2> SUFFICES ASSUME TextOK, Whole.err = "NONE"
               PROVE  /\ From(Whole) = FirstByte
                      /\ Reference!IsToken(Lexeme(Whole))
                      /\ Whole.type = TypeOfToken(Lexeme(Whole))
                      /\ \A e \in Whole.pos .. Len(text) :
                           ~Reference!IsToken(SubSeq(text, From(Whole), e))
    BY DEF TokenIsRight
  <2> DEFINE n == Len(text)
             q == FirstByte
             v == Whole
  <2>1. text \in Seq(STRING) /\ n \in Nat
    BY TextIsText
  <2>2. q \in 1 .. n /\ v = TokenAt(text, n, q)
    <3>1. v # Fault("end", "PARTIAL", n + 1)
      BY DEF Fault
    <3> QED BY <2>1, <3>1, WholeAtFirst
  <2>3. n <= Len(text) /\ n = Len(text)
    BY <2>1
  <2> HIDE DEF n, q, v
  <2>4. PICK e \in q .. n : Found(text, n, q, TokenAt(text, n, q), e)
    <3>1. TokenAt(text, n, q).err = "NONE"
      BY <2>2 DEF v
    <3> QED BY <2>1, <2>2, <2>3, <3>1, TokenFound
  <2>5. Found(text, n, q, v, e)
    BY <2>2, <2>4
  <2>6. q \in Nat /\ e \in Nat /\ q \in 1 .. Len(text) /\ e \in q .. Len(text)
    BY <2>2, <2>3, <2>4
  <2>7. From(v) = q /\ v.pos = e + 1 /\ v.pos - 1 = e
    BY <2>5, <2>6 DEF Found, From
  <2>8. Lexeme(v) = SubSeq(text, q, e)
    BY <2>7 DEF Lexeme
  <2>9. Reference!IsToken(Lexeme(v)) /\ v.type = KindOf(text[q])
    BY <2>5, <2>8 DEF Found
  <2>10. SubSeq(text, q, e)[1] = text[q]
    BY <2>1, <2>6, PartIsToken
  <2>11. v.type = TypeOfToken(Lexeme(v))
    BY <2>8, <2>9, <2>10, KindIsType
  <2>12. \A l \in v.pos .. n : ~Reference!IsToken(SubSeq(text, From(v), l))
    BY <2>5, <2>7 DEF Found
  <2> QED BY <2>3, <2>7, <2>9, <2>11, <2>12 DEF v, q
<1> QED BY <1>1, TextIsBytes, PTL

\* PARTIAL means that a token has begun which more input completes, or that the
\* byte can begin none (the code has no other error for it); any other fault
\* that no token begins there and none can be made of what is there.
THEOREM FaultsAreRight == Spec => []FaultIsRight
<1>1. TextOK => FaultIsRight
  <2> SUFFICES ASSUME TextOK
               PROVE  /\ Whole.err = "PARTIAL" =>
                           \/ Rest = << >>
                           \/ /\ Whole.type = "end" /\ Reference!CanBegin(Rest)
                              /\ ~Reference!IsToken(Rest)
                           \/ Whole.type = "character" /\ ~Reference!CanBegin(<<Rest[1]>>)
                      /\ Whole.err \notin {"NONE", "PARTIAL"} =>
                           ~Reference!BeginsWithToken(Rest) /\ ~Reference!CanBegin(Rest)
    BY Zenon DEF FaultIsRight
  <2> DEFINE n == Len(text)
             q == FirstByte
             v == Whole
  <2>1. text \in Seq(STRING) /\ n \in Nat
    BY TextIsText
  <2>2. n <= Len(text) /\ n = Len(text)
    BY <2>1
  <2>3. Rest = SubSeq(text, q, n)
    BY DEF Rest
  <2>4. \/ q = n + 1 /\ v = Fault("end", "PARTIAL", n + 1)
        \/ q \in 1 .. n /\ v = TokenAt(text, n, q)
    BY <2>1, WholeAtFirst
  <2> HIDE DEF n, q, v
  <2>5. CASE q = n + 1 /\ v = Fault("end", "PARTIAL", n + 1)
    <3>1. Rest = << >>
      BY <2>1, <2>3, <2>5
    <3>2. v.err = "PARTIAL"
      BY <2>5 DEF Fault
    <3> QED BY <3>1, <3>2 DEF v
  <2>6. CASE q \in 1 .. n /\ v = TokenAt(text, n, q)
    <3>1. q \in 1 .. Len(text) /\ n \in q .. Len(text) /\ n \in q .. n
      BY <2>1, <2>2, <2>6
    <3>2. Rest[1] = text[q]
      BY <2>1, <2>3, <3>1, PartIsToken
    <3>3. ASSUME Reference!IsToken(Rest) PROVE v.err = "NONE"
      <4>1. EndsAt(text, n, n, Continues)
        BY DEF EndsAt
      <4>2. Reference!IsToken(SubSeq(text, q, n))
        BY <2>3, <3>3
      <4>3. \E t, x, y : TokenAt(text, n, q) = Token(t, x, y, n + 1)
        BY <2>1, <2>2, <2>6, <3>1, <4>1, <4>2, TokenLexed
      <4> QED BY <2>6, <4>3 DEF Token
    <3>4. CASE v.err = "PARTIAL"
      <4>1. ~Reference!IsToken(Rest)
        BY <3>3, <3>4
      <4>2. \/ v.type = "end" /\ Reference!CanBegin(SubSeq(text, q, n))
            \/ v.type = "character" /\ ~Reference!CanBegin(<<text[q]>>)
        BY <2>1, <2>2, <2>6, <3>4, EndedBegins
      <4> QED BY <2>3, <3>2, <3>4, <4>1, <4>2 DEF v
    <3>5. CASE v.err \notin {"NONE", "PARTIAL"}
      <4>1. ~Reference!BeginsWithToken(Rest) /\ ~Reference!CanBegin(Rest)
        BY <2>1, <2>2, <2>3, <2>6, <3>5, WrongBegins
      <4> QED BY <3>5, <4>1 DEF v
    <3>6. CASE v.err = "NONE"
      BY <3>6 DEF v
    <3> QED BY <3>4, <3>5, <3>6
  <2> QED BY <2>4, <2>5, <2>6
<1> QED BY <1>1, TextIsBytes, PTL
=============================================================================
