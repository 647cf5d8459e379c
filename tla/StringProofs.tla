---------------------------- MODULE StringProofs ----------------------------
(***************************************************************************)
(* The string codec behind the lexer: decode_string stores what the string *)
(* of the reference stands for, in a buffer of any size, and encode_cstr   *)
(* writes a token that decode_string turns into the same bytes again.      *)
(*                                                                         *)
(* lexer_next and decode_string look at the text by position, the          *)
(* reference defines chars, their code points and UTF-8 by recursion over  *)
(* sequences.  The recursive functions of both are replaced by their       *)
(* equations, and induction goes from the end of the string to its start.  *)
(***************************************************************************)
EXTENDS TokenProofs, SequenceTheorems

-----------------------------------------------------------------------------
(* The tables of the escapes.                                              *)

\* A table of pairs, no two with the same first part, as a function.
IsTable(T) == \A d, e \in T : d[1] = e[1] => d = e
TableFunction(T) == [x \in {e[1] : e \in T} |-> (CHOOSE e \in T : e[1] = x)[2]]

\* Such a table is looked up by the first parts.
LEMMA LookUp ==
  ASSUME NEW T, IsTable(T), NEW e \in T
  PROVE  e[1] \in DOMAIN TableFunction(T) /\ TableFunction(T)[e[1]] = e[2]
<1>1. e[1] \in {d[1] : d \in T}
  OBVIOUS
<1>2. (CHOOSE d \in T : d[1] = e[1]) = e
  BY DEF IsTable
<1> QED BY <1>1, <1>2 DEF TableFunction

\* The escapes that decode_string knows and those that encode_cstr writes.
EscapesRead ==
  {<<"b", "BS">>, <<"f", "FF">>, <<"n", "LF">>, <<"r", "CR">>, <<"t", "TAB">>,
   <<DoubleQuote, DoubleQuote>>, <<Backslash, Backslash>>, <<"/", "/">>}

EscapesWritten ==
  {<<"BS", "b">>, <<"FF", "f">>, <<"LF", "n">>, <<"CR", "r">>, <<"TAB", "t">>,
   <<DoubleQuote, DoubleQuote>>, <<Backslash, Backslash>>}

\* The letters of the escapes are neither a quote nor a backslash.
LEMMA QuotesDiffer ==
  /\ \A c \in {"b", "f", "n", "r", "t", "/", "u", "BS", "FF", "LF", "CR", "TAB"} :
       c # DoubleQuote /\ c # Backslash
  /\ Backslash # DoubleQuote
<1>1. \A c \in {"b", "f", "n", "r", "t", "/", "u"} : c # DoubleQuote /\ c # Backslash
  BY Zenon DEF DoubleQuote, Backslash
<1>2. \A c \in {"BS", "FF", "LF", "CR", "TAB"} : c # DoubleQuote /\ c # Backslash
  BY Zenon DEF DoubleQuote, Backslash
<1> QED BY <1>1, <1>2, NotTheSame

\* The two functions of the code are these tables.
LEMMA EscapesReadTable == IsTable(EscapesRead) /\ EscapedByte = TableFunction(EscapesRead)
<1>1. IsTable(EscapesRead)
  BY QuotesDiffer DEF IsTable, EscapesRead
<1>2. EscapesRead = ControlLetters \cup {<<c, c>> : c \in {DoubleQuote, Backslash, "/"}}
  BY DEF EscapesRead, ControlLetters
<1>3. EscapedByte = TableFunction(ControlLetters \cup {<<c, c>> : c \in {DoubleQuote, Backslash, "/"}})
  BY Zenon DEF EscapedByte, TableFunction, DoubleQuote, Backslash
<1> QED BY <1>1, <1>2, <1>3

\* The same of the one that encode_cstr has.
LEMMA EscapesWrittenTable == IsTable(EscapesWritten) /\ EscapeLetter = TableFunction(EscapesWritten)
<1>1. IsTable(EscapesWritten)
  BY QuotesDiffer DEF IsTable, EscapesWritten
<1> DEFINE T == {<<e[2], e[1]>> : e \in ControlLetters} \cup {<<c, c>> : c \in {DoubleQuote, Backslash}}
<1>2. EscapesWritten = T
  <2>1. {<<e[2], e[1]>> : e \in ControlLetters}
          = {<<"BS", "b">>, <<"FF", "f">>, <<"LF", "n">>, <<"CR", "r">>, <<"TAB", "t">>}
    BY DEF ControlLetters
  <2>2. {<<c, c>> : c \in {DoubleQuote, Backslash}}
          = {<<DoubleQuote, DoubleQuote>>, <<Backslash, Backslash>>}
    OBVIOUS
  <2> QED BY <2>1, <2>2 DEF EscapesWritten
<1>3. EscapeLetter = TableFunction(T)
  BY Zenon DEF EscapeLetter, TableFunction, DoubleQuote, Backslash
<1> QED BY <1>1, <1>2, <1>3

\* What decode_string makes of the letter of an escape.
LEMMA EscapeRead ==
  /\ EscapedByte["b"] = "BS" /\ EscapedByte["f"] = "FF" /\ EscapedByte["n"] = "LF"
  /\ EscapedByte["r"] = "CR" /\ EscapedByte["t"] = "TAB"
  /\ EscapedByte[DoubleQuote] = DoubleQuote /\ EscapedByte[Backslash] = Backslash
  /\ EscapedByte["/"] = "/"
<1>1. \A e \in EscapesRead : EscapedByte[e[1]] = e[2]
  BY EscapesReadTable, LookUp
<1> QED BY <1>1 DEF EscapesRead

\* The letters of the escapes are the same in lexer_next and decode_string.
LEMMA LettersAre == /\ EscapeLetters = {"b", "f", "n", "r", "t", "/", DoubleQuote, Backslash}
                    /\ DOMAIN EscapedByte = EscapeLetters
<1>1. EscapeLetters = {"b", "f", "n", "r", "t", "/", DoubleQuote, Backslash}
  BY Zenon DEF EscapeLetters, DoubleQuote, Backslash
<1>2. DOMAIN EscapedByte = {e[1] : e \in EscapesRead}
  BY EscapesReadTable DEF TableFunction
<1>3. {e[1] : e \in EscapesRead} = {"b", "f", "n", "r", "t", "/", DoubleQuote, Backslash}
  BY DEF EscapesRead
<1> QED BY <1>1, <1>2, <1>3

\* The control characters that have an escape of their own.
Controls == {"BS", "FF", "LF", "CR", "TAB"}

\* What encode_cstr writes for a byte.
LEMMA EscapeWritten ==
  /\ EscapeLetter["BS"] = "b" /\ EscapeLetter["FF"] = "f" /\ EscapeLetter["LF"] = "n"
  /\ EscapeLetter["CR"] = "r" /\ EscapeLetter["TAB"] = "t"
  /\ EscapeLetter[DoubleQuote] = DoubleQuote /\ EscapeLetter[Backslash] = Backslash
  /\ DOMAIN EscapeLetter = Controls \cup {DoubleQuote, Backslash}
<1>1. \A e \in EscapesWritten : EscapeLetter[e[1]] = e[2]
  BY EscapesWrittenTable, LookUp
<1>2. DOMAIN EscapeLetter = {e[1] : e \in EscapesWritten}
  BY EscapesWrittenTable DEF TableFunction
<1>3. {e[1] : e \in EscapesWritten} = Controls \cup {DoubleQuote, Backslash}
  BY DEF EscapesWritten, Controls
<1> QED BY <1>1, <1>2, <1>3 DEF EscapesWritten

\* An escape that encode_cstr writes, decode_string undoes.
LEMMA EscapeUndone ==
  ASSUME NEW c \in DOMAIN EscapeLetter
  PROVE  EscapeLetter[c] \in EscapeLetters /\ EscapedByte[EscapeLetter[c]] = c
<1>1. c \in Controls \cup {DoubleQuote, Backslash}
  BY EscapeWritten
<1>2. CASE c \in Controls
  BY <1>2, EscapeWritten, EscapeRead, LettersAre DEF Controls
<1>3. CASE c \in {DoubleQuote, Backslash}
  BY <1>3, EscapeWritten, EscapeRead, LettersAre
<1> QED BY <1>1, <1>2, <1>3

-----------------------------------------------------------------------------
(* The bytes, their codes, and UTF-8.                                      *)

\* The bytes and their codes.
LEMMA CharFacts ==
  ASSUME NEW n \in 0 .. 255
  PROVE  Char[n] \in Bytes /\ Code[Char[n]] = n
BY NamesDiffer DEF Bytes

\* And the other way round.
LEMMA CodeFacts ==
  ASSUME NEW c \in Bytes
  PROVE  Code[c] \in 0 .. 255 /\ Char[Code[c]] = c
<1>1. PICK n \in 0 .. 255 : c = Char[n]
  BY DEF Bytes
<1> QED BY <1>1, CharFacts

\* The reference counts the bytes as the code does.
LEMMA SameCode == Reference!Code = Code
<1>1. Reference!Printable = Printable
  BY Zenon DEF Reference!Printable, Printable, Reference!Chars, Chars
<1>2. Reference!Control = Control
  BY Zenon DEF Reference!Control, Control
<1>3. Reference!HexDigits = HexDigits
  BY Zenon DEF Reference!HexDigits, HexDigits
<1>4. Reference!Char = Char
  BY <1>1, <1>2, <1>3, Zenon DEF Reference!Char, Char
<1>5. Reference!Bytes = Bytes
  BY <1>4, Zenon DEF Reference!Bytes, Bytes
<1> DEFINE is(c) == CHOOSE n \in 0 .. 255 : Reference!Char[n] = c
<1>6. ASSUME NEW c \in Bytes PROVE is(c) = Code[c]
  <2>1. \E n \in 0 .. 255 : Reference!Char[n] = c
    BY <1>4, CodeFacts
  <2>2. is(c) \in 0 .. 255 /\ Reference!Char[is(c)] = c
    BY <2>1
  <2> HIDE DEF is
  <2>3. Char[is(c)] = c
    BY <1>4, <2>2
  <2> QED BY <2>2, <2>3, CharFacts
<1>7. Reference!Code = [c \in Bytes |-> is(c)]
  BY <1>5, Zenon DEF Reference!Code
<1> HIDE DEF is
<1> DEFINE js(c) == CHOOSE n \in 0 .. 255 : Char[n] = c
<1>8. Code = [c \in Bytes |-> js(c)]
  BY Zenon DEF Code
<1> HIDE DEF js
<1> QED BY <1>6, <1>7, <1>8

\* The control characters that have a name, by their codes.
ControlNames ==
  {<<0, "NUL">>, <<8, "BS">>, <<9, "TAB">>, <<10, "LF">>, <<12, "FF">>, <<13, "CR">>}

\* They are the bytes of their codes.
LEMMA ControlChars ==
  ASSUME NEW e \in ControlNames
  PROVE  Char[e[1]] = e[2] /\ e[1] \in 0 .. 255
<1>1. IsTable(ControlNames)
  BY DEF IsTable, ControlNames
<1>2. Control = TableFunction(ControlNames)
  BY Zenon DEF Control, TableFunction, ControlNames
<1>3. Control[e[1]] = e[2] /\ e[1] \in DOMAIN Control
  BY <1>1, <1>2, LookUp
<1>4. e[1] \in 0 .. 255 /\ e[1] \notin 32 .. 126 \ {96}
  BY DEF ControlNames
<1>5. DOMAIN Printable = 32 .. 126 \ {96}
  BY Zenon DEF Printable
<1>6. e[1] \notin DOMAIN Printable
  BY <1>4, <1>5
<1> QED BY <1>3, <1>4, <1>6 DEF Char

\* The byte of an escape is the one the reference means.
LEMMA EscapeMeans ==
  ASSUME NEW c \in EscapeLetters
  PROVE  /\ EscapedByte[c] \in Bytes /\ c \in Bytes /\ Code[EscapedByte[c]] < 128
         /\ Code[EscapedByte[c]] =
              IF c \in DOMAIN Reference!Letter THEN Reference!Letter[c] ELSE Code[c]
<1>0. c \in Bytes /\ Code[c] < 128
  BY EscapesAreAscii
<1>1. DOMAIN Reference!Letter = {"b", "t", "n", "f", "r"}
  BY DEF Reference!Letter
<1>2. CASE c \in {"b", "t", "n", "f", "r"}
  <2>1. PICK e \in ControlNames : EscapedByte[c] = e[2] /\ Reference!Letter[c] = e[1]
    <3>1. /\ EscapedByte["b"] = "BS" /\ EscapedByte["f"] = "FF" /\ EscapedByte["n"] = "LF"
          /\ EscapedByte["r"] = "CR" /\ EscapedByte["t"] = "TAB"
      BY EscapeRead
    <3>2. /\ Reference!Letter["b"] = 8 /\ Reference!Letter["t"] = 9 /\ Reference!Letter["n"] = 10
          /\ Reference!Letter["f"] = 12 /\ Reference!Letter["r"] = 13
      BY DEF Reference!Letter
    <3>3. <<8, "BS">> \in ControlNames /\ <<9, "TAB">> \in ControlNames /\ <<10, "LF">> \in ControlNames
            /\ <<12, "FF">> \in ControlNames /\ <<13, "CR">> \in ControlNames
      BY DEF ControlNames
    <3> QED BY <1>2, <3>1, <3>2, <3>3
  <2>2. Char[e[1]] = e[2] /\ e[1] \in 0 .. 255
    BY ControlChars
  <2>3. e[2] \in Bytes /\ Code[e[2]] = e[1]
    BY <2>2, CharFacts
  <2>4. e[1] < 128
    BY DEF ControlNames
  <2> QED BY <1>0, <1>1, <1>2, <2>1, <2>3, <2>4
<1>3. CASE c \notin {"b", "t", "n", "f", "r"}
  <2>1. c \in {"/", DoubleQuote, Backslash}
    BY <1>3, LettersAre
  <2>2. EscapedByte[c] = c
    BY <2>1, EscapeRead
  <2> QED BY <1>0, <1>1, <1>3, <2>2
<1> QED BY <1>2, <1>3

\* The value of a hexadecimal digit.
LEMMA HexFacts ==
  ASSUME NEW c \in Hexadecimal
  PROVE  HexValue[c] \in 0 .. 15
<1> DEFINE upper == HexDigits
           lower == Chars("0123456789abcdef")
           at(x) == {i \in 1 .. 16 : x \in {upper[i], lower[i]}}
<1>1. HexValue = [x \in {upper[i] : i \in 1 .. 16} \cup {lower[i] : i \in 1 .. 16} |->
                    (CHOOSE i \in 1 .. 16 : x \in {upper[i], lower[i]}) - 1]
  BY Zenon DEF HexValue
<1> HIDE DEF upper, lower
<1>2. \E i \in 1 .. 16 : c \in {upper[i], lower[i]}
  BY <1>1 DEF Hexadecimal
<1>3. HexValue[c] = (CHOOSE i \in 1 .. 16 : c \in {upper[i], lower[i]}) - 1
  BY <1>1, <1>2
<1>4. (CHOOSE i \in 1 .. 16 : c \in {upper[i], lower[i]}) \in 1 .. 16
  BY <1>2
<1> QED BY <1>3, <1>4

\* The bytes of a code point in UTF-8, and how they are read back.
ReadsAs(s, x) ==
  \/ Len(s) = 1 /\ Code[s[1]] = x /\ x < 128
  \/ /\ Len(s) = 2 /\ Code[s[1]] \in 194 .. 223 /\ Code[s[2]] \in 128 .. 191
     /\ x = (Code[s[1]] - 192) * 64 + Code[s[2]] - 128
  \/ /\ Len(s) = 3 /\ Code[s[1]] \in 224 .. 239
     /\ Code[s[2]] \in 128 .. 191 /\ Code[s[3]] \in 128 .. 191
     /\ Code[s[1]] = 224 => Code[s[2]] >= 160
     /\ Code[s[1]] = 237 => Code[s[2]] <= 159
     /\ x = (Code[s[1]] - 224) * 4096 + (Code[s[2]] - 128) * 64 + Code[s[3]] - 128

\* Two or three bytes, whose upper bits tell how many there are, or one; of a
\* surrogate three that are not UTF-8.
LEMMA Utf8Facts ==
  ASSUME NEW x \in Nat, x < 65536
  PROVE  /\ Utf8(x) \in Seq(Bytes) /\ Len(Utf8(x)) \in 1 .. 3
         /\ x \notin Reference!Surrogate => ReadsAs(Utf8(x), x)
<1>1. CASE x < 128
  <2>1. Utf8(x) = <<Char[x]>>
    BY <1>1 DEF Utf8
  <2>2. Char[x] \in Bytes /\ Code[Char[x]] = x
    BY <1>1, CharFacts
  <2> QED BY <1>1, <2>1, <2>2 DEF ReadsAs
<1>2. CASE x >= 128 /\ x < 2048
  <2> DEFINE q == x \div 64
             r == x % 64
             a == 192 + q
             b == 128 + r
  <2>1. q \in 2 .. 31 /\ r \in 0 .. 63 /\ x = 64 * q + r
    BY <1>2
  <2>2. Utf8(x) = <<Char[a], Char[b]>>
    BY <1>2 DEF Utf8
  <2> HIDE DEF q, r
  <2>3. a \in 194 .. 223 /\ b \in 128 .. 191 /\ a \in 0 .. 255 /\ b \in 0 .. 255
    BY <2>1
  <2>4. x = (a - 192) * 64 + b - 128
    BY <2>1
  <2> HIDE DEF a, b
  <2>5. Char[a] \in Bytes /\ Code[Char[a]] = a /\ Char[b] \in Bytes /\ Code[Char[b]] = b
    BY <2>3, CharFacts
  <2> QED BY <2>2, <2>3, <2>4, <2>5 DEF ReadsAs
<1>3. CASE x >= 2048
  <2> DEFINE q == x \div 64
             r == x % 64
             k == x \div 4096
             l == q % 64
             a == 224 + k
             b == 128 + l
             c == 128 + r
  <2>1. q \in Nat /\ 32 <= q /\ q < 1024 /\ r \in 0 .. 63 /\ x = 64 * q + r
    BY <1>3
  <2>2. Utf8(x) = <<Char[a], Char[b], Char[c]>>
    BY <1>3 DEF Utf8
  <2>3. k \in 0 .. 15 /\ l \in 0 .. 63 /\ q = 64 * k + l
    <3>1. k = q \div 64
      BY <1>3
    <3> HIDE DEF q, k
    <3>2. q \div 64 \in 0 .. 15 /\ q % 64 \in 0 .. 63 /\ q = 64 * (q \div 64) + (q % 64)
      BY <2>1
    <3> QED BY <3>1, <3>2
  <2> HIDE DEF q, r, k, l
  <2>4. /\ a \in 224 .. 239 /\ b \in 128 .. 191 /\ c \in 128 .. 191
        /\ a \in 0 .. 255 /\ b \in 0 .. 255 /\ c \in 0 .. 255
    BY <2>1, <2>3
  <2>5. a = 224 => b >= 160
    BY <2>1, <2>3
  <2>6. x = (a - 224) * 4096 + (b - 128) * 64 + c - 128
    BY <2>1, <2>3
  <2>8. x \notin Reference!Surrogate => (a = 237 => b <= 159)
    <3>1. x \notin Reference!Surrogate => ~(55296 <= x /\ x <= 57343)
      BY DEF Reference!Surrogate, Reference!High, Reference!Low
    <3>2. k = 13 /\ l >= 32 => 55296 <= x /\ x <= 57343
      BY <2>1, <2>3
    <3> QED BY <2>3, <3>1, <3>2
  <2> HIDE DEF a, b, c
  <2>7. /\ Char[a] \in Bytes /\ Code[Char[a]] = a /\ Char[b] \in Bytes /\ Code[Char[b]] = b
        /\ Char[c] \in Bytes /\ Code[Char[c]] = c
    BY <2>4, CharFacts
  <2> QED BY <2>2, <2>4, <2>5, <2>6, <2>7, <2>8 DEF ReadsAs
<1> QED BY <1>1, <1>2, <1>3

-----------------------------------------------------------------------------
(* What the loop of decode_string finds, and the loop.                     *)

\* The code point of the escape at src, and its digits that are none or missing.
CodePoint(m, src) ==
  ((HexValue[m[src + 1 + 1]] * 16 + HexValue[m[src + 1 + 2]]) * 16 + HexValue[m[src + 1 + 3]]) * 16
    + HexValue[m[src + 1 + 4]]
BadDigits(m, src, end) ==
  {i \in 1 .. 4 : src + 1 + i >= end \/ m[src + 1 + i] \notin DOMAIN HexValue}

\* What the loop of decode_string finds at src, by what is there.
LEMMA UnitCases ==
  ASSUME NEW m, NEW src, NEW end
  PROVE  /\ m[src] # Backslash => NextUnit(m, src, end) = Unit(<<m[src]>>, src + 1)
         /\ m[src] = Backslash /\ src + 1 >= end => NextUnit(m, src, end) = NoUnit("PARTIAL")
         /\ m[src] = Backslash /\ ~(src + 1 >= end) /\ m[src + 1] \in DOMAIN EscapedByte =>
              NextUnit(m, src, end) = Unit(<<EscapedByte[m[src + 1]]>>, src + 2)
         /\ /\ m[src] = Backslash /\ ~(src + 1 >= end) /\ m[src + 1] \notin DOMAIN EscapedByte
            /\ m[src + 1] = "u" /\ BadDigits(m, src, end) = {}
            => NextUnit(m, src, end) = Unit(Utf8(CodePoint(m, src)), src + 6)
         /\ \/ m[src] # Backslash
            \/ ~(src + 1 >= end) /\ m[src + 1] \in DOMAIN EscapedByte
            \/ ~(src + 1 >= end) /\ m[src + 1] = "u" /\ BadDigits(m, src, end) = {}
            \/ NextUnit(m, src, end) \in {NoUnit("PARTIAL"), NoUnit("INVALID_JSON")}
BY Zenon DEF NextUnit, Backslash, BadDigits, CodePoint

\* Four digits are a code point below 65536, and leave the loop in the token.
LEMMA CodePointFacts ==
  ASSUME NEW m, NEW src \in Nat, NEW end \in Nat, BadDigits(m, src, end) = {}
  PROVE  /\ CodePoint(m, src) \in Nat /\ CodePoint(m, src) < 65536 /\ src + 6 <= end
         /\ \A k \in src + 2 .. src + 5 : m[k] \in Hexadecimal
<1>1. \A i \in 1 .. 4 : src + 1 + i < end /\ m[src + 1 + i] \in Hexadecimal
  BY DEF BadDigits, Hexadecimal
<1> DEFINE a == HexValue[m[src + 1 + 1]]
           b == HexValue[m[src + 1 + 2]]
           c == HexValue[m[src + 1 + 3]]
           d == HexValue[m[src + 1 + 4]]
<1>2. a \in 0 .. 15 /\ b \in 0 .. 15 /\ c \in 0 .. 15 /\ d \in 0 .. 15
  BY <1>1, HexFacts
<1>3. CodePoint(m, src) = ((a * 16 + b) * 16 + c) * 16 + d
  BY DEF CodePoint
<1> HIDE DEF a, b, c, d
<1>4. CodePoint(m, src) \in Nat /\ CodePoint(m, src) < 65536
  BY <1>2, <1>3
<1>5. \A k \in src + 2 .. src + 5 : m[k] \in Hexadecimal
  <2> TAKE k \in src + 2 .. src + 5
  <2> DEFINE i == k - src - 1
  <2>1. i \in 1 .. 4 /\ src + 1 + i = k
    OBVIOUS
  <2> HIDE DEF i
  <2> QED BY <1>1, <2>1
<1>6. src + 6 <= end
  BY <1>1
<1> QED BY <1>4, <1>5, <1>6

\* What the loop can end with.
CopyErrors == {"NONE", "PARTIAL", "INVALID_JSON", "INSUFFICIENT_SPACE"}

\* A unit: bytes and how much of the token they stand for, or an error.
LEMMA UnitType ==
  ASSUME NEW m \in Seq(Bytes), NEW src \in Nat \ {0}, NEW end \in Nat, end <= Len(m) + 1, src < end
  PROVE  LET u == NextUnit(m, src, end) IN
         /\ u.err \in CopyErrors
         /\ u.err = "NONE" => /\ u.bytes \in Seq(Bytes) /\ Len(u.bytes) \in 1 .. 3
                              /\ u.next \in src + 1 .. end
<1>0. src \in 1 .. Len(m) /\ (src + 1 < end => src + 1 \in 1 .. Len(m))
  OBVIOUS
<1>a. m[src] \in Bytes
  BY <1>0
<1> DEFINE u == NextUnit(m, src, end)
<1>1. CASE m[src] # Backslash
  <2>1. u = Unit(<<m[src]>>, src + 1)
    BY <1>1, UnitCases
  <2>2. <<m[src]>> \in Seq(Bytes) /\ Len(<<m[src]>>) = 1
    BY <1>a
  <2> QED BY <2>1, <2>2 DEF Unit, CopyErrors
<1>2. CASE m[src] = Backslash /\ ~(src + 1 >= end) /\ m[src + 1] \in DOMAIN EscapedByte
  <2>1. u = Unit(<<EscapedByte[m[src + 1]]>>, src + 2)
    BY <1>2, UnitCases
  <2>2. EscapedByte[m[src + 1]] \in Bytes
    BY <1>2, LettersAre, EscapeMeans
  <2> DEFINE c == EscapedByte[m[src + 1]]
  <2> HIDE DEF c
  <2>3. <<c>> \in Seq(Bytes) /\ Len(<<c>>) = 1
    BY <2>2 DEF c
  <2> QED BY <1>2, <2>1, <2>3 DEF Unit, CopyErrors, c
<1>3. CASE /\ m[src] = Backslash /\ ~(src + 1 >= end) /\ m[src + 1] \notin DOMAIN EscapedByte
           /\ m[src + 1] = "u" /\ BadDigits(m, src, end) = {}
  <2>1. u = Unit(Utf8(CodePoint(m, src)), src + 6)
    BY <1>3, UnitCases
  <2>2. CodePoint(m, src) \in Nat /\ CodePoint(m, src) < 65536 /\ src + 6 <= end
    BY <1>3, CodePointFacts
  <2>3. Utf8(CodePoint(m, src)) \in Seq(Bytes) /\ Len(Utf8(CodePoint(m, src))) \in 1 .. 3
    BY <2>2, Utf8Facts
  <2> QED BY <2>1, <2>2, <2>3 DEF Unit, CopyErrors
<1>4. CASE u \in {NoUnit("PARTIAL"), NoUnit("INVALID_JSON")}
  BY <1>4 DEF NoUnit, CopyErrors
<1> HIDE DEF u
<1>5. \/ m[src] # Backslash
      \/ ~(src + 1 >= end) /\ m[src + 1] \in DOMAIN EscapedByte
      \/ ~(src + 1 >= end) /\ m[src + 1] = "u" /\ BadDigits(m, src, end) = {}
      \/ u \in {NoUnit("PARTIAL"), NoUnit("INVALID_JSON")}
  BY UnitCases DEF u
<1> QED BY <1>1, <1>2, <1>3, <1>4, <1>5 DEF u

\* One turn of the copy loop; the loop is a function that takes its turns.
CopyTurn(m, end, cap, f, src, dest) ==
  LET unit == NextUnit(m, src, end) IN
  IF src >= end
    THEN [err |-> IF NoRoom(Len(dest), cap) THEN "INSUFFICIENT_SPACE" ELSE "NONE",
          text |-> dest]
  ELSE IF unit.err # "NONE" THEN [err |-> unit.err, text |-> dest]
  ELSE IF NoRoom(Len(dest) + Len(unit.bytes), cap)
    THEN [err |-> "INSUFFICIENT_SPACE", text |-> dest]
  ELSE f[<<unit.next, dest \o unit.bytes>>]

\* What the loop returns.
CopyResults == [err : CopyErrors, text : Seq(Bytes)]

\* f is such a function.
Copies(m, start, end, cap, f) ==
  \A src \in start .. end : \A dest \in Seq(Bytes) :
    /\ f[<<src, dest>>] = CopyTurn(m, end, cap, f, src, dest)
    /\ f[<<src, dest>>] \in CopyResults

\* decode_string is such a loop: every turn gets nearer to the end.
LEMMA CopyRule ==
  ASSUME NEW m \in Seq(Bytes), NEW start \in Nat \ {0}, NEW end \in Nat,
         start <= end, end <= Len(m) + 1, NEW cap
  PROVE  \E f : /\ Copies(m, start, end, cap, f)
                /\ DecodeCstr(m, start, end, cap) = f[<<start, << >>>>]
<1> DEFINE X == (start .. end) \X Seq(Bytes)
           V == CopyResults
           Rule(f, p) == CopyTurn(m, end, cap, f, p[1], p[2])
           mu == [p \in X |-> end - p[1]]
           R == [t \in [X -> V] \X X |-> Rule(t[1], t[2])]
           Solution(f) == f = [p \in X |-> Rule(f, p)]
<1>1. mu \in [X -> Nat] /\ \A p \in X : mu[p] = end - p[1]
  <2>1. \A p \in X : end - p[1] \in Nat
    OBVIOUS
  <2> QED BY <2>1
<1>2. ASSUME NEW src \in start .. end, NEW dest \in Seq(Bytes), ~(src >= end),
             NextUnit(m, src, end).err = "NONE"
      PROVE  LET q == <<NextUnit(m, src, end).next, dest \o NextUnit(m, src, end).bytes>> IN
             q \in X /\ mu[q] < mu[<<src, dest>>]
  <2> DEFINE u == NextUnit(m, src, end)
             d == dest \o u.bytes
  <2>1. src \in Nat \ {0} /\ src < end
    BY <1>2
  <2>2. u.bytes \in Seq(Bytes) /\ u.next \in src + 1 .. end
    BY <1>2, <2>1, UnitType
  <2> HIDE DEF u
  <2>3. d \in Seq(Bytes)
    BY <2>2
  <2> HIDE DEF d
  <2>4. u.next \in start .. end /\ end - u.next < end - src
    BY <2>1, <2>2
  <2>5. <<u.next, d>> \in X /\ <<src, dest>> \in X
    BY <2>3, <2>4
  <2>6. mu[<<u.next, d>>] = end - u.next /\ mu[<<src, dest>>] = end - src
    BY <1>1, <2>5
  <2> HIDE DEF mu, X
  <2> QED BY <2>4, <2>5, <2>6 DEF u, d
<1>3. ASSUME NEW p \in X, NEW f, \A q \in X : mu[q] < mu[p] => f[q] \in V
      PROVE  Rule(f, p) \in V
  <2> DEFINE src == p[1]
             dest == p[2]
             u == NextUnit(m, src, end)
             q == <<u.next, dest \o u.bytes>>
  <2>1. src \in start .. end /\ dest \in Seq(Bytes) /\ p = <<src, dest>>
    OBVIOUS
  <2> HIDE DEF src, dest
  <2>2. CASE src >= end
    BY <2>1, <2>2 DEF CopyTurn, CopyResults, CopyErrors, src, dest
  <2>3. CASE ~(src >= end) /\ u.err # "NONE"
    <3>0. src \in Nat \ {0} /\ src < end
      BY <2>1, <2>3
    <3>1. u.err \in CopyErrors
      BY <3>0, UnitType
    <3>2. Rule(f, p) = [err |-> u.err, text |-> dest]
      BY <2>3 DEF CopyTurn, src, dest
    <3> HIDE DEF u, Rule
    <3> QED BY <2>1, <3>1, <3>2 DEF CopyResults
  <2>4. CASE ~(src >= end) /\ u.err = "NONE" /\ NoRoom(Len(dest) + Len(u.bytes), cap)
    <3>1. Rule(f, p) = [err |-> "INSUFFICIENT_SPACE", text |-> dest]
      BY <2>4 DEF CopyTurn, src, dest
    <3> QED BY <2>1, <3>1 DEF CopyResults, CopyErrors
  <2>5. CASE ~(src >= end) /\ u.err = "NONE" /\ ~NoRoom(Len(dest) + Len(u.bytes), cap)
    <3>1. Rule(f, p) = f[q]
      BY <2>5 DEF CopyTurn, src, dest
    <3>2. q \in X /\ mu[q] < mu[p]
      BY <1>2, <2>1, <2>5
    <3> HIDE DEF X, V, Rule, u, q, mu
    <3> QED BY <1>3, <3>1, <3>2
  <2> QED BY <2>2, <2>3, <2>4, <2>5
<1>4. ASSUME NEW p \in X, NEW f, NEW g, \A q \in X : mu[q] < mu[p] => f[q] = g[q]
      PROVE  Rule(f, p) = Rule(g, p)
  <2> DEFINE src == p[1]
             dest == p[2]
             u == NextUnit(m, src, end)
             q == <<u.next, dest \o u.bytes>>
  <2>1. src \in start .. end /\ dest \in Seq(Bytes) /\ p = <<src, dest>>
    OBVIOUS
  <2> HIDE DEF src, dest
  <2>2. CASE src >= end \/ u.err # "NONE"
    BY <2>2 DEF CopyTurn, src, dest
  <2>3. CASE ~(src >= end) /\ u.err = "NONE"
    <3>1. q \in X /\ mu[q] < mu[p]
      BY <1>2, <2>1, <2>3
    <3>2. f[q] = g[q]
      BY <1>4, <3>1
    <3> QED BY <2>3, <3>2 DEF CopyTurn, src, dest
  <2> QED BY <2>2, <2>3
<1> HIDE DEF X, V, mu, Rule
<1>5. R \in [[X -> V] \X X -> V] /\ \A f \in [X -> V], p \in X : R[<<f, p>>] = Rule(f, p)
  <2>1. \A f \in [X -> V], p \in X : Rule(f, p) \in V
    BY <1>3
  <2> QED BY <2>1
<1> HIDE DEF R
<1>6. LooksBelow(X, V, mu, R)
  <2>1. ASSUME NEW p \in X, NEW f \in [X -> V], NEW g \in [X -> V],
               \A q \in X : mu[q] < mu[p] => f[q] = g[q]
        PROVE  R[<<f, p>>] = R[<<g, p>>]
    <3>1. Rule(f, p) = Rule(g, p)
      BY <1>4, <2>1
    <3>2. R[<<f, p>>] = Rule(f, p) /\ R[<<g, p>>] = Rule(g, p)
      BY <1>5
    <3> QED BY <3>1, <3>2
  <2> QED BY <2>1, Zenon DEF LooksBelow
<1>7. V # {}
  <2>1. << >> \in Seq(Bytes)
    OBVIOUS
  <2>2. [err |-> "NONE", text |-> << >>] \in V
    BY <2>1 DEF V, CopyResults, CopyErrors
  <2> QED BY <2>2
<1>8. PICK e : IsSolution(X, V, R, e)
  BY <1>1, <1>5, <1>6, <1>7, Recursion
<1>9. Solution(e)
  BY <1>5, <1>8 DEF IsSolution
<1> DEFINE copy == CHOOSE f : Solution(f)
<1>10. Solution(copy)
  BY <1>9
<1>11. DecodeCstr(m, start, end, cap) = copy[<<start, << >>>>]
  BY Zenon DEF DecodeCstr, CopyTurn, X, Rule
<1> HIDE DEF copy
<1>12. \A p \in X : copy[p] = Rule(copy, p)
  <2> HIDE DEF Rule
  <2> QED BY <1>10, Zenon
<1>13. \A p \in X : copy[p] \in V
  <2> DEFINE S == {n \in Nat : \A p \in X : mu[p] < n => copy[p] \in V}
  <2>1. 0 \in S
    BY <1>1
  <2>2. ASSUME NEW n \in Nat, n \in S PROVE n + 1 \in S
    <3>1. ASSUME NEW p \in X, mu[p] < n + 1 PROVE copy[p] \in V
      <4>1. \A q \in X : mu[q] < mu[p] => copy[q] \in V
        BY <1>1, <2>2, <3>1
      <4>2. Rule(copy, p) \in V
        BY <1>3, <4>1
      <4> QED BY <1>12, <4>2
    <3> QED BY <3>1
  <2> HIDE DEF S
  <2>3. \A n \in Nat : n \in S
    BY <2>1, <2>2, SetInduction
  <2>4. ASSUME NEW p \in X PROVE copy[p] \in V
    <3>1. mu[p] \in Nat
      BY <1>1
    <3>2. mu[p] + 1 \in S
      BY <2>3, <3>1
    <3> QED BY <3>1, <3>2 DEF S
  <2> QED BY <2>4
<1>14. Copies(m, start, end, cap, copy)
  <2>1. ASSUME NEW src \in start .. end, NEW dest \in Seq(Bytes)
        PROVE  /\ copy[<<src, dest>>] = CopyTurn(m, end, cap, copy, src, dest)
               /\ copy[<<src, dest>>] \in CopyResults
    <3>1. <<src, dest>> \in X
      BY DEF X
    <3>2. copy[<<src, dest>>] = Rule(copy, <<src, dest>>) /\ copy[<<src, dest>>] \in V
      BY <1>12, <1>13, <3>1
    <3> QED BY <3>2 DEF Rule, V
  <2> QED BY <2>1 DEF Copies
<1> QED BY <1>11, <1>14

-----------------------------------------------------------------------------
(* The chars of the reference where they stand in a text.                  *)

\* The kinds of chars differ in length.
LEMMA CharLength ==
  ASSUME NEW t
  PROVE  /\ Reference!IsPlain(t) => Len(t) = 1
         /\ Reference!IsShort(t) => Len(t) = 2
         /\ Reference!IsUnicode(t) => Len(t) = 6
BY Zenon DEF Reference!IsPlain, Reference!IsShort, Reference!IsUnicode

\* What a char stands for, by the kind it is of.
LEMMA PointByKind ==
  ASSUME NEW t
  PROVE  /\ Reference!IsChar(t) /\ Len(t) = 1 => Reference!Unit(t) = Code[t[1]]
         /\ Reference!IsChar(t) /\ Len(t) = 2 =>
              Reference!Unit(t) = IF t[2] \in DOMAIN Reference!Letter THEN Reference!Letter[t[2]]
                                   ELSE Code[t[2]]
         /\ Reference!IsChar(t) /\ Len(t) = 6 =>
              Reference!Unit(t) = HexValue[t[3]] * 4096 + HexValue[t[4]] * 256
                                     + HexValue[t[5]] * 16 + HexValue[t[6]]
<1>1. Reference!IsChar(t) => Reference!IsPlain(t) \/ Reference!IsShort(t) \/ Reference!IsUnicode(t)
  BY DEF Reference!IsChar
<1>2. 1 # 2 /\ 1 # 6 /\ 2 # 6
  OBVIOUS
<1>3. ASSUME Reference!IsChar(t), Len(t) = 1 PROVE Reference!Unit(t) = Code[t[1]]
  <2>1. Reference!IsPlain(t) /\ ~Reference!IsShort(t) /\ ~Reference!IsUnicode(t)
    BY <1>1, <1>2, <1>3, CharLength
  <2> QED BY <2>1, SameCode DEF Reference!Unit
<1>4. ASSUME Reference!IsChar(t), Len(t) = 2
      PROVE  Reference!Unit(t) = IF t[2] \in DOMAIN Reference!Letter THEN Reference!Letter[t[2]]
                                   ELSE Code[t[2]]
  <2>1. ~Reference!IsPlain(t) /\ Reference!IsShort(t) /\ ~Reference!IsUnicode(t)
    BY <1>1, <1>2, <1>4, CharLength
  <2> QED BY <2>1, SameCode DEF Reference!Unit
<1>5. ASSUME Reference!IsChar(t), Len(t) = 6
      PROVE  Reference!Unit(t) = HexValue[t[3]] * 4096 + HexValue[t[4]] * 256
                                     + HexValue[t[5]] * 16 + HexValue[t[6]]
  <2>1. ~Reference!IsPlain(t) /\ ~Reference!IsShort(t) /\ Reference!IsUnicode(t)
    BY <1>1, <1>2, <1>5, CharLength
  <2> QED BY <2>1, SameHex DEF Reference!Unit
<1> QED BY <1>3, <1>4, <1>5

\* And by what stands where it begins.
LEMMA PointAt ==
  ASSUME NEW s \in Seq(STRING), NEW i \in Nat \ {0}
  PROVE  /\ i <= Len(s) /\ PlainAt(s, i) => Reference!Unit(SubSeq(s, i, i)) = Code[s[i]]
         /\ i + 1 <= Len(s) /\ ShortAt(s, i) =>
              Reference!Unit(SubSeq(s, i, i + 1)) =
                IF s[i + 1] \in DOMAIN Reference!Letter THEN Reference!Letter[s[i + 1]]
                ELSE Code[s[i + 1]]
         /\ i + 5 <= Len(s) /\ UnicodeAt(s, i) =>
              Reference!Unit(SubSeq(s, i, i + 5)) = CodePoint(s, i)
<1> DEFINE t(j) == SubSeq(s, i, j)
<1>1. \A j \in {i, i + 1, i + 5} :
        /\ j \in Nat /\ i <= j + 1
        /\ j - i + 1 = IF j = i THEN 1 ELSE IF j = i + 1 THEN 2 ELSE 6
  OBVIOUS
<1>2. ASSUME NEW j \in {i, i + 1, i + 5}, j <= Len(s)
      PROVE  Len(t(j)) = j - i + 1 /\ \A k \in 1 .. j - i + 1 : t(j)[k] = s[i + k - 1]
  BY <1>1, <1>2, SubSeqFacts
<1> HIDE DEF t
<1>3. ASSUME i <= Len(s), PlainAt(s, i) PROVE Reference!Unit(t(i)) = Code[s[i]]
  <2> DEFINE u == t(i)
  <2>1. Reference!IsChar(u)
    BY <1>3, ReferenceChar DEF t
  <2>2. Len(u) = 1 /\ u[1] = s[i]
    <3>1. i - i + 1 = 1 /\ 1 \in 1 .. 1 /\ i + 1 - 1 = i
      OBVIOUS
    <3>2. Len(u) = i - i + 1 /\ \A k \in 1 .. i - i + 1 : u[k] = s[i + k - 1]
      BY <1>2, <1>3
    <3> HIDE DEF u
    <3> QED BY <3>1, <3>2
  <2> HIDE DEF u
  <2>3. Reference!Unit(u) = Code[u[1]]
    BY <2>1, <2>2, PointByKind
  <2> QED BY <2>2, <2>3 DEF u
<1>4. ASSUME i + 1 <= Len(s), ShortAt(s, i)
      PROVE  Reference!Unit(t(i + 1)) =
                IF s[i + 1] \in DOMAIN Reference!Letter THEN Reference!Letter[s[i + 1]]
                ELSE Code[s[i + 1]]
  <2> DEFINE j == i + 1
             u == t(j)
  <2>1. Reference!IsChar(u)
    BY <1>4, ReferenceChar DEF t
  <2>2. Len(u) = 2 /\ u[2] = s[i + 1]
    <3>1. j - i + 1 = 2 /\ 2 \in 1 .. 2 /\ i + 2 - 1 = i + 1
      OBVIOUS
    <3>2. Len(u) = j - i + 1 /\ \A k \in 1 .. j - i + 1 : u[k] = s[i + k - 1]
      BY <1>2, <1>4
    <3> HIDE DEF u, j
    <3> QED BY <3>1, <3>2
  <2> HIDE DEF u
  <2>3. Reference!Unit(u) = IF u[2] \in DOMAIN Reference!Letter THEN Reference!Letter[u[2]]
                             ELSE Code[u[2]]
    BY <2>1, <2>2, PointByKind
  <2> QED BY <2>2, <2>3 DEF u
<1>5. ASSUME i + 5 <= Len(s), UnicodeAt(s, i)
      PROVE  Reference!Unit(t(i + 5)) = CodePoint(s, i)
  <2> DEFINE j == i + 5
             u == t(j)
  <2>1. Reference!IsChar(u)
    BY <1>5, ReferenceChar DEF t
  <2>2. Len(u) = 6 /\ \A k \in 1 .. 6 : u[k] = s[i + k - 1]
    <3>1. j - i + 1 = 6
      OBVIOUS
    <3>2. Len(u) = j - i + 1 /\ \A k \in 1 .. j - i + 1 : u[k] = s[i + k - 1]
      BY <1>2, <1>5
    <3> HIDE DEF u, j
    <3> QED BY <3>1, <3>2
  <2>3. Reference!Unit(u) = HexValue[u[3]] * 4096 + HexValue[u[4]] * 256
                               + HexValue[u[5]] * 16 + HexValue[u[6]]
    <3> HIDE DEF u
    <3> QED BY <2>1, <2>2, PointByKind
  <2>4. u[3] = s[i + 1 + 1] /\ u[4] = s[i + 1 + 2] /\ u[5] = s[i + 1 + 3] /\ u[6] = s[i + 1 + 4]
    <3>1. /\ 3 \in 1 .. 6 /\ i + 3 - 1 = i + 1 + 1 /\ 4 \in 1 .. 6 /\ i + 4 - 1 = i + 1 + 2
          /\ 5 \in 1 .. 6 /\ i + 5 - 1 = i + 1 + 3 /\ 6 \in 1 .. 6 /\ i + 6 - 1 = i + 1 + 4
      OBVIOUS
    <3> HIDE DEF u
    <3>2. u[3] = s[i + 3 - 1] /\ u[4] = s[i + 4 - 1] /\ u[5] = s[i + 5 - 1] /\ u[6] = s[i + 6 - 1]
      BY <2>2, <3>1
    <3> QED BY <3>1, <3>2
  <2> HIDE DEF u
  <2> DEFINE a == HexValue[u[3]]
             b == HexValue[u[4]]
             c == HexValue[u[5]]
             d == HexValue[u[6]]
  <2>5. a \in 0 .. 15 /\ b \in 0 .. 15 /\ c \in 0 .. 15 /\ d \in 0 .. 15
    <3>1. \A k \in {i + 1 + 1, i + 1 + 2, i + 1 + 3, i + 1 + 4} : k \in i + 2 .. i + 5
      OBVIOUS
    <3>2. \A k \in {i + 1 + 1, i + 1 + 2, i + 1 + 3, i + 1 + 4} : s[k] \in Hexadecimal
      BY <1>5, <3>1 DEF UnicodeAt
    <3>3. u[3] \in Hexadecimal /\ u[4] \in Hexadecimal /\ u[5] \in Hexadecimal /\ u[6] \in Hexadecimal
      BY <2>4, <3>2
    <3> QED BY <3>3, HexFacts
  <2>6. CodePoint(s, i) = ((a * 16 + b) * 16 + c) * 16 + d
    BY <2>4 DEF CodePoint
  <2>7. Reference!Unit(u) = a * 4096 + b * 256 + c * 16 + d
    BY <2>3
  <2> HIDE DEF a, b, c, d
  <2>8. Reference!Unit(u) = CodePoint(s, i)
    BY <2>5, <2>6, <2>7
  <2> QED BY <2>8 DEF u
<1> QED BY <1>3, <1>4, <1>5 DEF t

\* A surrogate has no UTF-8 form.
ReadsUnless(bytes, x) == x \notin Reference!Surrogate => ReadsAs(bytes, x)

\* A char of the string where it stands in the text, and what the copy loop
\* makes of it.
CharUnitAt(m, s, p, r, f, i, k) ==
  LET u == NextUnit(m, p + i, r) IN
  /\ u.err = "NONE" /\ u.next = p + (i + k)
  /\ i + k <= Len(s) + 1 /\ f[i + k]
  /\ Reference!CharsAt(s, i) = {i + k - 1}
  /\ Code[m[p + i]] < 128 => ReadsUnless(u.bytes, Reference!Unit(SubSeq(s, i, i + k - 1)))

\* Every char of the string is one unit of the loop.
LEMMA CharUnit ==
  ASSUME NEW m \in Seq(Bytes), NEW p \in Nat, NEW r \in Nat, p < r, r <= Len(m),
         NEW s \in Seq(STRING), Len(s) = r - p - 1, Inside(m, s, p, r),
         NEW f, NEW i \in 1 .. Len(s), CharsGoOn(s, f, i)
  PROVE  \E k \in {1, 2, 6} : CharUnitAt(m, s, p, r, f, i, k)
<1> DEFINE src == p + i
           u == NextUnit(m, src, r)
<1>0. /\ i \in Nat \ {0} /\ src \in Nat \ {0} /\ p + i < r /\ src \in 1 .. Len(m)
      /\ i \in 1 .. r - p - 1 /\ i # Len(s) + 1 /\ i <= Len(s) /\ Len(s) \in Nat
      /\ src + 1 = p + i + 1 /\ src + 5 = p + i + 5
  OBVIOUS
<1> HIDE DEF src, u
<1>1. s[i] = m[src] /\ m[src] \in Bytes
  BY <1>0 DEF Inside, src
<1>2. /\ PlainAt(s, i) <=> PlainAt(m, src)
      /\ p + i + 1 < r => (ShortAt(s, i) <=> ShortAt(m, src))
      /\ p + i + 5 < r => (UnicodeAt(s, i) <=> UnicodeAt(m, src))
  BY <1>0, InsideChars DEF src
<1>3. Reference!CharsAt(s, i) \subseteq {i, i + 1, i + 5}
  BY DEF Reference!CharsAt
<1>4. \A j \in {i, i + 1, i + 5} : j \in Reference!CharsAt(s, i)
        <=> /\ j <= Len(s)
            /\ \/ j = i /\ PlainAt(s, i)
               \/ j = i + 1 /\ ShortAt(s, i)
               \/ j = i + 5 /\ UnicodeAt(s, i)
  BY <1>0, ReferenceChar DEF Reference!CharsAt
<1>5. ~(PlainAt(s, i) /\ (ShortAt(s, i) \/ UnicodeAt(s, i))) /\ ~(ShortAt(s, i) /\ UnicodeAt(s, i))
  <2>1. "u" \notin EscapeLetters
    BY LettersAre, QuotesDiffer
  <2> QED BY <2>1 DEF PlainAt, ShortAt, UnicodeAt
<1>6. i # i + 1 /\ i # i + 5 /\ i + 1 # i + 5 /\ i + 1 - 1 = i /\ i + 2 - 1 = i + 1 /\ i + 6 - 1 = i + 5
  BY <1>0
<1>7. CASE PlainAt(s, i) /\ f[i + 1]
  <2>1. Reference!CharsAt(s, i) = {i}
    BY <1>0, <1>3, <1>4, <1>5, <1>6, <1>7
  <2>2. m[src] # Backslash
    BY <1>2, <1>7 DEF PlainAt
  <2>3. u = Unit(<<m[src]>>, src + 1)
    BY <2>2, UnitCases DEF u
  <2>4. Reference!Unit(SubSeq(s, i, i)) = Code[m[src]]
    <3>1. Reference!Unit(SubSeq(s, i, i)) = Code[s[i]]
      BY <1>0, <1>7, PointAt
    <3> QED BY <1>1, <3>1
  <2>5. Code[m[src]] < 128 => ReadsAs(<<m[src]>>, Code[m[src]])
    BY DEF ReadsAs
  <2>6. u.err = "NONE" /\ u.next = src + 1 /\ u.bytes = <<m[src]>>
    BY <2>3 DEF Unit
  <2>7. src + 1 = p + (i + 1) /\ i + 1 <= Len(s) + 1
    BY <1>0 DEF src
  <2>8. Code[m[src]] < 128 => ReadsUnless(u.bytes, Reference!Unit(SubSeq(s, i, i + 1 - 1)))
    BY <1>6, <2>4, <2>5, <2>6 DEF ReadsUnless
  <2>9. CharUnitAt(m, s, p, r, f, i, 1)
    BY <1>6, <1>7, <2>1, <2>6, <2>7, <2>8 DEF CharUnitAt, u, src
  <2> QED BY <2>9
<1>8. CASE i + 1 <= Len(s) /\ ShortAt(s, i) /\ f[i + 2]
  <2>1. Reference!CharsAt(s, i) = {i + 1}
    BY <1>0, <1>3, <1>4, <1>5, <1>6, <1>8
  <2>2. p + i + 1 < r /\ ~(src + 1 >= r) /\ i + 1 \in 1 .. r - p - 1 /\ p + (i + 1) = src + 1
    BY <1>0, <1>8 DEF src
  <2>3. ShortAt(m, src)
    BY <1>2, <1>8, <2>2
  <2> DEFINE c == m[src + 1]
  <2>4. m[src] = Backslash /\ c \in EscapeLetters /\ c \in DOMAIN EscapedByte
    BY <2>3, LettersAre DEF ShortAt
  <2>5. u = Unit(<<EscapedByte[c]>>, src + 2)
    BY <2>2, <2>4, UnitCases DEF u
  <2>6. s[i + 1] = c
    BY <2>2 DEF Inside
  <2> HIDE DEF c
  <2>7. Reference!Unit(SubSeq(s, i, i + 1)) = Code[EscapedByte[c]]
    BY <1>0, <1>8, <2>4, <2>6, PointAt, EscapeMeans
  <2>8. Code[EscapedByte[c]] < 128
    BY <2>4, EscapeMeans
  <2>9. ReadsAs(<<EscapedByte[c]>>, Code[EscapedByte[c]])
    BY <2>8 DEF ReadsAs
  <2>10. u.err = "NONE" /\ u.next = src + 2 /\ u.bytes = <<EscapedByte[c]>>
    BY <2>5 DEF Unit
  <2>11. src + 2 = p + (i + 2) /\ i + 2 <= Len(s) + 1
    BY <1>0, <1>8 DEF src
  <2>12. ReadsUnless(u.bytes, Reference!Unit(SubSeq(s, i, i + 2 - 1)))
    BY <1>6, <2>7, <2>9, <2>10 DEF ReadsUnless
  <2>13. CharUnitAt(m, s, p, r, f, i, 2)
    BY <1>6, <1>8, <2>1, <2>10, <2>11, <2>12 DEF CharUnitAt, u, src
  <2> QED BY <2>13
<1>9. CASE i + 5 <= Len(s) /\ UnicodeAt(s, i) /\ f[i + 6]
  <2>1. Reference!CharsAt(s, i) = {i + 5}
    BY <1>0, <1>3, <1>4, <1>5, <1>6, <1>9
  <2>2. p + i + 5 < r /\ src + 6 <= r /\ ~(src + 1 >= r)
    BY <1>0, <1>9 DEF src
  <2>3. UnicodeAt(m, src)
    BY <1>2, <1>9, <2>2
  <2>4. m[src] = Backslash /\ m[src + 1] = "u" /\ m[src + 1] \notin DOMAIN EscapedByte
    BY <2>3, LettersAre, QuotesDiffer DEF UnicodeAt
  <2>5. BadDigits(m, src, r) = {}
    <3>1. \A k \in 1 .. 4 : ~(src + 1 + k >= r) /\ src + 1 + k \in src + 2 .. src + 5
      BY <1>0, <2>2
    <3>2. \A k \in 1 .. 4 : m[src + 1 + k] \in Hexadecimal
      BY <2>3, <3>1 DEF UnicodeAt
    <3> QED BY <3>1, <3>2 DEF BadDigits, Hexadecimal
  <2>6. u = Unit(Utf8(CodePoint(m, src)), src + 6)
    BY <2>2, <2>4, <2>5, UnitCases DEF u
  <2>7. CodePoint(m, src) = CodePoint(s, i)
    <3>1. \A k \in 1 .. 4 : i + 1 + k \in 1 .. r - p - 1 /\ p + (i + 1 + k) = src + 1 + k
      BY <1>0, <1>9 DEF src
    <3>2. ASSUME NEW k \in 1 .. 4 PROVE s[i + 1 + k] = m[src + 1 + k]
      <4> DEFINE j == i + 1 + k
      <4>1. j \in 1 .. r - p - 1 /\ p + j = src + 1 + k
        BY <3>1
      <4> HIDE DEF j
      <4>2. s[j] = m[p + j]
        BY <4>1 DEF Inside
      <4> QED BY <4>1, <4>2 DEF j
    <3>3. 1 \in 1 .. 4 /\ 2 \in 1 .. 4 /\ 3 \in 1 .. 4 /\ 4 \in 1 .. 4
      OBVIOUS
    <3>4. s[i + 1 + 1] = m[src + 1 + 1] /\ s[i + 1 + 2] = m[src + 1 + 2]
            /\ s[i + 1 + 3] = m[src + 1 + 3] /\ s[i + 1 + 4] = m[src + 1 + 4]
      BY <3>2, <3>3
    <3> QED BY <3>4 DEF CodePoint
  <2>8. Reference!Unit(SubSeq(s, i, i + 5)) = CodePoint(m, src)
    BY <1>0, <1>9, <2>7, PointAt
  <2>9. CodePoint(m, src) \in Nat /\ CodePoint(m, src) < 65536
    BY <1>0, <2>5, CodePointFacts
  <2>10. ReadsUnless(Utf8(CodePoint(m, src)), CodePoint(m, src))
    BY <2>9, Utf8Facts DEF ReadsUnless
  <2>11. u.err = "NONE" /\ u.next = src + 6 /\ u.bytes = Utf8(CodePoint(m, src))
    BY <2>6 DEF Unit
  <2>12. src + 6 = p + (i + 6) /\ i + 6 <= Len(s) + 1
    BY <1>0, <1>9 DEF src
  <2>13. ReadsUnless(u.bytes, Reference!Unit(SubSeq(s, i, i + 6 - 1)))
    BY <1>6, <2>8, <2>10, <2>11
  <2>14. CharUnitAt(m, s, p, r, f, i, 6)
    BY <1>6, <1>9, <2>1, <2>11, <2>12, <2>13 DEF CharUnitAt, u, src
  <2> QED BY <2>14
<1> QED BY <1>0, <1>7, <1>8, <1>9 DEF CharsGoOn

-----------------------------------------------------------------------------
(* The recursive functions of the reference, by their equations.           *)

\* One turn of the function that reads the chars of a string, and its equation.
PointsTurn(s, f, i) ==
  IF i = Len(s) + 1 \/ Reference!CharsAt(s, i) = {} THEN << >>
  ELSE LET j == CHOOSE j \in Reference!CharsAt(s, i) : TRUE IN
       <<Reference!Unit(SubSeq(s, i, j))>> \o f[j + 1]

\* Reference!Units is such a function.
LEMMA PointsRule ==
  ASSUME NEW s \in Seq(STRING)
  PROVE  \E f : /\ \A i \in 1 .. Len(s) + 1 : f[i] = PointsTurn(s, f, i)
                /\ Reference!Units(s) = f[1]
<1> DEFINE X == 1 .. Len(s) + 1
           P == {Reference!Unit(SubSeq(s, i, j)) : i, j \in 1 .. Len(s)}
           V == Seq(P)
           Rule(f, i) == PointsTurn(s, f, i)
           mu == [i \in X |-> Len(s) + 1 - i]
           R == [fi \in [X -> V] \X X |-> Rule(fi[1], fi[2])]
           Solution(f) == f = [i \in X |-> Rule(f, i)]
<1>0. Len(s) \in Nat
  OBVIOUS
<1>1. mu \in [X -> Nat] /\ \A i \in X : mu[i] = Len(s) + 1 - i
  BY <1>0
<1>2. ASSUME NEW i \in X, NEW j \in Reference!CharsAt(s, i), i # Len(s) + 1
      PROVE  /\ j + 1 \in X /\ mu[j + 1] < mu[i] /\ i \in 1 .. Len(s) /\ j \in 1 .. Len(s)
  <2>1. j \in {i, i + 1, i + 5} /\ j <= Len(s)
    BY DEF Reference!CharsAt
  <2>2. j + 1 \in X /\ i \in X /\ Len(s) + 1 - (j + 1) < Len(s) + 1 - i
          /\ i \in 1 .. Len(s) /\ j \in 1 .. Len(s)
    BY <1>0, <1>2, <2>1
  <2> HIDE DEF X, mu
  <2> QED BY <1>1, <2>2
<1>3. ASSUME NEW f \in [X -> V], NEW i \in X PROVE Rule(f, i) \in V
  <2>1. CASE i = Len(s) + 1 \/ Reference!CharsAt(s, i) = {}
    <3>1. Rule(f, i) = << >>
      BY <2>1 DEF PointsTurn
    <3>2. << >> \in Seq(P)
      OBVIOUS
    <3> HIDE DEF P, Rule
    <3> QED BY <3>1, <3>2
  <2>2. CASE i # Len(s) + 1 /\ Reference!CharsAt(s, i) # {}
    <3> DEFINE j == CHOOSE j \in Reference!CharsAt(s, i) : TRUE
               x == Reference!Unit(SubSeq(s, i, j))
    <3>1. j \in Reference!CharsAt(s, i)
      BY <2>2
    <3>2. Rule(f, i) = <<x>> \o f[j + 1]
      BY <2>2 DEF PointsTurn
    <3> HIDE DEF j, Rule
    <3>3. j + 1 \in X /\ i \in 1 .. Len(s) /\ j \in 1 .. Len(s)
      <4> HIDE DEF X, mu
      <4> QED BY <1>2, <2>2, <3>1
    <3>4. x \in P
      BY <3>3
    <3> HIDE DEF x, P, X
    <3>5. f[j + 1] \in Seq(P)
      BY <3>3
    <3>6. <<x>> \o f[j + 1] \in Seq(P)
      BY <3>4, <3>5
    <3> QED BY <3>2, <3>6
  <2> QED BY <2>1, <2>2
<1>4. ASSUME NEW i \in X, NEW f, NEW g, \A j \in X : mu[j] < mu[i] => f[j] = g[j]
      PROVE  Rule(f, i) = Rule(g, i)
  <2>1. CASE i = Len(s) + 1 \/ Reference!CharsAt(s, i) = {}
    BY <2>1 DEF PointsTurn
  <2>2. CASE i # Len(s) + 1 /\ Reference!CharsAt(s, i) # {}
    <3> DEFINE j == CHOOSE j \in Reference!CharsAt(s, i) : TRUE
    <3>1. j \in Reference!CharsAt(s, i)
      BY <2>2
    <3>2. f[j + 1] = g[j + 1]
      <4> HIDE DEF j, X, mu
      <4>1. j + 1 \in X /\ mu[j + 1] < mu[i]
        BY <1>2, <2>2, <3>1
      <4> QED BY <1>4, <4>1
    <3> QED BY <2>2, <3>2 DEF PointsTurn
  <2> QED BY <2>1, <2>2
<1> HIDE DEF X, V, mu, Rule
<1>5. R \in [[X -> V] \X X -> V] /\ \A f \in [X -> V], i \in X : R[<<f, i>>] = Rule(f, i)
  BY <1>3
<1> HIDE DEF R
<1>6. LooksBelow(X, V, mu, R)
  <2>1. ASSUME NEW i \in X, NEW f \in [X -> V], NEW g \in [X -> V],
               \A j \in X : mu[j] < mu[i] => f[j] = g[j]
        PROVE  R[<<f, i>>] = R[<<g, i>>]
    <3>1. Rule(f, i) = Rule(g, i)
      BY <1>4, <2>1
    <3>2. R[<<f, i>>] = Rule(f, i) /\ R[<<g, i>>] = Rule(g, i)
      BY <1>5
    <3> QED BY <3>1, <3>2
  <2> QED BY <2>1, Zenon DEF LooksBelow
<1>7. V # {}
  <2>1. << >> \in V
    BY DEF V
  <2> QED BY <2>1
<1>8. PICK e : IsSolution(X, V, R, e)
  BY <1>1, <1>5, <1>6, <1>7, Recursion
<1>9. Solution(e)
  BY <1>5, <1>8 DEF IsSolution
<1> DEFINE from == CHOOSE f : Solution(f)
<1>10. Reference!Units(s) = from[1]
  BY Zenon DEF Reference!Units, Rule, X, PointsTurn
<1> HIDE DEF Solution
<1>11. Solution(from)
  BY <1>9
<1> HIDE DEF from
<1>12. \A i \in X : from[i] = Rule(from, i)
  BY <1>11 DEF Solution
<1> QED BY <1>10, <1>12 DEF X, Rule

\* The codes of the bytes of a text.
LEMMA CodesAre ==
  ASSUME NEW s \in Seq(Bytes), NEW i \in Nat \ {0}
  PROVE  /\ Reference!CodeAt(s, i) \in 0 .. 255
         /\ i <= Len(s) => Reference!CodeAt(s, i) = Code[s[i]]
<1>1. CASE i <= Len(s)
  <2>1. s[i] \in Bytes
    BY <1>1
  <2>2. Code[s[i]] \in 0 .. 255
    BY <2>1, CodeFacts
  <2> QED BY <1>1, <2>2, SameCode DEF Reference!CodeAt
<1>2. CASE ~(i <= Len(s))
  BY <1>2 DEF Reference!CodeAt
<1> QED BY <1>1, <1>2

\* What stands at a place in a text, by the codes of the bytes.
LEMMA Utf8Cases ==
  ASSUME NEW s \in Seq(Bytes), NEW i \in Nat \ {0}
  PROVE  LET a == Reference!CodeAt(s, i)
             b == Reference!CodeAt(s, i + 1)
             c == Reference!CodeAt(s, i + 2)
         IN
         /\ Reference!Utf8At(s, i) \in [point : Int, next : {i + 1, i + 2, i + 3, i + 4}]
         /\ a < 128 => Reference!Utf8At(s, i) = [point |-> a, next |-> i + 1]
         /\ a \in 194 .. 223 /\ b \in 128 .. 191 =>
              Reference!Utf8At(s, i) = [point |-> (a - 192) * 64 + b - 128, next |-> i + 2]
         /\ (/\ a \in 224 .. 239 /\ b \in 128 .. 191 /\ c \in 128 .. 191
             /\ (a = 224 => b >= 160) /\ (a = 237 => b <= 159)) =>
              Reference!Utf8At(s, i) =
                [point |-> (a - 224) * 4096 + (b - 128) * 64 + c - 128, next |-> i + 3]
<1> DEFINE a == Reference!CodeAt(s, i)
           b == Reference!CodeAt(s, i + 1)
           c == Reference!CodeAt(s, i + 2)
           d == Reference!CodeAt(s, i + 3)
           two == a \in 194 .. 223 /\ b \in 128 .. 191
           three == /\ a \in 224 .. 239 /\ b \in 128 .. 191 /\ c \in 128 .. 191
                    /\ (a = 224 => b >= 160) /\ (a = 237 => b <= 159)
           four == /\ a \in 240 .. 244 /\ b \in 128 .. 191 /\ c \in 128 .. 191
                   /\ d \in 128 .. 191
                   /\ (a = 240 => b >= 144) /\ (a = 244 => b <= 143)
           point == (a - 240) * 262144 + (b - 128) * 4096 + (c - 128) * 64 + d - 128
           u == Reference!Utf8At(s, i)
<1>0. a \in 0 .. 255 /\ b \in 0 .. 255 /\ c \in 0 .. 255 /\ d \in 0 .. 255
  <2>1. i + 1 \in Nat \ {0} /\ i + 2 \in Nat \ {0} /\ i + 3 \in Nat \ {0}
    OBVIOUS
  <2> QED BY <2>1, CodesAre
<1>1. u = CASE a < 128 -> [point |-> a, next |-> i + 1]
            [] two -> [point |-> (a - 192) * 64 + b - 128, next |-> i + 2]
            [] three -> [point |-> (a - 224) * 4096 + (b - 128) * 64 + c - 128, next |-> i + 3]
            [] four -> [point |-> point, next |-> i + 4]
            [] OTHER -> [point |-> -1, next |-> i + 1]
  BY DEF Reference!Utf8At
<1> HIDE DEF a, b, c, d, point
<1>2. /\ ~(a < 128 /\ two) /\ ~(a < 128 /\ three) /\ ~(two /\ three)
      /\ ~(four /\ a < 128) /\ ~(four /\ two) /\ ~(four /\ three)
  BY <1>0
<1> HIDE DEF u, two, three, four
<1>3. a < 128 => u = [point |-> a, next |-> i + 1]
  BY <1>1, <1>2
<1>4. two => u = [point |-> (a - 192) * 64 + b - 128, next |-> i + 2]
  BY <1>1, <1>2
<1>5. three => u = [point |-> (a - 224) * 4096 + (b - 128) * 64 + c - 128, next |-> i + 3]
  BY <1>1, <1>2
<1>6. four => u = [point |-> point, next |-> i + 4]
  BY <1>1, <1>2
<1>7. ~(a < 128) /\ ~two /\ ~three /\ ~four => u = [point |-> -1, next |-> i + 1]
  BY <1>1
<1>8. (a - 192) * 64 + b - 128 \in Int /\ (a - 224) * 4096 + (b - 128) * 64 + c - 128 \in Int
        /\ -1 \in Int /\ a \in Int /\ point \in Int
  BY <1>0 DEF point
<1>9. u \in [point : Int, next : {i + 1, i + 2, i + 3, i + 4}]
  BY <1>3, <1>4, <1>5, <1>6, <1>7, <1>8
<1> QED BY <1>3, <1>4, <1>5, <1>9 DEF u, two, three, a, b, c

\* One turn of the function that reads UTF-8, and its equation.
ReadsTurn(s, f, i) ==
  IF i > Len(s) THEN << >>
  ELSE <<Reference!Utf8At(s, i).point>> \o f[Reference!Utf8At(s, i).next]

\* Reference!ReadUtf8 is such a function.
LEMMA ReadsRule ==
  ASSUME NEW s \in Seq(Bytes)
  PROVE  \E f : /\ \A i \in 1 .. Len(s) + 4 : f[i] = ReadsTurn(s, f, i)
                /\ Reference!ReadUtf8(s) = f[1]
<1> DEFINE X == 1 .. Len(s) + 4
           V == Seq(Int)
           Rule(f, i) == ReadsTurn(s, f, i)
           mu == [i \in X |-> Len(s) + 4 - i]
           R == [fi \in [X -> V] \X X |-> Rule(fi[1], fi[2])]
           Solution(f) == f = [i \in X |-> Rule(f, i)]
<1>0. Len(s) \in Nat
  OBVIOUS
<1>1. mu \in [X -> Nat] /\ \A i \in X : mu[i] = Len(s) + 4 - i
  BY <1>0
<1>2. ASSUME NEW i \in X, i <= Len(s)
      PROVE  LET u == Reference!Utf8At(s, i) IN u.point \in Int /\ u.next \in X /\ mu[u.next] < mu[i]
  <2> DEFINE u == Reference!Utf8At(s, i)
  <2>1. u \in [point : Int, next : {i + 1, i + 2, i + 3, i + 4}]
    BY Utf8Cases
  <2> HIDE DEF u
  <2>2. u.next \in X /\ i \in X /\ Len(s) + 4 - u.next < Len(s) + 4 - i
    BY <1>0, <1>2, <2>1
  <2>3. u.point \in Int
    BY <2>1
  <2> HIDE DEF X, mu
  <2> QED BY <1>1, <2>2, <2>3 DEF u
<1>3. ASSUME NEW f \in [X -> V], NEW i \in X PROVE Rule(f, i) \in V
  <2>1. CASE i > Len(s)
    <3>1. Rule(f, i) = << >>
      BY <2>1 DEF ReadsTurn
    <3> HIDE DEF Rule
    <3> QED BY <3>1
  <2>2. CASE i <= Len(s)
    <3> DEFINE u == Reference!Utf8At(s, i)
    <3>1. Rule(f, i) = <<u.point>> \o f[u.next]
      BY <1>0, <2>2 DEF ReadsTurn
    <3>2. u.point \in Int /\ u.next \in X
      BY <1>2, <2>2
    <3> HIDE DEF X, Rule, u
    <3>3. f[u.next] \in Seq(Int)
      BY <3>2
    <3>4. <<u.point>> \o f[u.next] \in Seq(Int)
      BY <3>2, <3>3
    <3> QED BY <3>1, <3>4
  <2> QED BY <1>0, <2>1, <2>2
<1>4. ASSUME NEW i \in X, NEW f, NEW g, \A j \in X : mu[j] < mu[i] => f[j] = g[j]
      PROVE  Rule(f, i) = Rule(g, i)
  <2>1. CASE i > Len(s)
    BY <2>1 DEF ReadsTurn
  <2>2. CASE i <= Len(s)
    <3> DEFINE u == Reference!Utf8At(s, i)
    <3>1. /\ Rule(f, i) = <<u.point>> \o f[u.next]
          /\ Rule(g, i) = <<u.point>> \o g[u.next]
      BY <1>0, <2>2 DEF ReadsTurn
    <3>2. u.next \in X /\ mu[u.next] < mu[i]
      BY <1>2, <2>2
    <3> HIDE DEF X, Rule, u, mu
    <3>3. f[u.next] = g[u.next]
      BY <1>4, <3>2
    <3> QED BY <3>1, <3>3
  <2> QED BY <1>0, <2>1, <2>2
<1> HIDE DEF X, V, mu, Rule
<1>5. R \in [[X -> V] \X X -> V] /\ \A f \in [X -> V], i \in X : R[<<f, i>>] = Rule(f, i)
  BY <1>3
<1> HIDE DEF R
<1>6. LooksBelow(X, V, mu, R)
  <2>1. ASSUME NEW i \in X, NEW f \in [X -> V], NEW g \in [X -> V],
               \A j \in X : mu[j] < mu[i] => f[j] = g[j]
        PROVE  R[<<f, i>>] = R[<<g, i>>]
    <3>1. Rule(f, i) = Rule(g, i)
      BY <1>4, <2>1
    <3>2. R[<<f, i>>] = Rule(f, i) /\ R[<<g, i>>] = Rule(g, i)
      BY <1>5
    <3> QED BY <3>1, <3>2
  <2> QED BY <2>1, Zenon DEF LooksBelow
<1>7. V # {}
  <2>1. << >> \in V
    BY DEF V
  <2> QED BY <2>1
<1>8. PICK e : IsSolution(X, V, R, e)
  BY <1>1, <1>5, <1>6, <1>7, Recursion
<1>9. Solution(e)
  BY <1>5, <1>8 DEF IsSolution
<1> DEFINE from == CHOOSE f : Solution(f)
<1>10. Reference!ReadUtf8(s) = from[1]
  BY Zenon DEF Reference!ReadUtf8, Rule, X, ReadsTurn
<1> HIDE DEF Solution
<1>11. Solution(from)
  BY <1>9
<1> HIDE DEF from
<1>12. \A i \in X : from[i] = Rule(from, i)
  BY <1>11 DEF Solution
<1> QED BY <1>10, <1>12 DEF X, Rule

-----------------------------------------------------------------------------
(* Two copies of one string compared; a string of chars has no faults.     *)

\* The turns of the copy loop, by what they do.
Turn(m, end, cap, g, src, dest) ==
  LET u == NextUnit(m, src, end)
      d == dest \o u.bytes
  IN
  /\ g[<<src, dest>>] \in CopyResults
  /\ src = end /\ Len(dest) < cap => g[<<src, dest>>] = [err |-> "NONE", text |-> dest]
  /\ src = end /\ Len(dest) >= cap =>
       g[<<src, dest>>] = [err |-> "INSUFFICIENT_SPACE", text |-> dest]
  /\ src < end /\ u.err # "NONE" => g[<<src, dest>>] = [err |-> u.err, text |-> dest]
  /\ src < end /\ u.err = "NONE" =>
       /\ u.bytes \in Seq(Bytes) /\ Len(u.bytes) \in 1 .. 3 /\ u.next \in src + 1 .. end
       /\ d \in Seq(Bytes) /\ Len(d) = Len(dest) + Len(u.bytes)
       /\ Len(d) >= cap => g[<<src, dest>>] = [err |-> "INSUFFICIENT_SPACE", text |-> dest]
       /\ Len(d) < cap => g[<<src, dest>>] = g[<<u.next, d>>]

\* Every turn of the loop is one of these.
LEMMA CopyTurns ==
  ASSUME NEW m \in Seq(Bytes), NEW start \in Nat \ {0}, NEW end \in Nat,
         start <= end, end <= Len(m) + 1, NEW cap \in Nat, NEW g, Copies(m, start, end, cap, g),
         NEW src \in start .. end, NEW dest \in Seq(Bytes)
  PROVE  Turn(m, end, cap, g, src, dest)
<1> DEFINE u == NextUnit(m, src, end)
           d == dest \o u.bytes
<1>1. g[<<src, dest>>] = CopyTurn(m, end, cap, g, src, dest) /\ g[<<src, dest>>] \in CopyResults
  BY DEF Copies
<1>2. CASE src = end
  BY <1>1, <1>2 DEF CopyTurn, NoRoom, Turn
<1>3. CASE src < end /\ u.err # "NONE"
  <2>1. ~(src >= end) /\ src # end
    BY <1>3
  <2> QED BY <1>1, <1>3, <2>1 DEF CopyTurn, Turn
<1>4. CASE src < end /\ u.err = "NONE"
  <2>0. ~(src >= end) /\ src # end /\ src \in Nat \ {0}
    BY <1>4
  <2>1. u.bytes \in Seq(Bytes) /\ Len(u.bytes) \in 1 .. 3 /\ u.next \in src + 1 .. end
    BY <1>4, <2>0, UnitType
  <2>2. d \in Seq(Bytes) /\ Len(d) = Len(dest) + Len(u.bytes)
    <3> HIDE DEF u
    <3> QED BY <2>1
  <2>3. g[<<src, dest>>] =
          IF NoRoom(Len(dest) + Len(u.bytes), cap)
            THEN [err |-> "INSUFFICIENT_SPACE", text |-> dest]
          ELSE g[<<u.next, d>>]
    BY <1>1, <1>4, <2>0 DEF CopyTurn
  <2> HIDE DEF u, d
  <2>4. /\ Len(d) >= cap => g[<<src, dest>>] = [err |-> "INSUFFICIENT_SPACE", text |-> dest]
        /\ Len(d) < cap => g[<<src, dest>>] = g[<<u.next, d>>]
    BY <2>1, <2>2, <2>3 DEF NoRoom
  <2> QED BY <1>1, <1>4, <2>0, <2>1, <2>2, <2>4 DEF u, d, Turn
<1> QED BY <1>2, <1>3, <1>4

\* Three texts, one behind the other.
LEMMA JoinedThrice ==
  ASSUME NEW S, NEW x \in Seq(S), NEW y \in Seq(S), NEW w \in Seq(S)
  PROVE  /\ y \o w \in Seq(S) /\ (x \o y) \o w = x \o (y \o w)
         /\ Len((x \o y) \o w) >= Len(x \o y)
OBVIOUS

\* Two copies of one string into buffers of different sizes, where the first
\* has room: the second is the same or stops in front of its end.
Fits(c, v, cap, dest) ==
  /\ \E w \in Seq(Bytes) : c.text = dest \o w
  /\ Len(c.text) < cap => v = c
  /\ Len(c.text) >= cap =>
       /\ v.err = "INSUFFICIENT_SPACE" /\ \E w \in Seq(Bytes) : c.text = v.text \o w
       /\ Len(dest) < cap \/ dest = << >> => Len(v.text) < cap \/ v.text = << >>

\* What is to be shown of two loops g and h at one place.
Compared(g, h, cap, src, dest) ==
  g[<<src, dest>>].err = "NONE" => Fits(g[<<src, dest>>], h[<<src, dest>>], cap, dest)

\* It holds at every place, from the end of the token backwards.
LEMMA CopiesCompared ==
  ASSUME NEW m \in Seq(Bytes), NEW start \in Nat \ {0}, NEW end \in Nat,
         start <= end, end <= Len(m) + 1, NEW big \in Nat, NEW cap \in Nat,
         NEW g, Copies(m, start, end, big, g), NEW h, Copies(m, start, end, cap, h)
  PROVE  \A src \in start .. end, dest \in Seq(Bytes) : Compared(g, h, cap, src, dest)
<1> DEFINE Good(src) == \A dest \in Seq(Bytes) : Compared(g, h, cap, src, dest)
           S == {k \in Nat : \A src \in start .. end : src + k >= end => Good(src)}
<1>1. ASSUME NEW src \in start .. end, \A next \in src + 1 .. end : Good(next)
      PROVE  Good(src)
  <2> SUFFICES ASSUME NEW dest \in Seq(Bytes), g[<<src, dest>>].err = "NONE"
               PROVE  Fits(g[<<src, dest>>], h[<<src, dest>>], cap, dest)
    BY DEF Compared
  <2> DEFINE u == NextUnit(m, src, end)
             d == dest \o u.bytes
             c == g[<<src, dest>>]
             t == c.text
             v == h[<<src, dest>>]
  <2>a. Turn(m, end, big, g, src, dest)
    BY CopyTurns
  <2>b. Turn(m, end, cap, h, src, dest)
    BY CopyTurns
  <2>1. CASE src = end
    <3>1. ~(Len(dest) >= big) /\ Len(dest) \in Nat
      <4>1. Len(dest) >= big => g[<<src, dest>>] = [err |-> "INSUFFICIENT_SPACE", text |-> dest]
        BY <2>a, <2>1 DEF Turn
      <4> QED BY <4>1
    <3>2. g[<<src, dest>>] = [err |-> "NONE", text |-> dest]
      BY <2>a, <2>1, <3>1 DEF Turn
    <3>3. /\ Len(dest) < cap => v = [err |-> "NONE", text |-> dest]
          /\ Len(dest) >= cap => v = [err |-> "INSUFFICIENT_SPACE", text |-> dest]
      BY <2>b, <2>1 DEF Turn
    <3>4. << >> \in Seq(Bytes) /\ dest = dest \o << >>
      OBVIOUS
    <3>5. t = dest
      BY <3>2
    <3>6. Len(t) >= cap => v.err = "INSUFFICIENT_SPACE" /\ v.text = dest
      BY <3>3, <3>5
    <3>7. Len(t) < cap => v = c
      BY <3>2, <3>3, <3>5
    <3> DEFINE none == << >>
    <3>8. none \in Seq(Bytes) /\ t = dest \o none
      BY <3>4, <3>5
    <3>9. Len(t) \in Nat /\ (Len(t) >= cap => ~(Len(t) < cap))
      BY <3>1, <3>5
    <3> HIDE DEF v, c, t, none
    <3> QED BY <3>5, <3>6, <3>7, <3>8, <3>9 DEF v, c, t, Fits
  <2>2. CASE src < end
    <3>1. u.err = "NONE"
      <4>1. u.err # "NONE" => g[<<src, dest>>] = [err |-> u.err, text |-> dest]
        BY <2>a, <2>2 DEF Turn
      <4> QED BY <4>1
    <3>2. /\ u.bytes \in Seq(Bytes) /\ Len(u.bytes) \in 1 .. 3 /\ u.next \in src + 1 .. end
          /\ d \in Seq(Bytes) /\ Len(d) = Len(dest) + Len(u.bytes)
          /\ Len(d) >= big => g[<<src, dest>>] = [err |-> "INSUFFICIENT_SPACE", text |-> dest]
          /\ Len(d) < big => g[<<src, dest>>] = g[<<u.next, d>>]
      BY <2>a, <2>2, <3>1 DEF Turn
    <3>3. /\ Len(d) >= cap => v = [err |-> "INSUFFICIENT_SPACE", text |-> dest]
          /\ Len(d) < cap => v = h[<<u.next, d>>]
      BY <2>b, <2>2, <3>1 DEF Turn
    <3>4. v \in CopyResults /\ g[<<src, dest>>] \in CopyResults
      BY <2>a, <2>b DEF Turn
    <3> HIDE DEF u
    <3>5. \A w \in Seq(Bytes) : /\ u.bytes \o w \in Seq(Bytes) /\ d \o w = dest \o (u.bytes \o w)
                                /\ Len(d \o w) >= Len(d)
      <4>1. u.bytes \in Seq(Bytes)
        BY <3>2
      <4> QED BY <4>1, JoinedThrice
    <3> HIDE DEF d
    <3>6. Len(dest) \in Nat /\ Len(d) \in Nat
      BY <3>2
    <3>7. g[<<src, dest>>] = g[<<u.next, d>>] /\ g[<<u.next, d>>].err = "NONE"
      BY <3>2, <3>6
    <3>8. Compared(g, h, cap, u.next, d)
      BY <1>1, <3>2
    <3>9. Fits(c, h[<<u.next, d>>], cap, d)
      BY <3>7, <3>8 DEF Compared
    <3>10. PICK w \in Seq(Bytes) : t = d \o w
      BY <3>9 DEF Fits
    <3>11. t \in Seq(Bytes)
      BY <3>4 DEF CopyResults
    <3> HIDE DEF c, v
    <3>12. u.bytes \o w \in Seq(Bytes) /\ t = dest \o (u.bytes \o w) /\ Len(t) >= Len(d)
      BY <3>5, <3>10, Zenon
    <3>13. Len(t) \in Nat
      BY <3>11
    <3> DEFINE a == u.bytes \o w
    <3> HIDE DEF t, a
    <3>14. a \in Seq(Bytes) /\ t = dest \o a
      BY <3>12 DEF a
    <3>15. CASE Len(d) < cap
      <4>1. v = h[<<u.next, d>>]
        BY <3>3, <3>15
      <4>2. Fits(c, v, cap, d)
        BY <3>9, <4>1
      <4> QED BY <3>14, <3>15, <4>2 DEF Fits, t, c, v
    <3>16. CASE Len(d) >= cap
      <4>1. v = [err |-> "INSUFFICIENT_SPACE", text |-> dest]
        BY <3>3, <3>16
      <4>2. ~(Len(t) < cap)
        BY <3>6, <3>12, <3>13, <3>16
      <4>3. v.err = "INSUFFICIENT_SPACE" /\ v.text = dest
        BY <4>1
      <4> QED BY <3>14, <4>2, <4>3 DEF Fits, t, c, v
    <3> QED BY <3>6, <3>15, <3>16
  <2> QED BY <2>1, <2>2
<1> HIDE DEF Good
<1>2. 0 \in S
  <2>1. ASSUME NEW src \in start .. end, src >= end PROVE Good(src)
    <3>1. \A next \in src + 1 .. end : FALSE
      BY <2>1
    <3> QED BY <1>1, <3>1
  <2> QED BY <2>1
<1>3. ASSUME NEW k \in Nat, k \in S PROVE k + 1 \in S
  <2>1. ASSUME NEW src \in start .. end, src + (k + 1) >= end PROVE Good(src)
    <3>1. \A next \in src + 1 .. end : next \in start .. end /\ next + k >= end
      BY <2>1
    <3>2. \A next \in src + 1 .. end : Good(next)
      BY <1>3, <3>1
    <3> QED BY <1>1, <3>2
  <2> QED BY <2>1
<1> HIDE DEF S
<1>4. end \in S
  BY <1>2, <1>3, SetInduction
<1>5. ASSUME NEW src \in start .. end PROVE Good(src)
  <2>1. src + end >= end
    OBVIOUS
  <2> QED BY <1>4, <2>1 DEF S
<1> QED BY <1>5 DEF Good

\* A string of chars has no faults: it is copied when there is room.
LEMMA CharsAreCopied ==
  ASSUME NEW m \in Seq(Bytes), NEW p \in Nat, NEW r \in Nat, p < r, r <= Len(m),
         NEW s \in Seq(STRING), Len(s) = r - p - 1, Inside(m, s, p, r),
         NEW f, \A i \in 1 .. Len(s) + 1 : f[i] <=> CharsGoOn(s, f, i), f[1],
         NEW cap \in Nat, 3 * Len(s) < cap, NEW g, Copies(m, p + 1, r, cap, g)
  PROVE  g[<<p + 1, << >>>>].err = "NONE"
<1> DEFINE l == Len(s)
           Good(i) == f[i] => \A dest \in Seq(Bytes) :
                        3 * (l + 1 - i) + Len(dest) < cap => g[<<p + i, dest>>].err = "NONE"
           S == {k \in Nat : \A i \in 1 .. l + 1 : i + k >= l + 1 => Good(i)}
<1>0. l \in Nat /\ p + 1 \in Nat \ {0} /\ p + 1 <= r /\ r <= Len(m) + 1 /\ l + 1 = r - p
  OBVIOUS
<1>1. ASSUME NEW i \in 1 .. l + 1, \A j \in i + 1 .. l + 1 : Good(j)
      PROVE  Good(i)
  <2> SUFFICES ASSUME f[i], NEW dest \in Seq(Bytes), 3 * (l + 1 - i) + Len(dest) < cap
               PROVE  g[<<p + i, dest>>].err = "NONE"
    OBVIOUS
  <2> DEFINE src == p + i
  <2>0. src \in p + 1 .. r /\ Len(dest) \in Nat
    BY <1>0
  <2>a. Turn(m, r, cap, g, src, dest)
    <3> HIDE DEF src
    <3> QED BY <1>0, <2>0, CopyTurns
  <2>1. CASE i = l + 1
    <3>1. src = r /\ Len(dest) < cap
      BY <1>0, <2>0, <2>1
    <3> HIDE DEF src
    <3>2. g[<<src, dest>>] = [err |-> "NONE", text |-> dest]
      BY <2>a, <3>1 DEF Turn
    <3> QED BY <3>2 DEF src
  <2>2. CASE i # l + 1
    <3>1. i \in 1 .. Len(s) /\ CharsGoOn(s, f, i) /\ src < r
      BY <1>0, <2>2
    <3>2. PICK k \in {1, 2, 6} : CharUnitAt(m, s, p, r, f, i, k)
      BY <3>1, CharUnit
    <3> DEFINE u == NextUnit(m, src, r)
               d == dest \o u.bytes
    <3>3. u.err = "NONE" /\ u.next = p + (i + k) /\ i + k <= l + 1 /\ f[i + k]
      BY <3>2 DEF CharUnitAt
    <3> HIDE DEF src
    <3>4. /\ u.bytes \in Seq(Bytes) /\ Len(u.bytes) \in 1 .. 3
          /\ d \in Seq(Bytes) /\ Len(d) = Len(dest) + Len(u.bytes)
          /\ Len(d) < cap => g[<<src, dest>>] = g[<<u.next, d>>]
      BY <2>a, <3>1, <3>3 DEF Turn
    <3> HIDE DEF u, d
    <3>5. i + k \in i + 1 .. l + 1 /\ 3 * (l + 1 - (i + k)) + Len(d) < cap /\ Len(d) < cap
      <4> DEFINE a == Len(dest)
                 b == Len(u.bytes)
                 e == Len(d)
      <4>1. a \in Nat /\ b \in 1 .. 3 /\ e = a + b /\ l \in Nat /\ i \in 1 .. l + 1
              /\ k \in {1, 2, 6} /\ i + k <= l + 1 /\ 3 * (l + 1 - i) + a < cap
        BY <1>0, <2>0, <3>3, <3>4
      <4> HIDE DEF a, b, e, l
      <4>2. i + k \in i + 1 .. l + 1 /\ 3 * (l + 1 - (i + k)) + e < cap /\ e < cap
        BY <4>1
      <4> QED BY <4>2 DEF e
    <3>6. g[<<p + (i + k), d>>].err = "NONE"
      BY <1>1, <3>3, <3>4, <3>5
    <3> QED BY <3>3, <3>4, <3>5, <3>6 DEF src
  <2> QED BY <2>1, <2>2
<1> HIDE DEF Good
<1>2. 0 \in S
  <2>1. ASSUME NEW i \in 1 .. l + 1, i >= l + 1 PROVE Good(i)
    <3>1. \A j \in i + 1 .. l + 1 : FALSE
      BY <1>0, <2>1
    <3> QED BY <1>1, <3>1
  <2> QED BY <2>1
<1>3. ASSUME NEW k \in Nat, k \in S PROVE k + 1 \in S
  <2>1. ASSUME NEW i \in 1 .. l + 1, i + (k + 1) >= l + 1 PROVE Good(i)
    <3>1. \A j \in i + 1 .. l + 1 : j \in 1 .. l + 1 /\ j + k >= l + 1
      BY <1>0, <2>1
    <3>2. \A j \in i + 1 .. l + 1 : Good(j)
      BY <1>3, <3>1
    <3> QED BY <1>1, <3>2
  <2> QED BY <2>1
<1> HIDE DEF S
<1>4. l \in S
  BY <1>0, <1>2, <1>3, SetInduction
<1>5. 1 \in 1 .. l + 1 /\ 1 + l >= l + 1
  BY <1>0
<1>6. Good(1)
  BY <1>4, <1>5 DEF S
<1>7. << >> \in Seq(Bytes) /\ 3 * (l + 1 - 1) + Len(<< >>) < cap
  BY <1>0
<1> HIDE DEF l
<1> QED BY <1>6, <1>7 DEF Good

-----------------------------------------------------------------------------
(* What was copied, read back as the reference does.                       *)

\* A text within another, behind the first n of it.
StandsBehind(t, n, y) == n + Len(y) <= Len(t) /\ \A j \in 1 .. Len(y) : t[n + j] = y[j]

\* What stands behind one text and in front of another.
LEMMA StandsBetween ==
  ASSUME NEW S, NEW x \in Seq(S), NEW y \in Seq(S), NEW w \in Seq(S)
  PROVE  StandsBehind((x \o y) \o w, Len(x), y)
<1> DEFINE d == x \o y
           l == Len(y)
           n == Len(x)
<1>1. d \in Seq(S) /\ Len(d) = n + l /\ n \in Nat /\ l \in Nat /\ \A j \in 1 .. l : d[n + j] = y[j]
  BY JoinedFacts
<1> HIDE DEF d, l, n
<1>2. Len(d \o w) = Len(d) + Len(w) /\ \A k \in 1 .. Len(d) : (d \o w)[k] = d[k]
  BY <1>1, JoinedFacts
<1>3. Len(w) \in Nat
  OBVIOUS
<1>4. n + l <= Len(d \o w) /\ \A j \in 1 .. l : n + j \in 1 .. Len(d)
  BY <1>1, <1>2, <1>3
<1>5. \A j \in 1 .. l : (d \o w)[n + j] = y[j]
  BY <1>1, <1>2, <1>4
<1>6. StandsBehind(d \o w, n, y)
  BY <1>4, <1>5 DEF StandsBehind, l
<1> QED BY <1>6 DEF d, n

\* What is written where it belongs is read there.
ReadsThere(t, n, bytes, x) ==
  /\ n + 1 <= Len(t)
  /\ Reference!Utf8At(t, n + 1) = [point |-> x, next |-> n + Len(bytes) + 1]

\* What ReadsAs says of bytes on their own, read in their place.
LEMMA Utf8Stands ==
  ASSUME NEW n \in Nat, NEW bytes \in Seq(Bytes), NEW t \in Seq(Bytes),
         Len(bytes) \in 1 .. 3, StandsBehind(t, n, bytes), NEW x, ReadsAs(bytes, x)
  PROVE  ReadsThere(t, n, bytes, x)
<1> USE DEF StandsBehind, ReadsThere
<1> DEFINE i == n + 1
           l == Len(bytes)
<1>1. /\ i \in Nat \ {0} /\ l \in 1 .. 3 /\ l \in Nat /\ n + l + 1 = i + l /\ i <= Len(t)
      /\ i + l - 1 <= Len(t) /\ Len(t) \in Nat /\ t \in Seq(Bytes)
  <2>1. l \in 1 .. 3 /\ n + l <= Len(t) /\ Len(t) \in Nat
    OBVIOUS
  <2> HIDE DEF l
  <2> QED BY <2>1
<1>3. ASSUME NEW k \in {0, 1, 2}, k < l
      PROVE  Reference!CodeAt(t, i + k) = Code[bytes[k + 1]]
  <2>1. k + 1 \in 1 .. l /\ n + (k + 1) = i + k /\ i + k <= Len(t) /\ i + k \in Nat \ {0}
    <3> HIDE DEF l
    <3> QED BY <1>1, <1>3
  <2>2. t[n + (k + 1)] = bytes[k + 1]
    BY <2>1
  <2> DEFINE j == i + k
  <2>3. j \in Nat \ {0} /\ j <= Len(t) /\ t[j] = bytes[k + 1]
    BY <2>1, <2>2
  <2> HIDE DEF j
  <2>4. Reference!CodeAt(t, j) = Code[t[j]]
    BY <2>3, CodesAre
  <2> QED BY <2>3, <2>4, Zenon DEF j
<1> DEFINE a == Reference!CodeAt(t, i)
           b == Reference!CodeAt(t, i + 1)
           c == Reference!CodeAt(t, i + 2)
           u == Reference!Utf8At(t, i)
<1>4. a = Code[bytes[1]] /\ (1 < l => b = Code[bytes[2]]) /\ (2 < l => c = Code[bytes[3]])
  <2>1. 0 < l /\ i + 0 = i /\ 0 + 1 = 1 /\ 1 + 1 = 2 /\ 2 + 1 = 3
    <3> HIDE DEF i, l
    <3> QED BY <1>1
  <2> HIDE DEF i, l
  <2> QED BY <1>3, <2>1
<1>5. /\ a < 128 => u = [point |-> a, next |-> i + 1]
      /\ a \in 194 .. 223 /\ b \in 128 .. 191 =>
           u = [point |-> (a - 192) * 64 + b - 128, next |-> i + 2]
      /\ (/\ a \in 224 .. 239 /\ b \in 128 .. 191 /\ c \in 128 .. 191
          /\ (a = 224 => b >= 160) /\ (a = 237 => b <= 159)) =>
           u = [point |-> (a - 224) * 4096 + (b - 128) * 64 + c - 128, next |-> i + 3]
  <2>1. i \in Nat \ {0}
    BY <1>1
  <2> HIDE DEF i
  <2> QED BY <2>1, Utf8Cases
<1>6. \/ l = 1 /\ Code[bytes[1]] = x /\ x < 128
      \/ /\ l = 2 /\ Code[bytes[1]] \in 194 .. 223 /\ Code[bytes[2]] \in 128 .. 191
         /\ x = (Code[bytes[1]] - 192) * 64 + Code[bytes[2]] - 128
      \/ /\ l = 3 /\ Code[bytes[1]] \in 224 .. 239
         /\ Code[bytes[2]] \in 128 .. 191 /\ Code[bytes[3]] \in 128 .. 191
         /\ Code[bytes[1]] = 224 => Code[bytes[2]] >= 160
         /\ Code[bytes[1]] = 237 => Code[bytes[2]] <= 159
         /\ x = (Code[bytes[1]] - 224) * 4096 + (Code[bytes[2]] - 128) * 64 + Code[bytes[3]] - 128
  BY DEF ReadsAs
<1> HIDE DEF a, b, c, u, l
<1>7. CASE l = 1 /\ Code[bytes[1]] = x /\ x < 128
  <2>1. u = [point |-> x, next |-> i + 1]
    BY <1>4, <1>5, <1>7
  <2>2. n + l + 1 = i + 1
    BY <1>1, <1>7
  <2> QED BY <1>1, <2>1, <2>2 DEF u, l
<1>8. CASE /\ l = 2 /\ Code[bytes[1]] \in 194 .. 223 /\ Code[bytes[2]] \in 128 .. 191
           /\ x = (Code[bytes[1]] - 192) * 64 + Code[bytes[2]] - 128
  <2>1. a = Code[bytes[1]] /\ b = Code[bytes[2]]
    BY <1>4, <1>8
  <2>2. u = [point |-> x, next |-> i + 2]
    BY <1>5, <1>8, <2>1
  <2>3. n + l + 1 = i + 2
    BY <1>1, <1>8
  <2> QED BY <1>1, <2>2, <2>3 DEF u, l
<1>9. CASE /\ l = 3 /\ Code[bytes[1]] \in 224 .. 239
           /\ Code[bytes[2]] \in 128 .. 191 /\ Code[bytes[3]] \in 128 .. 191
           /\ Code[bytes[1]] = 224 => Code[bytes[2]] >= 160
           /\ Code[bytes[1]] = 237 => Code[bytes[2]] <= 159
           /\ x = (Code[bytes[1]] - 224) * 4096 + (Code[bytes[2]] - 128) * 64 + Code[bytes[3]] - 128
  <2>1. a = Code[bytes[1]] /\ b = Code[bytes[2]] /\ c = Code[bytes[3]]
    BY <1>4, <1>9
  <2>2. u = [point |-> x, next |-> i + 3]
    BY <1>5, <1>9, <2>1
  <2>3. n + l + 1 = i + 3
    BY <1>1, <1>9
  <2> QED BY <1>1, <2>2, <2>3 DEF u, l
<1> QED BY <1>6, <1>7, <1>8, <1>9

\* What was copied reads back as what the chars of the string stand for.
ReadBack(g, start, s) == Reference!ReadUtf8(g[<<start, << >>>>].text) = Reference!Units(s)

\* By induction over the chars of the string, from its end.
LEMMA CharsAreRead ==
  ASSUME NEW m \in Seq(Bytes), NEW p \in Nat, NEW r \in Nat, p < r, r <= Len(m),
         NEW s \in Seq(STRING), Len(s) = r - p - 1, Inside(m, s, p, r),
         \A k \in p + 1 .. r - 1 : Code[m[k]] < 128,
         NEW f, \A i \in 1 .. Len(s) + 1 : f[i] <=> CharsGoOn(s, f, i), f[1],
         NEW cap \in Nat, NEW g, Copies(m, p + 1, r, cap, g),
         g[<<p + 1, << >>>>].err = "NONE", Reference!NoSurrogate(Reference!Units(s))
  PROVE  ReadBack(g, p + 1, s)
<1> DEFINE l == Len(s)
           whole == g[<<p + 1, << >>>>]
           t == whole.text
<1>0. l \in Nat /\ p + 1 \in Nat \ {0} /\ p + 1 <= r /\ r <= Len(m) + 1 /\ l + 1 = r - p
        /\ p + 1 \in p + 1 .. r /\ << >> \in Seq(Bytes)
  OBVIOUS
<1>1. t \in Seq(Bytes) /\ whole.err = "NONE"
  <2>1. Turn(m, r, cap, g, p + 1, << >>)
    <3> DEFINE none == << >>
               start == p + 1
    <3>1. start \in Nat \ {0} /\ start <= r /\ start \in start .. r /\ none \in Seq(Bytes)
            /\ Copies(m, start, r, cap, g)
      BY <1>0
    <3> HIDE DEF start, none
    <3>2. Turn(m, r, cap, g, start, none)
      BY <1>0, <3>1, CopyTurns
    <3> QED BY <3>2 DEF start, none
  <2>2. whole \in CopyResults
    BY <2>1 DEF Turn
  <2> HIDE DEF whole
  <2>3. t \in Seq(Bytes)
    BY <2>2 DEF CopyResults
  <2> QED BY <2>3 DEF whole
<1> HIDE DEF whole, t
<1>2. PICK points : /\ \A i \in 1 .. l + 1 : points[i] = PointsTurn(s, points, i)
                    /\ Reference!Units(s) = points[1]
  BY PointsRule
<1>3. PICK reads : /\ \A i \in 1 .. Len(t) + 4 : reads[i] = ReadsTurn(t, reads, i)
                   /\ Reference!ReadUtf8(t) = reads[1]
  BY <1>1, ReadsRule
<1> DEFINE P == {Reference!Unit(SubSeq(s, i, j)) : i, j \in 1 .. l}
           Reading(i) == \A dest \in Seq(Bytes) : g[<<p + i, dest>>] = whole =>
                           reads[Len(dest) + 1] = points[i]
           Good(i) ==
             f[i] => points[i] \in Seq(P) /\ (Reference!NoSurrogate(points[i]) => Reading(i))
           S == {k \in Nat : \A i \in 1 .. l + 1 : i + k >= l + 1 => Good(i)}
<1>4. ASSUME NEW i \in 1 .. l + 1, \A j \in i + 1 .. l + 1 : Good(j)
      PROVE  Good(i)
  <2> SUFFICES ASSUME f[i]
               PROVE  points[i] \in Seq(P) /\ (Reference!NoSurrogate(points[i]) => Reading(i))
    OBVIOUS
  <2> DEFINE src == p + i
  <2>0. src \in p + 1 .. r /\ Len(t) \in Nat
    BY <1>0, <1>1
  <2>a. ASSUME NEW dest \in Seq(Bytes) PROVE Turn(m, r, cap, g, src, dest) /\ Len(dest) \in Nat
    <3> HIDE DEF src
    <3> QED BY <1>0, <2>0, CopyTurns
  <2>b. points[i] = PointsTurn(s, points, i)
    BY <1>2
  <2>1. CASE i = l + 1
    <3>1. src = r
      BY <1>0, <2>1
    <3>2. points[i] = << >>
      BY <2>b, <2>1 DEF PointsTurn
    <3>3. points[i] \in Seq(P)
      <4> HIDE DEF P
      <4> QED BY <3>2
    <3>4. ASSUME NEW dest \in Seq(Bytes), g[<<src, dest>>] = whole
          PROVE  reads[Len(dest) + 1] = points[i]
      <4> DEFINE n == Len(dest)
      <4>1. g[<<src, dest>>].err = "NONE" /\ g[<<src, dest>>].text = t
        BY <1>1, <3>4 DEF t
      <4>2. t = dest
        <5>1. \/ g[<<src, dest>>] = [err |-> "NONE", text |-> dest]
              \/ g[<<src, dest>>] = [err |-> "INSUFFICIENT_SPACE", text |-> dest]
          <6> HIDE DEF src
          <6>1. Len(dest) < cap \/ Len(dest) >= cap
            BY <2>a
          <6> QED BY <2>a, <3>1, <6>1 DEF Turn
        <5> HIDE DEF src
        <5> QED BY <4>1, <5>1
      <4>3. n + 1 \in 1 .. Len(t) + 4 /\ n + 1 > Len(t)
        BY <2>0, <4>2
      <4>4. reads[n + 1] = << >>
        BY <1>3, <4>3 DEF ReadsTurn
      <4> QED BY <3>2, <4>4
    <3> QED BY <3>3, <3>4
  <2>2. CASE i # l + 1
    <3>1. i \in 1 .. Len(s) /\ CharsGoOn(s, f, i) /\ src < r
      <4>1. i \in 1 .. Len(s) /\ i \in 1 .. Len(s) + 1 /\ src < r
        BY <1>0, <2>2
      <4>2. f[i] <=> CharsGoOn(s, f, i)
        BY <4>1
      <4>3. CharsGoOn(s, f, i)
        BY <4>2
      <4> QED BY <4>1, <4>3
    <3>2. PICK k \in {1, 2, 6} : CharUnitAt(m, s, p, r, f, i, k)
      BY <3>1, CharUnit
    <3> DEFINE u == NextUnit(m, src, r)
               x == Reference!Unit(SubSeq(s, i, i + k - 1))
    <3>3. /\ u.err = "NONE" /\ u.next = p + (i + k) /\ i + k <= l + 1 /\ f[i + k]
          /\ Reference!CharsAt(s, i) = {i + k - 1}
      BY <3>2 DEF CharUnitAt
    <3>4. ReadsUnless(u.bytes, x)
      <4>1. Code[m[p + i]] < 128
        <5>1. src \in p + 1 .. r - 1
          BY <1>0, <2>0, <3>1
        <5> HIDE DEF src
        <5>2. Code[m[src]] < 128
          BY <5>1
        <5> QED BY <5>2 DEF src
      <4> QED BY <3>2, <4>1 DEF CharUnitAt
    <3>5. points[i] = <<x>> \o points[i + k]
      <4>1. (CHOOSE j \in Reference!CharsAt(s, i) : TRUE) = i + k - 1
        BY <3>3
      <4>2. i + k - 1 + 1 = i + k /\ Reference!CharsAt(s, i) # {}
        BY <3>3
      <4> QED BY <2>b, <2>2, <4>1, <4>2 DEF PointsTurn
    <3>6. i + k \in i + 1 .. l + 1 /\ i \in 1 .. l /\ i + k - 1 \in 1 .. l
      BY <1>0, <3>1, <3>3
    <3>7. Good(i + k)
      <4> HIDE DEF Good
      <4> QED BY <1>4, <3>6
    <3>8. x \in P
      BY <3>6
    <3> HIDE DEF src, x, u, P
    <3>9. points[i + k] \in Seq(P)
      BY <3>3, <3>7
    <3> DEFINE rest == points[i + k]
    <3>10. points[i] \in Seq(P)
      <4> HIDE DEF rest
      <4>1. <<x>> \o rest \in Seq(P)
        BY <3>8, <3>9 DEF rest
      <4> QED BY <3>5, <4>1 DEF rest
    <3>11. ASSUME Reference!NoSurrogate(points[i])
           PROVE  x \notin Reference!Surrogate /\ Reference!NoSurrogate(points[i + k])
      <4> HIDE DEF rest
      <4>1. rest \in Seq(P) /\ points[i] = <<x>> \o rest /\ Len(rest) \in Nat
        BY <3>5, <3>9 DEF rest
      <4>2. Len(points[i]) = Len(rest) + 1 /\ points[i][1] = x
              /\ \A j \in 1 .. Len(rest) : points[i][j + 1] = rest[j]
        BY <3>8, <4>1
      <4>3. \A j \in 1 .. Len(rest) + 1 : points[i][j] \notin Reference!Surrogate
        BY <3>10, <3>11, <4>2 DEF Reference!NoSurrogate
      <4>4. 1 \in 1 .. Len(rest) + 1 /\ \A j \in 1 .. Len(rest) : j + 1 \in 1 .. Len(rest) + 1
        BY <4>1
      <4>5. \A j \in 1 .. Len(rest) : rest[j] \notin Reference!Surrogate
        BY <4>2, <4>3, <4>4
      <4>6. Reference!NoSurrogate(rest)
        BY <4>1, <4>5 DEF Reference!NoSurrogate
      <4> QED BY <4>2, <4>3, <4>4, <4>6 DEF rest
    <3>12. ASSUME Reference!NoSurrogate(points[i]), NEW dest \in Seq(Bytes),
                  g[<<src, dest>>] = whole
           PROVE  reads[Len(dest) + 1] = points[i]
      <4> DEFINE n == Len(dest)
                 d == dest \o u.bytes
      <4>0. n \in Nat
        BY <2>a
      <4>1. x \notin Reference!Surrogate /\ Reference!NoSurrogate(points[i + k]) /\ ReadsAs(u.bytes, x)
        BY <3>4, <3>11, <3>12 DEF ReadsUnless
      <4>2. /\ u.bytes \in Seq(Bytes) /\ Len(u.bytes) \in 1 .. 3 /\ u.next \in src + 1 .. r
            /\ d \in Seq(Bytes) /\ Len(d) = Len(dest) + Len(u.bytes)
            /\ Len(d) >= cap => g[<<src, dest>>] = [err |-> "INSUFFICIENT_SPACE", text |-> dest]
            /\ Len(d) < cap => g[<<src, dest>>] = g[<<u.next, d>>]
        BY <2>a, <3>1, <3>3 DEF Turn, u
      <4> HIDE DEF d
      <4>3. g[<<u.next, d>>] = whole
        <5>1. Len(d) < cap \/ Len(d) >= cap
          BY <4>2
        <5> QED BY <1>1, <3>12, <4>2, <5>1
      <4>4. reads[Len(d) + 1] = points[i + k]
        <5>1. Reading(i + k)
          BY <3>3, <3>7, <4>1
        <5> QED BY <3>3, <4>2, <4>3, <5>1
      <4>5. PICK w \in Seq(Bytes) : t = d \o w
        <5>1. u.next \in p + 1 .. r
          BY <2>0, <4>2
        <5>2. Compared(g, g, cap, u.next, d)
          BY <1>0, <4>2, <5>1, CopiesCompared
        <5>3. Fits(whole, whole, cap, d)
          BY <1>1, <4>3, <5>2 DEF Compared
        <5> QED BY <5>3 DEF Fits, t
      <4> DEFINE bytes == u.bytes
      <4>6. bytes \in Seq(Bytes) /\ Len(bytes) \in 1 .. 3 /\ ReadsAs(bytes, x) /\ d = dest \o bytes
        BY <4>1, <4>2 DEF d
      <4> HIDE DEF bytes
      <4>7. /\ n + 1 <= Len(t)
            /\ Reference!Utf8At(t, n + 1) = [point |-> x, next |-> Len(d) + 1]
        <5>1. StandsBehind((dest \o bytes) \o w, n, bytes)
          <6>1. dest \in Seq(Bytes) /\ bytes \in Seq(Bytes) /\ w \in Seq(Bytes)
            BY <4>6
          <6> QED BY <6>1, StandsBetween, Zenon
        <5>2. Len(d) = n + Len(bytes)
          BY <4>2 DEF bytes
        <5>3. n \in Nat /\ t \in Seq(Bytes) /\ bytes \in Seq(Bytes) /\ Len(bytes) \in 1 .. 3
                /\ ReadsAs(bytes, x)
          BY <1>1, <4>0, <4>6
        <5>4. StandsBehind(t, n, bytes)
          BY <4>5, <4>6, <5>1, Zenon
        <5> HIDE DEF n
        <5>5. ReadsThere(t, n, bytes, x)
          BY <5>3, <5>4, Utf8Stands, Zenon
        <5> QED BY <5>2, <5>5 DEF ReadsThere
      <4>8. n + 1 \in 1 .. Len(t) + 4 /\ ~(n + 1 > Len(t))
        BY <2>0, <4>0, <4>7
      <4>9. reads[n + 1] = <<x>> \o reads[Len(d) + 1]
        <5>1. reads[n + 1] = ReadsTurn(t, reads, n + 1)
          BY <1>3, <4>8
        <5> DEFINE at == n + 1
                   next == Len(d) + 1
        <5>2. ReadsTurn(t, reads, at) = <<Reference!Utf8At(t, at).point>> \o reads[Reference!Utf8At(t, at).next]
          BY <4>8 DEF ReadsTurn
        <5>3. Reference!Utf8At(t, at) = [point |-> x, next |-> next]
          BY <4>7
        <5> HIDE DEF at, next
        <5>4. Reference!Utf8At(t, at).point = x /\ Reference!Utf8At(t, at).next = next
          BY <5>3
        <5> QED BY <5>1, <5>2, <5>4, Zenon DEF at, next
      <4> QED BY <3>5, <4>4, <4>9
    <3> QED BY <3>10, <3>12 DEF src
  <2> QED BY <2>1, <2>2
<1> HIDE DEF Good
<1>5. 0 \in S
  <2>1. ASSUME NEW i \in 1 .. l + 1, i >= l + 1 PROVE Good(i)
    <3>1. \A j \in i + 1 .. l + 1 : FALSE
      BY <1>0, <2>1
    <3> QED BY <1>4, <3>1
  <2> QED BY <2>1
<1>6. ASSUME NEW k \in Nat, k \in S PROVE k + 1 \in S
  <2>1. ASSUME NEW i \in 1 .. l + 1, i + (k + 1) >= l + 1 PROVE Good(i)
    <3>1. \A j \in i + 1 .. l + 1 : j \in 1 .. l + 1 /\ j + k >= l + 1
      BY <1>0, <2>1
    <3>2. \A j \in i + 1 .. l + 1 : Good(j)
      BY <1>6, <3>1
    <3> QED BY <1>4, <3>2
  <2> QED BY <2>1
<1> HIDE DEF S
<1>7. l \in S
  BY <1>0, <1>5, <1>6, SetInduction
<1>8. 1 \in 1 .. l + 1 /\ 1 + l >= l + 1
  BY <1>0
<1>9. Reading(1)
  <2>1. Good(1)
    BY <1>7, <1>8 DEF S
  <2> QED BY <1>2, <2>1 DEF Good
<1>10. reads[Len(<< >>) + 1] = points[1]
  <2>1. g[<<p + 1, << >>>>] = whole
    BY DEF whole
  <2> DEFINE none == << >>
  <2> HIDE DEF none
  <2>2. none \in Seq(Bytes) /\ g[<<p + 1, none>>] = whole
    BY <1>0, <2>1 DEF none
  <2>3. reads[Len(none) + 1] = points[1]
    BY <1>9, <2>2
  <2> QED BY <2>3 DEF none
<1>11. Len(<< >>) + 1 = 1
  OBVIOUS
<1>12. Reference!ReadUtf8(t) = Reference!Units(s)
  BY <1>2, <1>3, <1>10, <1>11
<1> QED BY <1>12 DEF t, whole, ReadBack

\* A string token of the lexer, and the string of the reference that it is.
LEMMA StringTokenIs ==
  ASSUME TextOK, IsStringToken
  PROVE  \E p \in 1 .. Len(text), r \in 1 .. Len(text) :
           /\ p < r /\ Whole = Token("s", p + 1, r, r + 1) /\ text[p] = DoubleQuote
           /\ text[r] = DoubleQuote
           /\ Reference!AreChars(SubSeq(text, p + 1, r - 1))
<1> DEFINE n == Len(text)
           q == FirstByte
<1>1. text \in Seq(STRING) /\ n \in Nat /\ n <= Len(text) /\ n = Len(text)
  BY TextIsText
<1>2. Whole.err = "NONE" /\ Whole.type = "s"
  BY DEF IsStringToken
<1>3. q \in 1 .. n /\ Whole = TokenAt(text, n, q)
  <2>1. Whole # Fault("end", "PARTIAL", n + 1)
    BY <1>2 DEF Fault
  <2> QED BY <1>1, <2>1, WholeAtFirst
<1> HIDE DEF n, q
<1>4. PICK e \in q .. n : Found(text, n, q, TokenAt(text, n, q), e)
  BY <1>1, <1>2, <1>3, TokenFound
<1>5. text[q] = DoubleQuote
  <2>1. KindOf(text[q]) = "s"
    BY <1>2, <1>3, <1>4 DEF Found
  <2>2. text[q] = DoubleQuote \/ text[q] = "s"
    BY <2>1 DEF KindOf
  <2>3. text[q] # "s"
    <3> SUFFICES ASSUME text[q] = "s" PROVE FALSE
      OBVIOUS
    <3>1. "s" \notin Symbols /\ "s" \notin {"t", "f", "n"}
      BY BytesDiffer
    <3>2. "s" \notin Begins
      BY DEF Begins, Digit
    <3>3. "s" # DoubleQuote
      BY Zenon DEF DoubleQuote
    <3>4. Whole = Fault("character", "PARTIAL", q)
      BY <1>3, <3>1, <3>2, <3>3, TokenAtCases
    <3> QED BY <1>2, <3>4 DEF Fault
  <2> QED BY <2>2, <2>3
<1>6. Whole = NextString(text, n, q)
  BY <1>3, <1>5, TokenAtCases
<1>7. PICK r \in q + 1 .. n : /\ NextString(text, n, q) = Token("s", q + 1, r, r + 1)
                              /\ Reference!IsString(SubSeq(text, q, r))
  BY <1>1, <1>2, <1>3, <1>5, <1>6, StringFound
<1>8. q \in Nat \ {0} /\ r \in Nat /\ r <= Len(text) /\ q <= r /\ q < r /\ r \in 1 .. n
  BY <1>1, <1>3
<1>9. text[r] = DoubleQuote /\ Reference!AreChars(SubSeq(text, q + 1, r - 1))
  BY <1>1, <1>7, <1>8, StringInside
<1> QED BY <1>1, <1>3, <1>5, <1>6, <1>7, <1>8, <1>9

\* What is put in front of something begins it.
LEMMA BeginsWith ==
  ASSUME NEW x \in Seq(Bytes), NEW w \in Seq(Bytes), NEW t, t = x \o w
  PROVE  IsPrefix(x, t)
<1>1. t \in Seq(Bytes) /\ Len(x) <= Len(t) /\ Len(x) \in Nat /\ Len(t) \in Nat
  OBVIOUS
<1> DEFINE a == SubSeq(x, 1, Len(x))
           b == SubSeq(t, 1, Len(x))
<1>2. a \in Seq(Bytes) /\ b \in Seq(Bytes) /\ Len(a) = Len(b) /\ Len(a) = Len(x)
  BY <1>1
<1>3. \A i \in 1 .. Len(x) : a[i] = x[i] /\ b[i] = t[i] /\ t[i] = x[i]
  BY <1>1
<1>4. a = b
  <2> HIDE DEF a, b
  <2> QED BY <1>2, <1>3, SequencesAlike
<1> QED BY <1>1, <1>4 DEF IsPrefix

\* After the lexer a string has no faults for decode_string; a string that does
\* not fit is refused with how it begins.  What is stored of a string in ASCII
\* that names no surrogate is the UTF-8 form of its code points; of a surrogate
\* pair it is not (PairsAreDecoded).
THEOREM StringsAreDecoded == Spec => []DecodedIsMeant
<1>1. TextOK => DecodedIsMeant
  <2> DEFINE all == Decoded(3 * Len(text) + 1)
             small(cap) == Decoded(cap)
  <2> SUFFICES ASSUME TextOK, IsStringToken
               PROVE  /\ all.err = "NONE" /\ (IsAscii /\ Reference!NoSurrogate(Units) => Reference!ReadUtf8(all.text) = Units)
                      /\ \A cap \in Buffers :
                           /\ Len(all.text) < cap => small(cap) = all
                           /\ Len(all.text) >= cap =>
                                /\ small(cap).err = "INSUFFICIENT_SPACE"
                                /\ IsPrefix(small(cap).text, all.text)
                                /\ Len(small(cap).text) < cap \/ small(cap).text = << >>
    BY DEF DecodedIsMeant
  <2>1. PICK p \in 1 .. Len(text), r \in 1 .. Len(text) :
          /\ p < r /\ Whole = Token("s", p + 1, r, r + 1)
          /\ Reference!AreChars(SubSeq(text, p + 1, r - 1))
    BY StringTokenIs
  <2>2. Whole.start = p + 1 /\ Whole.end = r
    BY <2>1 DEF Token
  <2>3. /\ text \in Seq(Bytes) /\ text \in Seq(STRING) /\ Len(text) \in Nat
        /\ p \in Nat /\ p \in Nat \ {0} /\ r \in Nat /\ r <= Len(text)
        /\ p + 1 \in Nat \ {0} /\ p + 1 <= r /\ r <= Len(text) + 1
    <3>1. text \in Seq(Bytes) /\ text \in Seq(STRING) /\ Len(text) \in Nat
      BY TextIsText DEF TextOK
    <3> QED BY <2>1, <3>1
  <2> DEFINE s == SubSeq(text, p + 1, r - 1)
  <2>4. s \in Seq(STRING) /\ Len(s) = r - p - 1 /\ Inside(text, s, p, r)
    BY <2>1, <2>3, InsideIs
  <2>5. Units = Reference!Units(s)
    BY <2>2 DEF Units
  <2>6. Reference!AreChars(s)
    BY <2>1
  <2> HIDE DEF s
  <2>7. PICK f : /\ \A i \in 1 .. Len(s) + 1 : f[i] <=> CharsGoOn(s, f, i)
                 /\ Reference!AreChars(s) <=> f[1]
    BY <2>4, CharsRule
  <2> DEFINE big == 3 * Len(text) + 1
             start == p + 1
  <2>8. big \in Nat /\ 3 * Len(s) < big
    BY <2>1, <2>3, <2>4
  <2> HIDE DEF start, big
  <2>9. start \in Nat \ {0} /\ start <= r /\ start \in start .. r /\ << >> \in Seq(Bytes)
    BY <2>3 DEF start
  <2>10. PICK g : /\ Copies(text, start, r, big, g)
                  /\ DecodeCstr(text, start, r, big) = g[<<start, << >>>>]
    BY <2>3, <2>9, CopyRule
  <2>11. all = g[<<start, << >>>>]
    BY <2>2, <2>10 DEF Decoded, start, big
  <2> HIDE DEF all, small
  <2>12. all.err = "NONE"
    <3>1. g[<<p + 1, << >>>>].err = "NONE"
      BY <2>1, <2>3, <2>4, <2>6, <2>7, <2>8, <2>10, CharsAreCopied DEF start
    <3> QED BY <2>11, <3>1 DEF start
  <2>13. ASSUME IsAscii, Reference!NoSurrogate(Units) PROVE Reference!ReadUtf8(all.text) = Units
    <3>1. \A k \in p + 1 .. r - 1 : Code[text[k]] < 128
      BY <2>2, <2>13 DEF IsAscii
    <3>2. g[<<p + 1, << >>>>].err = "NONE"
      BY <2>11, <2>12 DEF start
    <3>3. f[1] /\ Copies(text, p + 1, r, big, g)
      BY <2>6, <2>7, <2>10 DEF start
    <3>4. ReadBack(g, p + 1, s)
      BY <2>1, <2>3, <2>4, <2>5, <2>7, <2>8, <2>13, <3>1, <3>2, <3>3, CharsAreRead
    <3> QED BY <2>5, <2>11, <3>4 DEF start, ReadBack
  <2>14. ASSUME NEW cap \in Buffers
         PROVE  /\ Len(all.text) < cap => small(cap) = all
                /\ Len(all.text) >= cap =>
                     /\ small(cap).err = "INSUFFICIENT_SPACE"
                     /\ IsPrefix(small(cap).text, all.text)
                     /\ Len(small(cap).text) < cap \/ small(cap).text = << >>
    <3>1. cap \in Nat
      BY AlphabetAssumption
    <3>2. PICK h : /\ Copies(text, start, r, cap, h)
                   /\ DecodeCstr(text, start, r, cap) = h[<<start, << >>>>]
      BY <2>3, <2>9, CopyRule
    <3> DEFINE v == small(cap)
    <3>3. v = h[<<start, << >>>>]
      BY <2>2, <3>2 DEF Decoded, start, small
    <3>4. Compared(g, h, cap, start, << >>)
      <4> DEFINE none == << >>
      <4>1. none \in Seq(Bytes)
        OBVIOUS
      <4> HIDE DEF none
      <4>2. Compared(g, h, cap, start, none)
        BY <2>3, <2>8, <2>9, <2>10, <3>1, <3>2, <4>1, CopiesCompared
      <4> QED BY <4>2 DEF none
    <3>5. Fits(all, v, cap, << >>)
      BY <2>11, <2>12, <3>3, <3>4 DEF Compared
    <3>6. v \in CopyResults
      <4> DEFINE none == << >>
      <4>1. none \in Seq(Bytes) /\ v = h[<<start, none>>]
        BY <3>3
      <4> HIDE DEF none, v
      <4>2. h[<<start, none>>] \in CopyResults
        BY <2>9, <3>2, <4>1 DEF Copies
      <4> QED BY <4>1, <4>2
    <3> HIDE DEF v
    <3>7. ASSUME Len(all.text) >= cap
          PROVE  /\ v.err = "INSUFFICIENT_SPACE" /\ IsPrefix(v.text, all.text)
                 /\ Len(v.text) < cap \/ v.text = << >>
      <4>1. /\ v.err = "INSUFFICIENT_SPACE" /\ \E w \in Seq(Bytes) : all.text = v.text \o w
            /\ Len(v.text) < cap \/ v.text = << >>
        BY <3>5, <3>7 DEF Fits
      <4>2. v.text \in Seq(Bytes)
        BY <3>6 DEF CopyResults
      <4>3. IsPrefix(v.text, all.text)
        BY <4>1, <4>2, BeginsWith
      <4> QED BY <4>1, <4>3
    <3> QED BY <3>5, <3>7 DEF Fits, v
  <2> QED BY <2>12, <2>13, <2>14 DEF all, small
<1> QED BY <1>1, TextIsBytes, PTL

-----------------------------------------------------------------------------
(* Texts put together.                                                     *)

\* Texts put together: how far the first i of them reach.
Gathers(S, a, f) ==
  /\ f[1] = a[1] /\ \A i \in 2 .. Len(a) : f[i] = f[i - 1] \o a[i]
  /\ \A i \in 1 .. Len(a) : f[i] \in Seq(S)

\* FlattenSeq puts texts together in this way.
LEMMA FlattenRule ==
  ASSUME NEW S, NEW a \in Seq(Seq(S)), Len(a) # 0
  PROVE  \E f : Gathers(S, a, f) /\ FlattenSeq(a) = f[Len(a)]
<1> DEFINE X == 1 .. Len(a)
           V == Seq(S)
           Rule(f, i) == IF i = 1 THEN a[i] ELSE f[i - 1] \o a[i]
           mu == [i \in X |-> i]
           R == [fi \in [X -> V] \X X |-> Rule(fi[1], fi[2])]
           Solution(f) == f = [i \in X |-> Rule(f, i)]
<1>0. /\ Len(a) \in X /\ 1 \in X /\ Len(a) \in Nat /\ \A i \in X : a[i] \in V /\ i \in Nat
      /\ \A i \in X : i # 1 => i - 1 \in X /\ i - 1 < i /\ i \in 2 .. Len(a)
      /\ \A i \in 2 .. Len(a) : i \in X /\ i # 1
  OBVIOUS
<1>1. mu \in [X -> Nat] /\ \A i \in X : mu[i] = i
  BY <1>0
<1>3. ASSUME NEW f \in [X -> V], NEW i \in X PROVE Rule(f, i) \in V
  <2>1. CASE i = 1
    BY <1>0, <2>1
  <2>2. CASE i # 1
    <3> HIDE DEF X
    <3>1. f[i - 1] \in Seq(S) /\ a[i] \in Seq(S)
      BY <1>0, <2>2
    <3>2. f[i - 1] \o a[i] \in Seq(S)
      BY <3>1
    <3> QED BY <2>2, <3>2
  <2> QED BY <2>1, <2>2
<1>4. ASSUME NEW i \in X, NEW f, NEW g, \A j \in X : mu[j] < mu[i] => f[j] = g[j]
      PROVE  Rule(f, i) = Rule(g, i)
  <2>1. CASE i = 1
    BY <2>1
  <2>2. CASE i # 1
    <3> HIDE DEF X, mu
    <3>1. i - 1 \in X /\ mu[i - 1] < mu[i]
      BY <1>0, <1>1, <2>2
    <3>2. f[i - 1] = g[i - 1]
      BY <1>4, <3>1
    <3> QED BY <2>2, <3>2
  <2> QED BY <2>1, <2>2
<1> HIDE DEF X, V, mu, Rule
<1>5. R \in [[X -> V] \X X -> V] /\ \A f \in [X -> V], i \in X : R[<<f, i>>] = Rule(f, i)
  BY <1>3
<1> HIDE DEF R
<1>6. LooksBelow(X, V, mu, R)
  <2>1. ASSUME NEW i \in X, NEW f \in [X -> V], NEW g \in [X -> V],
               \A j \in X : mu[j] < mu[i] => f[j] = g[j]
        PROVE  R[<<f, i>>] = R[<<g, i>>]
    <3>1. Rule(f, i) = Rule(g, i)
      BY <1>4, <2>1
    <3> QED BY <1>5, <3>1
  <2> QED BY <2>1, Zenon DEF LooksBelow
<1>7. V # {}
  BY <1>0
<1>8. PICK f : IsSolution(X, V, R, f)
  BY <1>1, <1>5, <1>6, <1>7, Recursion
<1>9. Solution(f) /\ f \in [X -> V]
  BY <1>5, <1>8 DEF IsSolution
<1>10. FlattenSeq(a) = (CHOOSE g : Solution(g))[Len(a)]
  BY Zenon DEF FlattenSeq, Rule, X
<1>11. Solution(CHOOSE g : Solution(g))
  BY <1>9
<1> DEFINE h == CHOOSE g : Solution(g)
<1> HIDE DEF h
<1>12. Solution(h)
  BY <1>11 DEF h
<1>13. \A i \in X : h[i] = Rule(h, i)
  BY <1>12
<1>14. h[1] = a[1] /\ \A i \in 2 .. Len(a) : h[i] = h[i - 1] \o a[i]
  BY <1>0, <1>13 DEF Rule
<1>15. \A i \in X : h[i] \in V
  <2> DEFINE T == {k \in Nat : k + 1 \in X => h[k + 1] \in V}
  <2>1. 0 \in T
    BY <1>0, <1>14
  <2>2. ASSUME NEW k \in Nat, k \in T PROVE k + 1 \in T
    <3> SUFFICES ASSUME k + 2 \in X PROVE h[k + 2] \in V
      OBVIOUS
    <3>1. k + 1 \in X /\ k + 2 \in 2 .. Len(a)
      BY <1>0 DEF X
    <3>2. h[k + 2] = h[k + 1] \o a[k + 2]
      <4>1. (k + 2) - 1 = k + 1 /\ h[k + 2] = h[(k + 2) - 1] \o a[k + 2]
        <5> DEFINE i == k + 2
        <5>1. i \in 2 .. Len(a) /\ i - 1 = k + 1
          BY <3>1
        <5> HIDE DEF i
        <5>2. h[i] = h[i - 1] \o a[i]
          BY <1>14, <5>1
        <5> QED BY <5>1, <5>2 DEF i
      <4> QED BY <4>1
    <3>3. h[k + 1] \in V /\ a[k + 2] \in V
      BY <1>0, <2>2, <3>1
    <3> QED BY <3>2, <3>3 DEF V
  <2> HIDE DEF T
  <2>3. \A k \in Nat : k \in T
    BY <2>1, <2>2, SetInduction
  <2>4. ASSUME NEW i \in X PROVE h[i] \in V
    <3>1. i - 1 \in Nat /\ (i - 1) + 1 = i
      BY <1>0 DEF X
    <3>2. i - 1 \in T
      BY <2>3, <3>1
    <3> QED BY <3>1, <3>2 DEF T
  <2> QED BY <2>4
<1>16. Gathers(S, a, h)
  BY <1>14, <1>15 DEF Gathers, X, V
<1>17. FlattenSeq(a) = h[Len(a)]
  BY <1>10 DEF h
<1> QED BY <1>16, <1>17

\* Every one of the texts stands where the ones in front of it end.
LEMMA Gathered ==
  ASSUME NEW S, NEW a \in Seq(Seq(S)), NEW f, Gathers(S, a, f)
  PROVE  /\ \A i \in 1 .. Len(a) : \A k \in i .. Len(a) : \E w \in Seq(S) : f[k] = f[i] \o w
         /\ \A i \in 2 .. Len(a) : StandsBehind(f[Len(a)], Len(f[i - 1]), a[i])
<1> DEFINE n == Len(a)
           Starts(i, k) == \E w \in Seq(S) : f[k] = f[i] \o w
<1>0. n \in Nat /\ \A i \in 1 .. n : f[i] \in Seq(S) /\ a[i] \in Seq(S)
  BY DEF Gathers
<1>1. ASSUME NEW i \in 1 .. n, NEW e \in i .. n PROVE Starts(i, e)
  <2> DEFINE T == {k \in Nat : i + k <= n => Starts(i, i + k)}
  <2>1. 0 \in T
    <3>1. i + 0 = i
      OBVIOUS
    <3>2. << >> \in Seq(S) /\ f[i] = f[i] \o << >>
      BY <1>0
    <3> QED BY <3>1, <3>2
  <2>2. ASSUME NEW k \in Nat, k \in T PROVE k + 1 \in T
    <3> HIDE DEF Starts, n
    <3> SUFFICES ASSUME i + (k + 1) <= n PROVE Starts(i, i + (k + 1))
      OBVIOUS
    <3> DEFINE j == i + k
               m == j + 1
    <3>1. j \in 1 .. n /\ m \in 2 .. n /\ m - 1 = j /\ m = i + (k + 1) /\ m \in 1 .. n
      BY <1>0
    <3>a. Starts(i, j)
      BY <1>0, <2>2, <3>1
    <3>2. PICK w \in Seq(S) : f[j] = f[i] \o w
      BY <3>a DEF Starts
    <3> HIDE DEF j, m
    <3>3. f[m] = f[j] \o a[m]
      BY <3>1 DEF Gathers, n
    <3>4. w \o a[m] \in Seq(S) /\ (f[i] \o w) \o a[m] = f[i] \o (w \o a[m])
      <4> DEFINE x == f[i]
                 y == a[m]
      <4>1. x \in Seq(S) /\ y \in Seq(S) /\ w \in Seq(S)
        BY <1>0, <3>1
      <4> HIDE DEF x, y
      <4>2. w \o y \in Seq(S) /\ (x \o w) \o y = x \o (w \o y)
        BY <4>1
      <4> QED BY <4>2 DEF x, y
    <3>5. f[m] = f[i] \o (w \o a[m])
      BY <3>2, <3>3, <3>4, Zenon
    <3>6. Starts(i, m)
      BY <3>4, <3>5 DEF Starts
    <3> QED BY <3>1, <3>6
  <2> HIDE DEF T
  <2>3. \A k \in Nat : k \in T
    BY <2>1, <2>2, SetInduction
  <2>4. e - i \in Nat /\ i + (e - i) = e /\ i + (e - i) <= n
    BY <1>0
  <2>5. e - i \in T
    BY <2>3, <2>4
  <2> HIDE DEF Starts, n
  <2>6. Starts(i, i + (e - i))
    BY <2>4, <2>5 DEF T
  <2> QED BY <2>4, <2>6
<1>2. ASSUME NEW i \in 2 .. n PROVE StandsBehind(f[n], Len(f[i - 1]), a[i])
  <2>1. i \in 1 .. n /\ i - 1 \in 1 .. n /\ n \in i .. n
    BY <1>0
  <2>2. PICK w \in Seq(S) : f[n] = f[i] \o w
    BY <1>1, <2>1
  <2> DEFINE x == f[i - 1]
             y == a[i]
  <2>3. f[i] = x \o y /\ x \in Seq(S) /\ y \in Seq(S)
    BY <1>0, <1>2, <2>1 DEF Gathers
  <2> HIDE DEF x, y, n
  <2>4. StandsBehind((x \o y) \o w, Len(x), y)
    BY <2>3, StandsBetween, Zenon
  <2>5. StandsBehind(f[n], Len(x), y)
    BY <2>2, <2>3, <2>4, Zenon
  <2> QED BY <2>5 DEF x, y
<1> QED BY <1>1, <1>2

-----------------------------------------------------------------------------
(* Where what encode_cstr writes for every byte stands.                    *)

\* What encode_cstr writes for a byte: an escape that is undone, or the byte.
LEMMA EscapedIs ==
  ASSUME NEW c \in Bytes
  PROVE  /\ Escaped(c) \in Seq(Bytes)
         /\ \/ /\ c \in DOMAIN EscapeLetter /\ Len(Escaped(c)) = 2
               /\ Escaped(c)[1] = Backslash /\ Escaped(c)[2] = EscapeLetter[c]
            \/ /\ c \notin {DoubleQuote, Backslash} /\ Len(Escaped(c)) = 1
               /\ Escaped(c)[1] = c
<1>1. DoubleQuote \in Bytes /\ Backslash \in Bytes
  BY EscapesAreAscii, LettersAre
<1>2. CASE c \in DOMAIN EscapeLetter
  <2>1. Escaped(c) = <<Backslash, EscapeLetter[c]>>
    BY <1>2, Zenon DEF Escaped, Backslash
  <2>2. EscapeLetter[c] \in Bytes
    BY <1>2, EscapeUndone, EscapesAreAscii
  <2> DEFINE e == EscapeLetter[c]
  <2> HIDE DEF e
  <2>3. <<Backslash, e>> \in Seq(Bytes) /\ Len(<<Backslash, e>>) = 2
          /\ <<Backslash, e>>[1] = Backslash /\ <<Backslash, e>>[2] = e
    BY <1>1, <2>2 DEF e
  <2> QED BY <1>2, <2>1, <2>3 DEF e
<1>3. CASE c \notin DOMAIN EscapeLetter
  <2>1. Escaped(c) = <<c>>
    BY <1>3, Zenon DEF Escaped
  <2>2. c \notin {DoubleQuote, Backslash}
    BY <1>3, EscapeWritten
  <2> QED BY <2>1, <2>2
<1> QED BY <1>2, <1>3

\* A written string: its quotes, and where what is written for every byte stands.
Laid(x, t, at) ==
  LET n == Len(t) IN
  /\ t \in Seq(Bytes) /\ n >= 2 /\ t[1] = DoubleQuote /\ t[n] = DoubleQuote
  /\ at[1] = 2 /\ at[Len(x) + 1] = n
  /\ \A k \in 1 .. Len(x) :
       /\ at[k] \in 2 .. n /\ at[k + 1] \in 2 .. n
       /\ at[k + 1] = at[k] + Len(Escaped(x[k])) /\ StandsBehind(t, at[k] - 1, Escaped(x[k]))

\* What encode_cstr writes is a string laid out like this.
LEMMA WrittenIsLaid ==
  ASSUME NEW x \in Seq(Bytes)
  PROVE  \E at : Laid(x, FlattenSeq(CstrWrites(x)), at)
<1> DEFINE a == CstrWrites(x)
           l == Len(x)
           mid == [i \in 1 .. l |-> Escaped(x[i])]
           q == <<DoubleQuote>>
<1>0. l \in Nat /\ \A k \in 1 .. l : x[k] \in Bytes
  OBVIOUS
<1>1. a = (<<q>> \o mid) \o <<q>>
  <2>1. Quote = q
    BY Zenon DEF Quote, DoubleQuote
  <2>2. DOMAIN x = 1 .. l
    OBVIOUS
  <2> HIDE DEF l
  <2> QED BY <2>1, <2>2 DEF CstrWrites
<1>2. q \in Seq(Bytes) /\ Len(q) = 1 /\ q[1] = DoubleQuote
  <2>1. DoubleQuote \in Bytes
    BY EscapesAreAscii, LettersAre
  <2> QED BY <2>1
<1>3. /\ \A k \in 1 .. l : Escaped(x[k]) \in Seq(Bytes) /\ Len(Escaped(x[k])) \in 1 .. 2
  BY <1>0, EscapedIs
<1>4. mid \in Seq(Seq(Bytes)) /\ Len(mid) = l /\ \A k \in 1 .. l : mid[k] = Escaped(x[k])
  <2> HIDE DEF l
  <2> QED BY <1>0, <1>3
<1> HIDE DEF a, l, mid, q
<1>5. /\ a \in Seq(Seq(Bytes)) /\ Len(a) = l + 2 /\ a[1] = q /\ a[l + 2] = q
      /\ \A k \in 1 .. l : a[k + 1] = Escaped(x[k])
  <2> DEFINE b == <<q>> \o mid
  <2>1. b \in Seq(Seq(Bytes)) /\ Len(b) = l + 1 /\ b[1] = q /\ \A k \in 1 .. l : b[k + 1] = mid[k]
    BY <1>0, <1>2, <1>4
  <2>2. a = b \o <<q>>
    BY <1>1
  <2> HIDE DEF b
  <2>3. /\ a \in Seq(Seq(Bytes)) /\ Len(a) = l + 2 /\ a[l + 2] = q
        /\ \A i \in 1 .. l + 1 : a[i] = b[i]
    BY <1>0, <1>2, <2>1, <2>2
  <2>4. 1 \in 1 .. l + 1 /\ \A k \in 1 .. l : k + 1 \in 1 .. l + 1
    BY <1>0
  <2> QED BY <1>4, <2>1, <2>3, <2>4
<1>6. Len(a) # 0
  BY <1>0, <1>5
<1>7. PICK f : Gathers(Bytes, a, f) /\ FlattenSeq(a) = f[Len(a)]
  BY <1>5, <1>6, FlattenRule
<1> DEFINE t == FlattenSeq(a)
           n == Len(t)
           at == [k \in 1 .. l + 1 |-> Len(f[k]) + 1]
<1>8. /\ t = f[l + 2] /\ f[1] = q /\ \A i \in 1 .. l + 2 : f[i] \in Seq(Bytes)
      /\ \A i \in 2 .. l + 2 : f[i] = f[i - 1] \o a[i]
  BY <1>5, <1>7 DEF Gathers
<1>9. /\ \A i \in 2 .. l + 2 : StandsBehind(t, Len(f[i - 1]), a[i])
      /\ \A i \in 1 .. l + 2 : \A k \in i .. l + 2 : \E w \in Seq(Bytes) : f[k] = f[i] \o w
  <2>1. /\ \A i \in 1 .. Len(a) : \A k \in i .. Len(a) : \E w \in Seq(Bytes) : f[k] = f[i] \o w
        /\ \A i \in 2 .. Len(a) : StandsBehind(f[Len(a)], Len(f[i - 1]), a[i])
    BY <1>5, <1>7, Gathered, Zenon
  <2>2. Len(a) = l + 2 /\ t = f[Len(a)]
    BY <1>5, <1>8
  <2> HIDE DEF t
  <2> QED BY <2>1, <2>2, Zenon
<1>a. ASSUME NEW k \in 1 .. l + 2 PROVE Len(f[k]) >= 1 /\ f[k][1] = DoubleQuote /\ Len(f[k]) \in Nat
  <2>1. 1 \in 1 .. l + 2 /\ k \in 1 .. l + 2
    BY <1>0
  <2>2. PICK w \in Seq(Bytes) : f[k] = q \o w
    BY <1>8, <1>9, <2>1
  <2>3. Len(q \o w) >= 1 /\ (q \o w)[1] = DoubleQuote /\ Len(q \o w) \in Nat
    <3>1. Len(q \o w) = Len(q) + Len(w) /\ \A i \in 1 .. Len(q) : (q \o w)[i] = q[i]
      BY <1>2, JoinedFacts, Zenon
    <3>2. 1 \in 1 .. Len(q) /\ Len(w) \in Nat
      BY <1>2
    <3> QED BY <1>2, <3>1, <3>2
  <2> QED BY <2>2, <2>3
<1> HIDE DEF t
<1>10. t \in Seq(Bytes) /\ n \in Nat
  BY <1>0, <1>8
<1>11. n = Len(f[l + 1]) + 1 /\ t[n] = DoubleQuote /\ Len(f[l + 1]) \in Nat
  <2>1. l + 2 \in 2 .. l + 2 /\ (l + 2) - 1 = l + 1 /\ l + 1 \in 1 .. l + 2
    BY <1>0
  <2> DEFINE z == f[l + 1]
  <2>2. t = z \o q /\ z \in Seq(Bytes)
    BY <1>5, <1>8, <2>1
  <2> HIDE DEF z
  <2>3. Len(z \o q) = Len(z) + 1 /\ (z \o q)[Len(z) + 1] = DoubleQuote /\ Len(z) \in Nat
    <3>1. DoubleQuote \in Bytes /\ z \in Seq(Bytes)
      BY <2>2, EscapesAreAscii, LettersAre
    <3> QED BY <3>1 DEF q
  <2> QED BY <1>2, <2>2, <2>3 DEF z
<1>12. ASSUME NEW k \in 1 .. l
       PROVE  /\ at[k] = Len(f[k]) + 1 /\ at[k + 1] = Len(f[k + 1]) + 1 /\ Len(f[k]) \in Nat
              /\ at[k + 1] = at[k] + Len(Escaped(x[k])) /\ StandsBehind(t, at[k] - 1, Escaped(x[k]))
  <2>1. /\ k + 1 \in 2 .. l + 2 /\ (k + 1) - 1 = k /\ k \in 1 .. l + 2 /\ k \in 1 .. l + 1
        /\ k + 1 \in 1 .. l + 1
    BY <1>0
  <2> DEFINE y == f[k]
             e == Escaped(x[k])
  <2>2. f[k + 1] = y \o e /\ y \in Seq(Bytes) /\ e \in Seq(Bytes)
    BY <1>3, <1>5, <1>8, <2>1
  <2>3. StandsBehind(t, Len(y), e)
    BY <1>5, <1>9, <2>1
  <2>4. at[k] = Len(y) + 1 /\ at[k + 1] = Len(f[k + 1]) + 1
    BY <2>1
  <2> HIDE DEF y, e, at
  <2>5. Len(f[k + 1]) = Len(y) + Len(e) /\ Len(y) \in Nat /\ Len(e) \in Nat
    BY <2>2
  <2>6. at[k + 1] = at[k] + Len(e) /\ at[k] - 1 = Len(y)
    BY <2>4, <2>5
  <2> QED BY <2>3, <2>4, <2>5, <2>6 DEF y, e
<1>13. at[1] = 2 /\ at[l + 1] = n
  <2>1. 1 \in 1 .. l + 1 /\ l + 1 \in 1 .. l + 1
    BY <1>0
  <2>2. at[1] = Len(f[1]) + 1 /\ at[l + 1] = Len(f[l + 1]) + 1
    BY <2>1
  <2> HIDE DEF at, n
  <2> QED BY <1>2, <1>8, <1>11, <2>2
<1>14. n >= 2 /\ t[1] = DoubleQuote
  <2>1. l + 1 \in 1 .. l + 2 /\ l + 2 \in 1 .. l + 2
    BY <1>0
  <2> HIDE DEF n
  <2> QED BY <1>8, <1>11, <1>a, <2>1
<1> HIDE DEF at
<1>15. ASSUME NEW k \in 1 .. l PROVE at[k] \in 2 .. n /\ at[k + 1] \in 2 .. n
  <2>1. /\ k \in 1 .. l + 2 /\ k + 1 \in 1 .. l + 2 /\ l + 2 \in k .. l + 2 /\ l + 1 \in k + 1 .. l + 2
        /\ l + 1 \in k .. l + 2 /\ k + 1 <= l + 1
    BY <1>0
  <2>2. PICK w \in Seq(Bytes) : f[l + 1] = f[k + 1] \o w
    BY <1>9, <2>1
  <2>3. f[k + 1] \in Seq(Bytes)
    BY <1>8, <2>1
  <2>4. Len(f[k + 1]) <= Len(f[l + 1])
    <3> DEFINE y == f[k + 1]
    <3> HIDE DEF y
    <3>1. y \in Seq(Bytes)
      BY <2>3 DEF y
    <3>2. Len(y) <= Len(y \o w)
      BY <3>1
    <3> QED BY <2>2, <3>2 DEF y
  <2>5. Len(Escaped(x[k])) \in 1 .. 2
    BY <1>3
  <2>6. Len(f[k]) \in Nat /\ Len(f[k]) >= 1 /\ Len(f[k + 1]) \in Nat /\ Len(f[l + 1]) \in Nat
    BY <1>11, <1>a, <2>1
  <2> HIDE DEF n
  <2>7. at[k] = Len(f[k]) + 1 /\ at[k + 1] = Len(f[k + 1]) + 1 /\ at[k + 1] = at[k] + Len(Escaped(x[k]))
    BY <1>12
  <2> DEFINE u == Len(f[k])
             v == Len(f[k + 1])
             z == Len(f[l + 1])
             d == Len(Escaped(x[k]))
  <2> HIDE DEF u, v, z, d
  <2>8. u \in Nat /\ u >= 1 /\ v \in Nat /\ z \in Nat /\ v <= z /\ d \in 1 .. 2 /\ n = z + 1
          /\ at[k] = u + 1 /\ at[k + 1] = v + 1 /\ at[k + 1] = at[k] + d
    BY <1>11, <2>4, <2>5, <2>6, <2>7 DEF u, v, z, d
  <2> QED BY <2>8
<1> HIDE DEF n
<1>16. Laid(x, t, at)
  BY <1>10, <1>11, <1>12, <1>13, <1>14, <1>15 DEF Laid, n, l
<1> QED BY <1>16 DEF t, a

-----------------------------------------------------------------------------
(* What the lexer and decode_string make of what encode_cstr wrote.        *)

\* What the lexer and decode_string do with what is written for one byte.
WrittenAt(x, t, at, k) ==
  LET n == Len(t) IN
  /\ at[k] \in 2 .. n - 1 /\ at[k + 1] \in 2 .. n
  /\ \/ PlainAt(t, at[k]) /\ at[k + 1] = at[k] + 1
     \/ ShortAt(t, at[k]) /\ at[k + 1] = at[k] + 2
  /\ NextUnit(t, at[k], n) = Unit(<<x[k]>>, at[k + 1])

\* For every byte this is what stands there.
LEMMA EscapedStands ==
  ASSUME NEW x \in Seq(Bytes), NEW t, NEW at, Laid(x, t, at), NEW k \in 1 .. Len(x)
  PROVE  WrittenAt(x, t, at, k)
<1> DEFINE n == Len(t)
           q == at[k]
           c == x[k]
           e == Escaped(c)
<1>1. /\ n \in Nat /\ q \in 2 .. n /\ at[k + 1] \in 2 .. n
      /\ at[k + 1] = q + Len(e) /\ StandsBehind(t, q - 1, e)
  BY DEF Laid
<1>2. c \in Bytes
  OBVIOUS
<1> HIDE DEF n, q, c, e
<1>3. \A j \in 1 .. Len(e) : t[q - 1 + j] = e[j]
  BY <1>1 DEF StandsBehind
<1>4. CASE c \in DOMAIN EscapeLetter /\ Len(e) = 2 /\ e[1] = Backslash /\ e[2] = EscapeLetter[c]
  <2>1. /\ 1 \in 1 .. 2 /\ 2 \in 1 .. 2 /\ q - 1 + 1 = q /\ q - 1 + 2 = q + 1
        /\ at[k + 1] = q + 2 /\ q \in 2 .. n - 1 /\ ~(q + 1 >= n)
    BY <1>1, <1>4
  <2>2. t[q] = Backslash /\ t[q + 1] = EscapeLetter[c]
    BY <1>3, <1>4, <2>1
  <2>3. t[q + 1] \in EscapeLetters /\ EscapedByte[t[q + 1]] = c /\ t[q + 1] \in DOMAIN EscapedByte
    BY <1>4, <2>2, EscapeUndone, LettersAre
  <2>4. NextUnit(t, q, n) = Unit(<<c>>, q + 2)
    BY <2>1, <2>2, <2>3, UnitCases
  <2> QED BY <1>1, <2>1, <2>2, <2>3, <2>4 DEF WrittenAt, ShortAt, n, q, c
<1>5. CASE c \notin {DoubleQuote, Backslash} /\ Len(e) = 1 /\ e[1] = c
  <2>1. 1 \in 1 .. 1 /\ q - 1 + 1 = q /\ at[k + 1] = q + 1 /\ q \in 2 .. n - 1
    BY <1>1, <1>5
  <2>2. t[q] = c
    BY <1>3, <1>5, <2>1
  <2>3. PlainAt(t, q) /\ t[q] # Backslash
    BY <1>5, <2>2 DEF PlainAt
  <2>4. NextUnit(t, q, n) = Unit(<<c>>, q + 1)
    BY <2>2, <2>3, UnitCases
  <2> QED BY <1>1, <2>1, <2>3, <2>4 DEF WrittenAt, n, q, c
<1> QED BY <1>2, <1>4, <1>5, EscapedIs DEF e

\* The lexer takes all of what is written for one string token.
LEMMA WrittenIsToken ==
  ASSUME NEW x \in Seq(Bytes), NEW t, NEW at, Laid(x, t, at)
  PROVE  LexNext(t, Len(t), 1) = Token("s", 2, Len(t), Len(t) + 1)
<1> DEFINE n == Len(t)
           l == Len(x)
<1>0. /\ l \in Nat /\ n \in Nat /\ n >= 2 /\ t[1] = DoubleQuote /\ t[n] = DoubleQuote
      /\ at[1] = 2 /\ at[l + 1] = n
  BY DEF Laid
<1>1. \A k \in 1 .. l : WrittenAt(x, t, at, k)
  BY EscapedStands
<1> HIDE DEF n, l
<1>2. PICK g : Scans(t, n, 1, g) /\ NextString(t, n, 1) = g[1 + 1]
  BY <1>0, StringRule
<1> DEFINE all == Token("s", 1 + 1, n, n + 1)
           T == {k \in Nat : \A i \in 1 .. l + 1 : i + k >= l + 1 => g[at[i]] = all}
<1>3. g[n] = all
  BY <1>0, <1>2, ScanTurn
<1> HIDE DEF all
<1>4. ASSUME NEW i \in 1 .. l PROVE g[at[i]] = g[at[i + 1]]
  <2>1. /\ at[i] \in 2 .. n - 1
        /\ \/ PlainAt(t, at[i]) /\ at[i + 1] = at[i] + 1
           \/ ShortAt(t, at[i]) /\ at[i + 1] = at[i] + 2
    BY <1>1 DEF WrittenAt, n
  <2> DEFINE q == at[i]
  <2>2. q \in Nat /\ q <= n /\ q < n
    BY <1>0, <2>1
  <2> HIDE DEF q
  <2>3. /\ PlainAt(t, q) => g[q] = g[q + 1]
        /\ ShortAt(t, q) => g[q] = g[q + 2]
    BY <1>0, <1>2, <2>2, ScanTurn
  <2> QED BY <2>1, <2>3 DEF q
<1>5. 0 \in T
  <2>1. \A i \in 1 .. l + 1 : i + 0 >= l + 1 => i = l + 1
    BY <1>0
  <2> QED BY <1>0, <1>3, <2>1
<1>6. ASSUME NEW k \in Nat, k \in T PROVE k + 1 \in T
  <2>1. ASSUME NEW i \in 1 .. l + 1, i + (k + 1) >= l + 1 PROVE g[at[i]] = all
    <3>1. CASE i = l + 1
      BY <1>0, <1>3, <3>1
    <3>2. CASE i # l + 1
      <4>1. i \in 1 .. l /\ i + 1 \in 1 .. l + 1 /\ (i + 1) + k >= l + 1
        BY <1>0, <2>1, <3>2
      <4>2. g[at[i + 1]] = all
        BY <1>6, <4>1
      <4> QED BY <1>4, <4>1, <4>2
    <3> QED BY <3>1, <3>2
  <2> QED BY <2>1
<1> HIDE DEF T
<1>7. l \in T
  BY <1>0, <1>5, <1>6, SetInduction
<1>8. g[at[1]] = all
  <2>1. 1 \in 1 .. l + 1 /\ 1 + l >= l + 1
    BY <1>0
  <2> QED BY <1>7, <2>1 DEF T
<1>9. NextString(t, n, 1) = Token("s", 2, n, n + 1)
  <2>1. 1 + 1 = 2
    OBVIOUS
  <2> QED BY <1>0, <1>2, <1>8, <2>1 DEF all
<1>10. Skip(t, n, 1, Blanks) = 1
  <2>1. t[1] \notin Blanks
    <3>1. DoubleQuote \notin Blanks
      BY Zenon DEF DoubleQuote, Blanks
    <3> QED BY <1>0, <3>1
  <2>2. 1 \in 1 .. n /\ 1 \in Nat
    BY <1>0
  <2> DEFINE s == Skip(t, n, 1, Blanks)
  <2>3. s \in Nat /\ (s = n + 1 \/ s >= 1) /\ s <= 1
    BY <1>0, <2>1, <2>2, SkipFacts
  <2> HIDE DEF s
  <2>4. s = 1
    BY <1>0, <2>3
  <2> QED BY <2>4 DEF s
<1>11. ~(1 > n)
  BY <1>0
<1>12. LexNext(t, n, 1) = TokenAt(t, n, 1)
  BY <1>10, <1>11, LexNextRule
<1>13. TokenAt(t, n, 1) = NextString(t, n, 1)
  BY <1>0, TokenAtCases
<1> QED BY <1>9, <1>12, <1>13 DEF n

\* decode_string copies it back, into a buffer of exactly its size.
LEMMA WrittenIsCopied ==
  ASSUME NEW x \in Seq(Bytes), NEW t, NEW at, Laid(x, t, at)
  PROVE  DecodeCstr(t, 2, Len(t), Len(x) + 1) = [err |-> "NONE", text |-> x]
<1> DEFINE n == Len(t)
           l == Len(x)
           cap == l + 1
           pre(k) == SubSeq(x, 1, k)
<1>0. /\ l \in Nat /\ n \in Nat /\ n >= 2 /\ t \in Seq(Bytes) /\ at[1] = 2 /\ at[l + 1] = n
      /\ cap \in Nat
  BY DEF Laid
<1>1. \A k \in 1 .. l : WrittenAt(x, t, at, k)
  BY EscapedStands
<1>2. \A k \in 0 .. l : pre(k) \in Seq(Bytes) /\ Len(pre(k)) = k /\ \A i \in 1 .. k : pre(k)[i] = x[i]
  BY <1>0
<1>3. pre(0) = << >> /\ pre(l) = x
  OBVIOUS
<1>4. ASSUME NEW k \in 1 .. l PROVE pre(k - 1) \o <<x[k]>> = pre(k)
  <2> DEFINE y == pre(k - 1)
             z == pre(k)
             c == x[k]
  <2>1. /\ y \in Seq(Bytes) /\ Len(y) = k - 1 /\ \A i \in 1 .. k - 1 : y[i] = x[i]
        /\ z \in Seq(Bytes) /\ Len(z) = k /\ \A i \in 1 .. k : z[i] = x[i]
    <3>1. k - 1 \in 0 .. l /\ k \in 0 .. l
      BY <1>0
    <3> HIDE DEF pre, l
    <3> QED BY <1>2, <3>1
  <2>2. c \in Bytes /\ z[k] = c /\ k \in Nat
    BY <2>1
  <2> HIDE DEF y, z, c
  <2>3. /\ y \o <<c>> \in Seq(Bytes) /\ Len(y \o <<c>>) = k
        /\ \A i \in 1 .. k - 1 : (y \o <<c>>)[i] = y[i]
        /\ (y \o <<c>>)[k] = c
    BY <2>1, <2>2
  <2>4. \A i \in 1 .. k : (y \o <<c>>)[i] = z[i]
    <3>1. ASSUME NEW i \in 1 .. k PROVE (y \o <<c>>)[i] = z[i]
      <4>1. i = k \/ i \in 1 .. k - 1
        BY <2>2
      <4> QED BY <2>1, <2>2, <2>3, <4>1
    <3> QED BY <3>1
  <2>5. y \o <<c>> = z
    <3> DEFINE b == y \o <<c>>
    <3>1. b \in Seq(Bytes) /\ Len(b) = Len(z) /\ \A i \in 1 .. Len(b) : b[i] = z[i]
      BY <2>1, <2>3, <2>4
    <3> HIDE DEF b
    <3>2. b = z
      BY <2>1, <3>1, SequencesAlike
    <3> QED BY <3>2 DEF b
  <2> QED BY <2>5 DEF y, z, c
<1> HIDE DEF n, l, cap, pre
<1>5. PICK h : Copies(t, 2, n, cap, h) /\ DecodeCstr(t, 2, n, cap) = h[<<2, << >>>>]
  <2>1. 2 \in Nat \ {0} /\ 2 <= n /\ n <= Len(t) + 1
    BY <1>0 DEF n
  <2> QED BY <1>0, <2>1, CopyRule
<1> DEFINE all == h[<<2, << >>>>]
<1>6. ASSUME NEW k \in 1 .. l
      PROVE  h[<<at[k], pre(k - 1)>>] = h[<<at[k + 1], pre(k)>>]
  <2> DEFINE q == at[k]
             y == pre(k - 1)
             z == pre(k)
             u == NextUnit(t, q, n)
             c == x[k]
  <2>1. q \in 2 .. n - 1 /\ u = Unit(<<c>>, at[k + 1])
    BY <1>1 DEF WrittenAt, n
  <2>2. u.err = "NONE" /\ u.bytes = <<c>> /\ u.next = at[k + 1]
    BY <2>1 DEF Unit
  <2>3. y \in Seq(Bytes) /\ Len(z) = k /\ k < cap
    <3>1. k - 1 \in 0 .. l /\ k \in 0 .. l
      BY <1>0
    <3> QED BY <1>0, <1>2, <3>1 DEF cap
  <2>4. y \o u.bytes = z
    BY <1>4, <2>2
  <2>5. Turn(t, n, cap, h, q, y)
    <3>1. 2 \in Nat \ {0} /\ 2 <= n /\ n <= Len(t) + 1 /\ q \in 2 .. n
      BY <1>0, <2>1 DEF n
    <3> HIDE DEF q, y
    <3> QED BY <1>0, <1>5, <2>3, <3>1, CopyTurns
  <2>6. q < n
    BY <1>0, <2>1
  <2>7. Len(y \o u.bytes) < cap => h[<<q, y>>] = h[<<u.next, y \o u.bytes>>]
    <3> HIDE DEF q, y, z, c
    <3> QED BY <2>2, <2>5, <2>6 DEF Turn
  <2>8. h[<<q, y>>] = h[<<at[k + 1], z>>]
    <3> HIDE DEF q, y, z, u
    <3> QED BY <2>2, <2>3, <2>4, <2>7
  <2> QED BY <2>8
<1> DEFINE T == {k \in Nat : k <= l => h[<<at[k + 1], pre(k)>>] = all}
<1>7. 0 \in T
  <2>1. 0 + 1 = 1
    OBVIOUS
  <2> QED BY <1>0, <1>3, <2>1
<1> HIDE DEF all
<1>8. ASSUME NEW k \in Nat, k \in T PROVE k + 1 \in T
  <2> SUFFICES ASSUME k + 1 <= l PROVE h[<<at[(k + 1) + 1], pre(k + 1)>>] = all
    OBVIOUS
  <2>1. k + 1 \in 1 .. l /\ (k + 1) - 1 = k /\ k <= l
    BY <1>0
  <2>2. h[<<at[k + 1], pre(k)>>] = all
    BY <1>8, <2>1
  <2> DEFINE i == k + 1
  <2>3. i \in 1 .. l /\ i - 1 = k
    BY <2>1
  <2> HIDE DEF i
  <2>4. h[<<at[i], pre(i - 1)>>] = h[<<at[i + 1], pre(i)>>]
    BY <1>6, <2>3
  <2>5. h[<<at[i], pre(i - 1)>>] = all
    BY <2>2, <2>3 DEF i
  <2>6. h[<<at[i + 1], pre(i)>>] = all
    BY <2>4, <2>5
  <2> QED BY <2>6 DEF i
<1> HIDE DEF T
<1>9. l \in T
  BY <1>0, <1>7, <1>8, SetInduction
<1>10. h[<<n, x>>] = all
  <2>1. l <= l
    BY <1>0
  <2>2. h[<<at[l + 1], pre(l)>>] = all
    BY <1>9, <2>1 DEF T
  <2> QED BY <1>0, <1>3, <2>2
<1>11. Turn(t, n, cap, h, n, x)
  <2>1. 2 \in Nat \ {0} /\ 2 <= n /\ n <= Len(t) + 1 /\ n \in 2 .. n
    BY <1>0 DEF n
  <2> QED BY <1>0, <1>5, <2>1, CopyTurns
<1>12. h[<<n, x>>] = [err |-> "NONE", text |-> x]
  <2>1. Len(x) < cap
    BY <1>0 DEF cap, l
  <2> QED BY <1>11, <2>1 DEF Turn
<1> QED BY <1>5, <1>10, <1>12 DEF all, n, cap, l

\* A C string ends in front of its first NUL: what is read of a buffer are bytes.
LEMMA ReadIsBytes ==
  ASSUME NEW b \in Seq(Bytes)
  PROVE  Read(b) \in Seq(Bytes)
<1> DEFINE N == {i \in 1 .. Len(b) : b[i] = "NUL"}
<1>1. CString(b) = IF N # {} THEN Min(N) ELSE 0
  BY DEF CString, SelectInSeq
<1>2. CASE N = {}
  BY <1>1, <1>2 DEF Read
<1>3. CASE N # {}
  <2>1. N \subseteq Nat
    OBVIOUS
  <2> HIDE DEF N
  <2>2. \E i \in N : \A j \in N : i <= j
    BY <1>3, <2>1, LeastElement
  <2>3. Min(N) \in N
    BY <2>2 DEF Min
  <2> DEFINE k == Min(N)
  <2>4. k \in 1 .. Len(b) /\ CString(b) = k
    BY <1>1, <1>3, <2>3 DEF N
  <2> HIDE DEF k
  <2>5. Read(b) = SubSeq(b, 1, k - 1)
    BY <2>4 DEF Read
  <2>6. SubSeq(b, 1, k - 1) \in Seq(Bytes)
    BY <2>4
  <2> QED BY <2>5, <2>6
<1> QED BY <1>2, <1>3

\* What encode_cstr writes for a string is one token, which decodes to the string.
LEMMA WrittenIsRead ==
  ASSUME NEW x \in Seq(Bytes), NEW t, t = FlattenSeq(CstrWrites(x)), NEW n, n = Len(t)
  PROVE  /\ LexNext(t, n, 1) = Token("s", 2, n, n + 1)
         /\ DecodeCstr(t, 2, n, Len(x) + 1) = [err |-> "NONE", text |-> x]
<1>1. PICK at : Laid(x, t, at)
  BY WrittenIsLaid
<1> QED BY <1>1, WrittenIsToken, WrittenIsCopied

\* A string of a text survives the way back: encode_cstr writes one string token
\* for it, and decode_string reads the same bytes from that.
THEOREM StringsAreKept == Spec => []StringsSurvive
<1>1. TextOK => StringsSurvive
  <2> SUFFICES ASSUME TextOK, IsStringToken
               PROVE  LET string == Read(Decoded(3 * Len(text) + 1).text)
                          written == FlattenSeq(CstrWrites(string))
                          n == Len(written)
                      IN /\ LexNext(written, n, 1) = Token("s", 2, n, n + 1)
                         /\ DecodeCstr(written, 2, n, Len(string) + 1)
                              = [err |-> "NONE", text |-> string]
    BY DEF StringsSurvive
  <2>1. PICK p \in 1 .. Len(text), r \in 1 .. Len(text) :
          p < r /\ Whole = Token("s", p + 1, r, r + 1)
    BY StringTokenIs
  <2> DEFINE big == 3 * Len(text) + 1
             start == p + 1
             b == Decoded(big).text
             string == Read(b)
  <2>2. /\ Whole.start = start /\ Whole.end = r /\ text \in Seq(Bytes) /\ Len(text) \in Nat
        /\ big \in Nat /\ start \in Nat \ {0} /\ r \in Nat /\ start <= r /\ r <= Len(text) + 1
        /\ start \in start .. r /\ << >> \in Seq(Bytes)
    <3>1. text \in Seq(Bytes) /\ Len(text) \in Nat
      BY TextIsText DEF TextOK
    <3> QED BY <2>1, <3>1 DEF Token
  <2> HIDE DEF big, start
  <2>3. PICK g : /\ Copies(text, start, r, big, g)
                 /\ DecodeCstr(text, start, r, big) = g[<<start, << >>>>]
    BY <2>2, CopyRule
  <2>4. b \in Seq(Bytes)
    <3> DEFINE none == << >>
               v == g[<<start, none>>]
    <3>1. none \in Seq(Bytes) /\ Decoded(big) = v
      BY <2>2, <2>3 DEF Decoded
    <3> HIDE DEF none
    <3>2. v \in CopyResults
      BY <2>2, <2>3, <3>1 DEF Copies
    <3> HIDE DEF v
    <3> QED BY <3>1, <3>2 DEF CopyResults
  <2> HIDE DEF b
  <2>5. string \in Seq(Bytes)
    BY <2>4, ReadIsBytes
  <2> HIDE DEF string
  <2>6. LET written == FlattenSeq(CstrWrites(string))
            n == Len(written)
        IN /\ LexNext(written, n, 1) = Token("s", 2, n, n + 1)
           /\ DecodeCstr(written, 2, n, Len(string) + 1) = [err |-> "NONE", text |-> string]
    BY <2>5, WrittenIsRead
  <2> QED BY <2>6 DEF string, b, big
<1> QED BY <1>1, TextIsBytes, PTL
=============================================================================
