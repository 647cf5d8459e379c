----------------------------- MODULE JsonTokens -----------------------------
(***************************************************************************)
(* The tokens of RFC 8259 as sets of byte sequences, and what strings      *)
(* stand for, written down independently of the lexer and of the copy      *)
(* loops: the reference both are compared with.  One licence is taken: a   *)
(* control character inside a string is let pass, as the lexer does.       *)
(***************************************************************************)
EXTENDS Characters, SequencesExt

Concat(s, t, u, v) == s \o t \o u \o v

AreDigits(s) == s # << >> /\ \A i \in DOMAIN s : s[i] \in Digit

\* number = [ minus ] int [ frac ] [ exp ], cut in every possible way.
IsInt(s) == AreDigits(s) /\ (Len(s) > 1 => s[1] # "0")
IsFrac(s) == s = << >> \/ (s[1] = "." /\ AreDigits(Tail(s)))
IsExp(s) ==
  \/ s = << >>
  \/ /\ s[1] \in {"e", "E"} /\ Len(s) > 1
     /\ AreDigits(Tail(s)) \/ (s[2] \in {"+", "-"} /\ AreDigits(Tail(Tail(s))))

IsNumber(s) ==
  \E i \in 0 .. 1, j, k \in 1 .. Len(s) :
    /\ i < j /\ j <= k
    /\ SubSeq(s, 1, i) \in {<< >>, <<"-">>}
    /\ IsInt(SubSeq(s, i + 1, j)) /\ IsFrac(SubSeq(s, j + 1, k))
    /\ IsExp(SubSeq(s, k + 1, Len(s)))

\* char = unescaped / escape letter / %x75 4HEXDIG
IsPlain(s) == Len(s) = 1 /\ s[1] \notin {"\"", "\\"}
IsShort(s) ==
  Len(s) = 2 /\ s[1] = "\\" /\ s[2] \in {"\"", "\\", "/", "b", "f", "n", "r", "t"}
IsUnicode(s) ==
  /\ Len(s) = 6 /\ SubSeq(s, 1, 2) = <<"\\", "u">>
  /\ \A i \in 3 .. 6 : s[i] \in DOMAIN HexValue
IsChar(s) == IsPlain(s) \/ IsShort(s) \/ IsUnicode(s)

\* The chars that begin at i: at most one.
CharsAt(s, i) == {j \in {i, i + 1, i + 5} : j <= Len(s) /\ IsChar(SubSeq(s, i, j))}

AreChars(s) ==
  LET from[i \in 1 .. Len(s) + 1] ==
        i = Len(s) + 1 \/ \E j \in CharsAt(s, i) : from[j + 1]
  IN from[1]

IsString(s) ==
  /\ Len(s) >= 2 /\ s[1] = "\"" /\ s[Len(s)] = "\""
  /\ AreChars(SubSeq(s, 2, Len(s) - 1))

Keywords ==
  {<<"t", "r", "u", "e">>, <<"f", "a", "l", "s", "e">>, <<"n", "u", "l", "l">>}

IsToken(s) ==
  IF s = << >> THEN FALSE
  ELSE CASE s[1] = "\"" -> IsString(s)
         [] s[1] \in Digit \cup {"-"} -> IsNumber(s)
         [] OTHER -> s \in Keywords \cup {<<c>> : c \in {"{", "}", "[", "]", ":", ","}}

\* What can complete a token that is cut: the rest of a keyword; a quote, behind
\* the rest of an escape; a digit.
KeywordEnds == UNION {{SubSeq(k, i, Len(k)) : i \in 2 .. Len(k)} : k \in Keywords}
StringEnds ==
  {<<"\"">>, <<"n", "\"">>, <<"0", "\"">>, <<"0", "0", "\"">>,
   <<"0", "0", "0", "\"">>, <<"0", "0", "0", "0", "\"">>}
Completions == {<< >>, <<"0">>} \cup KeywordEnds \cup StringEnds

\* Whether a token can begin with s.
CanBegin(s) == \E c \in Completions : IsToken(s \o c)

\* Whether s begins with a token that a JSON text can go on behind: a blank or
\* a structural character follows, or nothing.
BeginsWithToken(s) ==
  \E i \in 1 .. Len(s) :
    /\ IsToken(SubSeq(s, 1, i))
    /\ i = Len(s) \/ s[i + 1] \in {" ", "TAB", "CR", "LF", "{", "}", "[", "]", ":", ","}

-----------------------------------------------------------------------------
(* What a string stands for, in two steps.  A char is a UTF-16 code unit,  *)
(* \uXXXX any of them; RFC 8259 section 7 writes a code point beyond U+FFFF *)
(* as two escapes, a high surrogate and a low one.                         *)

Letter == [b |-> 8, t |-> 9, n |-> 10, f |-> 12, r |-> 13]

Unit(s) ==
  CASE IsPlain(s) -> Code[s[1]]
    [] IsShort(s) ->
         IF s[2] \in DOMAIN Letter THEN Letter[s[2]] ELSE Code[s[2]]
    [] IsUnicode(s) -> HexValue[s[3]] * 4096 + HexValue[s[4]] * 256
                         + HexValue[s[5]] * 16 + HexValue[s[6]]

\* Up to where the chars end.
Units(s) ==
  LET from[i \in 1 .. Len(s) + 1] ==
        IF i = Len(s) + 1 \/ CharsAt(s, i) = {} THEN << >>
        ELSE LET j == CHOOSE j \in CharsAt(s, i) : TRUE IN
             <<Unit(SubSeq(s, i, j))>> \o from[j + 1]
  IN from[1]

High == 55296 .. 56319
Low == 56320 .. 57343
Surrogate == High \cup Low

NoSurrogate(units) == \A i \in DOMAIN units : units[i] \notin Surrogate

\* The code points: a high and a low surrogate together are one; one that
\* stands alone is none, and left as it is.
Points(units) ==
  LET n == Len(units)
      pair(i) == i < n /\ units[i] \in High /\ units[i + 1] \in Low
      from[i \in 1 .. n + 1] ==
        IF i = n + 1 THEN << >>
        ELSE IF pair(i)
             THEN <<65536 + (units[i] - 55296) * 1024 + units[i + 1] - 56320>> \o from[i + 2]
             ELSE <<units[i]>> \o from[i + 1]
  IN from[1]

\* The code point whose UTF-8 form (RFC 3629) begins at i, and where the next
\* one begins; -1 for a byte that has no place where it stands.  No surrogate
\* has such a form.
CodeAt(s, i) == IF i <= Len(s) THEN Code[s[i]] ELSE 0

Utf8At(s, i) ==
  LET a == CodeAt(s, i)
      b == CodeAt(s, i + 1)
      c == CodeAt(s, i + 2)
      d == CodeAt(s, i + 3)
      more == 128 .. 191
  IN CASE a < 128 -> [point |-> a, next |-> i + 1]
       [] a \in 194 .. 223 /\ b \in more ->
            [point |-> (a - 192) * 64 + b - 128, next |-> i + 2]
       [] /\ a \in 224 .. 239 /\ b \in more /\ c \in more
          /\ (a = 224 => b >= 160) /\ (a = 237 => b <= 159) ->
            [point |-> (a - 224) * 4096 + (b - 128) * 64 + c - 128, next |-> i + 3]
       [] /\ a \in 240 .. 244 /\ b \in more /\ c \in more /\ d \in more
          /\ (a = 240 => b >= 144) /\ (a = 244 => b <= 143) ->
            [point |-> (a - 240) * 262144 + (b - 128) * 4096 + (c - 128) * 64 + d - 128,
             next |-> i + 4]
       [] OTHER -> [point |-> -1, next |-> i + 1]

\* The code points that a sequence of bytes is the UTF-8 form of.
ReadUtf8(s) ==
  LET from[i \in 1 .. Len(s) + 4] ==
        IF i > Len(s) THEN << >>
        ELSE <<Utf8At(s, i).point>> \o from[Utf8At(s, i).next]
  IN from[1]
=============================================================================
