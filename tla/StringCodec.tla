---------------------------- MODULE StringCodec ----------------------------
(***************************************************************************)
(* JSON strings and the C strings they stand for: the copy loop of         *)
(* decode_string, which undoes escapes and checks the capacity byte by     *)
(* byte, and what encode_cstr writes.                                      *)
(***************************************************************************)
EXTENDS Characters, SequencesExt

\* The control characters among the escapes: letter and byte.
ControlLetters ==
  {<<"b", "BS">>, <<"f", "FF">>, <<"n", "LF">>, <<"r", "CR">>, <<"t", "TAB">>}

-----------------------------------------------------------------------------
(* Decoding.                                                               *)

\* The byte a backslash and the letter stand for.
EscapedByte ==
  LET table == ControlLetters \cup {<<c, c>> : c \in {"\"", "\\", "/"}}
  IN [letter \in {e[1] : e \in table} |-> (CHOOSE e \in table : e[1] = letter)[2]]

\* Mutant: the last code point of two bytes is given three.
Utf8Long(codepoint) ==
  CASE codepoint < 128 -> <<Char[codepoint]>>
    [] codepoint \in 128 .. 2046 ->
         <<Char[192 + (codepoint \div 64)], Char[128 + (codepoint % 64)]>>
    [] codepoint >= 2047 ->
         <<Char[224 + (codepoint \div 4096)],
           Char[128 + ((codepoint \div 64) % 64)], Char[128 + (codepoint % 64)]>>

\* The bytes of a code point up to 0xFFFF, surrogates like any other.
Utf8(codepoint) ==
  CASE codepoint < 128 -> <<Char[codepoint]>>
    [] codepoint \in 128 .. 2047 ->
         <<Char[192 + (codepoint \div 64)], Char[128 + (codepoint % 64)]>>
    [] codepoint >= 2048 ->
         <<Char[224 + (codepoint \div 4096)],
           Char[128 + ((codepoint \div 64) % 64)], Char[128 + (codepoint % 64)]>>

\* What the bytes at src stand for and where the next ones are, end being the
\* position behind the last.
Unit(bytes, next) == [err |-> "NONE", bytes |-> bytes, next |-> next]
NoUnit(err) == [err |-> err, bytes |-> << >>, next |-> 0]

NextUnit(m, src, end) ==
  LET h(i) == HexValue[m[src + 1 + i]]
      bad == {i \in 1 .. 4 : src + 1 + i >= end \/ m[src + 1 + i] \notin DOMAIN HexValue}
  IN IF m[src] # "\\" THEN Unit(<<m[src]>>, src + 1)
     ELSE IF src + 1 >= end THEN NoUnit("PARTIAL")
     ELSE IF m[src + 1] \in DOMAIN EscapedByte
            THEN Unit(<<EscapedByte[m[src + 1]]>>, src + 2)
     ELSE IF m[src + 1] # "u" THEN NoUnit("INVALID_JSON")
     ELSE IF bad = {}
            THEN Unit(Utf8(((h(1) * 16 + h(2)) * 16 + h(3)) * 16 + h(4)), src + 6)
     ELSE IF \E i \in bad : src + 1 + i < end /\ \A j \in bad : i <= j
            THEN NoUnit("INVALID_JSON")
     ELSE NoUnit("PARTIAL")

\* The room that len bytes and the terminating NUL do not have.
NoRoom(len, cap) == len >= cap

\* The token from start to end copied to a buffer of cap bytes: the error and
\* the bytes that are in the buffer, followed by NUL when there is no error.
DecodeCstr(m, start, end, cap) ==
  LET copy[at \in (start .. end) \X Seq(Bytes)] ==
        LET src == at[1]
            dest == at[2]
            unit == NextUnit(m, src, end)
        IN IF src >= end
             THEN [err |-> IF NoRoom(Len(dest), cap) THEN "INSUFFICIENT_SPACE" ELSE "NONE",
                   text |-> dest]
           ELSE IF unit.err # "NONE" THEN [err |-> unit.err, text |-> dest]
           ELSE IF NoRoom(Len(dest) + Len(unit.bytes), cap)
             THEN [err |-> "INSUFFICIENT_SPACE", text |-> dest]
           ELSE copy[<<unit.next, dest \o unit.bytes>>]
  IN copy[<<start, << >>>>]

-----------------------------------------------------------------------------
(* Encoding.                                                               *)

\* Mutant: the backslash is not escaped.
EscapeLetterNoBackslash ==
  LET table == {<<e[2], e[1]>> : e \in ControlLetters} \cup {<<"\"", "\"">>}
  IN [c \in {e[1] : e \in table} |-> (CHOOSE e \in table : e[1] = c)[2]]

\* The bytes encode_cstr escapes, each by a backslash and a letter.
EscapeLetter ==
  LET table == {<<e[2], e[1]>> : e \in ControlLetters} \cup {<<c, c>> : c \in {"\"", "\\"}}
  IN [c \in {e[1] : e \in table} |-> (CHOOSE e \in table : e[1] = c)[2]]

Escaped(c) == IF c \in DOMAIN EscapeLetter THEN <<"\\", EscapeLetter[c]>> ELSE <<c>>

Quote == <<"\"">>

\* The writes of encode_cstr: the quotes, and one write for every byte.
CstrWrites(string) == <<Quote>> \o [i \in DOMAIN string |-> Escaped(string[i])] \o <<Quote>>
=============================================================================
