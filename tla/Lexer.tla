------------------------------- MODULE Lexer -------------------------------
(***************************************************************************)
(* The lexer: lexer_next and the functions it calls.  It has no state but  *)
(* a position, so it is written as operators on                            *)
(*   m   the memory from the start of the input on, a sequence of bytes;   *)
(*   n   the length of the input: m[1..n] is the input, and what lies      *)
(*       behind it is none of the lexer's business;                        *)
(*   p   the position of the next byte, n + 1 at the end.                  *)
(* The result is a token, with start and end as the C code sets them (end  *)
(* is the position behind the token, without the quotes of a string) and   *)
(* pos where the lexer goes on; or a fault, with the error code and the    *)
(* position that are reported.                                             *)
(***************************************************************************)
EXTENDS Characters, FiniteSetsExt

Token(type, start, end, pos) ==
  [err |-> "NONE", type |-> type, start |-> start, end |-> end, pos |-> pos]

\* The type of a fault says what is wrong; "end" is also an end inside a token.
Fault(type, err, pos) ==
  [err |-> err, type |-> type, start |-> pos, end |-> pos, pos |-> pos]

Blanks == {" ", "TAB", "CR", "LF"}
Symbols == {"{", "}", "[", "]", ":", ","}

\* Whether the input has a byte of the set at p.
Has(m, n, p, set) == p <= n /\ m[p] \in set

\* The first position from p on that has no byte of the set.
Skip(m, n, p, set) == Min({q \in p .. n : m[q] \notin set} \cup {n + 1})

NextSymbol(m, p) == Token(m[p], p, p + 1, p + 1)

-----------------------------------------------------------------------------
(* Strings.                                                                *)

\* What may follow a backslash, beside u and four hexadecimal digits.
EscapeLetters == {"\"", "\\", "/", "b", "f", "n", "r", "t"}

\* The four digits behind \u at q: those in the input that are none.
NoHexDigit(m, n, q) == {i \in q + 2 .. q + 5 : i <= n /\ m[i] \notin DOMAIN HexValue}

\* Mutant: a string whose last escape is cut is taken for a bad one.
NextStringCut(m, n, p) ==
  LET cut == Fault("end", "PARTIAL", p + 1)
      bad == Fault("escape", "TYPE_NOT_MATCH", p + 1)
      scan[q \in Nat] ==
        IF q > n THEN cut
        ELSE IF m[q] = "\"" THEN Token("s", p + 1, q, q + 1)
        ELSE IF m[q] # "\\" THEN scan[q + 1]
        ELSE IF q + 1 > n THEN cut
        ELSE IF m[q + 1] \in EscapeLetters THEN scan[q + 2]
        ELSE IF m[q + 1] # "u" \/ NoHexDigit(m, n, q) # {} \/ q + 5 > n
               THEN bad
        ELSE scan[q + 6]
  IN scan[p + 1]

\* Mutant: the four hexadecimal digits of an escape are not looked at.
NextStringAnyDigits(m, n, p) ==
  LET cut == Fault("end", "PARTIAL", p + 1)
      bad == Fault("escape", "TYPE_NOT_MATCH", p + 1)
      scan[q \in Nat] ==
        IF q > n THEN cut
        ELSE IF m[q] = "\"" THEN Token("s", p + 1, q, q + 1)
        ELSE IF m[q] # "\\" THEN scan[q + 1]
        ELSE IF q + 1 > n THEN cut
        ELSE IF m[q + 1] \in EscapeLetters \cup {"u"} THEN scan[q + 2]
        ELSE bad
  IN scan[p + 1]

NextString(m, n, p) ==
  LET cut == Fault("end", "PARTIAL", p + 1)
      bad == Fault("escape", "TYPE_NOT_MATCH", p + 1)
      scan[q \in Nat] ==
        IF q > n THEN cut
        ELSE IF m[q] = "\"" THEN Token("s", p + 1, q, q + 1)
        ELSE IF m[q] # "\\" THEN scan[q + 1]
        ELSE IF q + 1 > n THEN cut
        ELSE IF m[q + 1] \in EscapeLetters THEN scan[q + 2]
        ELSE IF m[q + 1] # "u" \/ NoHexDigit(m, n, q) # {} THEN bad
        ELSE IF q + 5 > n THEN cut
        ELSE scan[q + 6]
  IN scan[p + 1]

-----------------------------------------------------------------------------
(* Keywords.                                                               *)

\* Mutant: a keyword that the end of the input cuts is taken for a wrong one.
NextKeywordCut(m, n, p, rest) ==
  LET bad == {i \in 1 .. Len(rest) : ~Has(m, n, p + i, {rest[i]})}
  IN IF bad = {} THEN Token(m[p], p, p + 1 + Len(rest), p + 1 + Len(rest))
     ELSE Fault("spelling", "INVALID_JSON", p + Min(bad))

\* The keyword that begins at p, whose other characters are rest.
NextKeyword(m, n, p, rest) ==
  LET bad == {i \in 1 .. Len(rest) : ~Has(m, n, p + i, {rest[i]})}
      q == p + Min(bad)
  IN IF bad = {} THEN Token(m[p], p, p + 1 + Len(rest), p + 1 + Len(rest))
     ELSE IF q > n THEN Fault("end", "PARTIAL", q)
     ELSE Fault("spelling", "INVALID_JSON", q)

-----------------------------------------------------------------------------
(* Numbers.  Every part of a number ends at a position or with a fault.    *)

Reached(p) == Token("0", p, p, p)

\* One digit or more.
NeedDigits(m, n, p) ==
  IF p > n THEN Fault("end", "PARTIAL", p)
  ELSE IF m[p] \notin Digit THEN Fault("spelling", "INVALID_JSON", p)
  ELSE Reached(Skip(m, n, p, Digit))

\* Mutant: a digit behind the zero is looked for behind the end of the input.
IntegerPartOverread(m, n, p) ==
  LET q == IF Has(m, n, p, {"-"}) THEN p + 1 ELSE p IN
  IF ~Has(m, n, q, {"0"}) THEN NeedDigits(m, n, q)
  ELSE IF Has(m, Len(m), q + 1, Digit) THEN Fault("spelling", "INVALID_JSON", q + 1)
  ELSE Reached(q + 1)

\* An optional minus; a zero that no digit follows, or digits.
IntegerPart(m, n, p) ==
  LET q == IF Has(m, n, p, {"-"}) THEN p + 1 ELSE p IN
  IF ~Has(m, n, q, {"0"}) THEN NeedDigits(m, n, q)
  ELSE IF Has(m, n, q + 1, Digit) THEN Fault("spelling", "INVALID_JSON", q + 1)
  ELSE Reached(q + 1)

FractionPart(m, n, p) ==
  IF Has(m, n, p, {"."}) THEN NeedDigits(m, n, p + 1) ELSE Reached(p)

\* Mutant: an exponent cannot have a sign.
ExponentPartUnsigned(m, n, p) ==
  IF Has(m, n, p, {"e", "E"}) THEN NeedDigits(m, n, p + 1) ELSE Reached(p)

ExponentPart(m, n, p) ==
  IF ~Has(m, n, p, {"e", "E"}) THEN Reached(p)
  ELSE NeedDigits(m, n, IF Has(m, n, p + 1, {"+", "-"}) THEN p + 2 ELSE p + 1)

NextNumber(m, n, p) ==
  LET integer  == IntegerPart(m, n, p)
      fraction == IF integer.err # "NONE" THEN integer
                  ELSE FractionPart(m, n, integer.pos)
      exponent == IF fraction.err # "NONE" THEN fraction
                  ELSE ExponentPart(m, n, fraction.pos)
  IN IF exponent.err # "NONE" THEN exponent
     ELSE Token("0", p, exponent.pos, exponent.pos)

-----------------------------------------------------------------------------
\* lexer_next, from p on.
LexNext(m, n, p) ==
  LET q == Skip(m, n, p, Blanks) IN
  IF q > n THEN Fault("end", "PARTIAL", q)
  ELSE CASE m[q] \in Symbols        -> NextSymbol(m, q)
         [] m[q] = "\""             -> NextString(m, n, q)
         [] m[q] = "t"              -> NextKeyword(m, n, q, <<"r", "u", "e">>)
         [] m[q] = "f"              -> NextKeyword(m, n, q, <<"a", "l", "s", "e">>)
         [] m[q] = "n"              -> NextKeyword(m, n, q, <<"u", "l", "l">>)
         [] m[q] \in Digit \cup {"-"} -> NextNumber(m, n, q)
         [] OTHER                   -> Fault("character", "PARTIAL", q)
=============================================================================
