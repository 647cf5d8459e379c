----------------------------- MODULE Characters -----------------------------
(***************************************************************************)
(* The bytes of a text.  A byte that is a printable ASCII character is     *)
(* that character, a string of length one; the others go by a name: the    *)
(* usual one for the control characters that JSON escapes, and x and two   *)
(* hexadecimal digits for the rest.                                        *)
(***************************************************************************)
EXTENDS Integers, Sequences

Chars(string) == [i \in 1 .. Len(string) |-> SubSeq(string, i, i)]

\* The printable characters from 0x20 on; the grave accent goes by its number.
Printable ==
  LET low  == Chars(" !\"#$%&'()*+,-./0123456789:;<=>?@ABCDEFGHIJKLMNOPQRSTUVWXYZ[\\]^_")
      high == Chars("abcdefghijklmnopqrstuvwxyz{|}~")
  IN [n \in 32 .. 126 \ {96} |-> IF n < 96 THEN low[n - 31] ELSE high[n - 96]]

Control ==
  LET names == {<<0, "NUL">>, <<8, "BS">>, <<9, "TAB">>, <<10, "LF">>,
                <<12, "FF">>, <<13, "CR">>}
  IN [n \in {e[1] : e \in names} |-> (CHOOSE e \in names : e[1] = n)[2]]

HexDigits ==
  <<"0", "1", "2", "3", "4", "5", "6", "7", "8", "9", "A", "B", "C", "D", "E", "F">>

\* The byte n, 0 to 255.
Char ==
  [n \in 0 .. 255 |->
     IF n \in DOMAIN Printable THEN Printable[n]
     ELSE IF n \in DOMAIN Control THEN Control[n]
     ELSE "x" \o HexDigits[(n \div 16) + 1] \o HexDigits[(n % 16) + 1]]

Bytes == {Char[n] : n \in 0 .. 255}

\* Every byte has a name (Chars takes strings apart, which TLC can evaluate).
ASSUME BytesAreStrings == Bytes \subseteq STRING

Code == [c \in Bytes |-> CHOOSE n \in 0 .. 255 : Char[n] = c]

\* And no two bytes share one.
ASSUME NamesDiffer == \A n \in 0 .. 255 : Code[Char[n]] = n

Digit == {"0", "1", "2", "3", "4", "5", "6", "7", "8", "9"}

\* The value of a hexadecimal digit, in either case.
HexValue ==
  LET upper == HexDigits
      lower == Chars("0123456789abcdef")
  IN [c \in {upper[i] : i \in 1 .. 16} \cup {lower[i] : i \in 1 .. 16} |->
        (CHOOSE i \in 1 .. 16 : c \in {upper[i], lower[i]}) - 1]
=============================================================================
