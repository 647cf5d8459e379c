-------------------------- MODULE IncrementalLexer --------------------------
(***************************************************************************)
(* The lexer and the string codec at work on a text that arrives piece by  *)
(* piece.  After every piece the first token is looked for in what is      *)
(* there; as long as the answer may change, the caller reads on.  What is  *)
(* said here of every text that can arrive is also said of that text cut   *)
(* anywhere, not only between pieces.                                      *)
(***************************************************************************)
EXTENDS Lexer, StringCodec

CONSTANTS
  Alphabets,    \* bound: the texts, sets of [pieces, most] -- of at most so
                \* many of these pieces
  Buffers       \* the sizes of the buffers strings are decoded to

Reference == INSTANCE JsonTokens

ASSUME AlphabetAssumption ==
  /\ \A a \in Alphabets : a.most \in Nat /\ a.pieces \subseteq Seq(Bytes) \ {<< >>}
  /\ Buffers \subseteq Nat

\* What completes a token is a text, and the letters of escapes are ASCII: facts
\* of TLA+ which the provers, who know no characters, do not have.
ASSUME CompletionsAreTexts == Reference!Completions \subseteq Seq(STRING)
ASSUME EscapesAreAscii == \A c \in EscapeLetters : c \in Bytes /\ Code[c] < 128

VARIABLES
  alphabet,     \* the kind of text
  text,         \* the bytes that have arrived
  received      \* the number of pieces they came in

vars == <<alphabet, text, received>>

\* What the lexer says of the first k bytes.
Verdict(k) == LexNext(text, k, 1)

Whole == Verdict(Len(text))

\* More bytes may change the answer: the input ended in front of a token or
\* inside one, or with a number.
Open ==
  \/ Whole.type = "end"
  \/ Whole.err = "NONE" /\ Whole.type = "0" /\ Whole.pos > Len(text)

Init == alphabet \in Alphabets /\ text = << >> /\ received = 0

Receive ==
  /\ Open /\ received < alphabet.most
  /\ \E piece \in alphabet.pieces : text' = text \o piece
  /\ received' = received + 1
  /\ UNCHANGED alphabet

Settled == (~Open \/ received = alphabet.most) /\ UNCHANGED vars

Next == Receive \/ Settled

Spec == Init /\ [][Next]_vars

-----------------------------------------------------------------------------
(* The lexer, against the tokens of RFC 8259.                              *)

\* Where the token of a verdict begins, with its quote.
From(verdict) == IF verdict.type = "s" THEN verdict.start - 1 ELSE verdict.start

Lexeme(verdict) == SubSeq(text, From(verdict), verdict.pos - 1)

FirstByte == Skip(text, Len(text), 1, Blanks)

Rest == SubSeq(text, FirstByte, Len(text))

TypeOfToken(s) ==
  CASE s[1] = "\"" -> "s" [] s[1] \in Digit \cup {"-"} -> "0" [] OTHER -> s[1]

\* What lexer_next returns is a token of JSON and all of it: only blanks come
\* before, it has its type, and no longer token begins there.  This is what the
\* hand-written loops over strings, numbers and keywords have to get right.
TokenIsRight ==
  Whole.err = "NONE" =>
    /\ From(Whole) = FirstByte
    /\ Reference!IsToken(Lexeme(Whole))
    /\ Whole.type = TypeOfToken(Lexeme(Whole))
    /\ \A e \in Whole.pos .. Len(text) :
         ~Reference!IsToken(SubSeq(text, From(Whole), e))

\* A fault is reported only for a reason.  PARTIAL: what is there is the
\* beginning of a token, or a byte that can begin none (for which the code has
\* no other error).  Any other error: no token begins there that a JSON text
\* could go on behind, and none can be made of it by reading on.
FaultIsRight ==
  /\ Whole.err = "PARTIAL" =>
       \/ Rest = << >>
       \/ Whole.type = "end" /\ Reference!CanBegin(Rest) /\ ~Reference!IsToken(Rest)
       \/ Whole.type = "character" /\ ~Reference!CanBegin(<<Rest[1]>>)
  /\ Whole.err \notin {"NONE", "PARTIAL"} =>
       ~Reference!BeginsWithToken(Rest) /\ ~Reference!CanBegin(Rest)

\* The bytes behind the input do not matter: the loops compare with lexer->end
\* before every read, also in the middle of an escape or a number.
InputOnly ==
  \A k \in 0 .. Len(text) - 1 : Verdict(k) = LexNext(SubSeq(text, 1, k), k, 1)

\* A token or a fault found in the first k bytes is what is found when more of
\* them are there, except that a number up to the end may go on: the only case
\* in which a caller that decodes what has arrived is given a value that
\* another cut would have changed.  And PARTIAL for a byte that can begin no
\* token stays PARTIAL for ever.
CutIsNoticed ==
  \A k \in 0 .. Len(text) - 1 :
    Verdict(k).type # "end" =>
      \/ Verdict(k) = Whole
      \/ Verdict(k).type = "0" /\ Verdict(k).pos = k + 1

-----------------------------------------------------------------------------
(* The string codec behind the lexer.                                      *)

IsStringToken == Whole.err = "NONE" /\ Whole.type = "s"

Decoded(cap) == DecodeCstr(text, Whole.start, Whole.end, cap)

\* What the string stands for: its chars as code units, and its code points.
Units == Reference!Units(SubSeq(text, Whole.start, Whole.end - 1))
Meant == Reference!Points(Units)

\* The string is written in ASCII.  Other bytes are copied as they are; what
\* they stand for is not looked at.
IsAscii == \A i \in Whole.start .. Whole.end - 1 : Code[text[i]] < 128

\* decode_string and the lexer agree on what an escape is: after the lexer
\* there is no error but a lack of space.  What is stored is the UTF-8 form of
\* the string, \uXXXX at every boundary included -- of a string without
\* surrogates, whose code units are its code points; for the others see
\* PairsAreDecoded.  A string that does not fit with its NUL is refused, and
\* then what was copied is how it begins and leaves the last byte of the buffer
\* alone.
DecodedIsMeant ==
  IsStringToken =>
    LET all == Decoded(3 * Len(text) + 1) IN
    /\ all.err = "NONE"
    /\ IsAscii /\ Reference!NoSurrogate(Units) => Reference!ReadUtf8(all.text) = Units
    /\ \A cap \in Buffers :
         /\ Len(all.text) < cap => Decoded(cap) = all
         /\ Len(all.text) >= cap =>
              /\ Decoded(cap).err = "INSUFFICIENT_SPACE"
              /\ IsPrefix(Decoded(cap).text, all.text)
              /\ Len(Decoded(cap).text) < cap \/ Decoded(cap).text = << >>

\* "Full support for JSON escape sequences", surrogate pairs included: what is
\* stored for a string is the UTF-8 form of its code points, provided that
\* every surrogate has its partner.  The code does not keep this: decode_string
\* encodes each half of a pair by itself, in three bytes that are not UTF-8.
PairsAreDecoded ==
  IsStringToken =>
    (IsAscii /\ Reference!NoSurrogate(Meant)
       => Reference!ReadUtf8(Decoded(3 * Len(text) + 1).text) = Meant)

\* What encode_cstr reads of a buffer: the bytes in front of the first NUL.
CString(bytes) == SelectInSeq(bytes, LAMBDA c : c = "NUL")
Read(bytes) ==
  IF CString(bytes) = 0 THEN bytes ELSE SubSeq(bytes, 1, CString(bytes) - 1)

\* A string survives the way back: what encode_cstr writes for a decoded
\* string is one string token, up to its last byte, and decodes to the same
\* bytes, control characters that JSON forbids included, in a buffer of
\* exactly its size.
StringsSurvive ==
  IsStringToken =>
    LET string == Read(Decoded(3 * Len(text) + 1).text)
        written == FlattenSeq(CstrWrites(string))
        n == Len(written)
    IN /\ LexNext(written, n, 1) = Token("s", 2, n, n + 1)
       /\ DecodeCstr(written, 2, n, Len(string) + 1) = [err |-> "NONE", text |-> string]
=============================================================================
