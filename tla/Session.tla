------------------------------ MODULE Session ------------------------------
(***************************************************************************)
(* Two programs that exchange a structure: one encodes it into a buffer,   *)
(* the text arrives at the other in pieces, and that one calls             *)
(* bo_json_decode on what it has.  When bo_json_error_to_errno makes the   *)
(* error -EAGAIN it waits for more and decodes from the start, into the    *)
(* structure the failed call has left half filled.                         *)
(*                                                                         *)
(* The encoder, the simple writer, the lexer, the string codec and the     *)
(* decoder are those of their own modules.  What is added here is how they *)
(* meet: the tokens the decoder takes are the ones the lexer finds in the  *)
(* bytes the encoder wrote.  Both programs declare the same structure; the *)
(* reader's table (ReaderRoot) may lack members of the writer's (Root).    *)
(***************************************************************************)
EXTENDS Descriptors, Lexer, StringCodec

CONSTANTS
  Descs, Desc, Root, Inputs,                    \* as in Encoder
  WordSize, Capacities, Junk,                   \* as in SimpleWriter
  ReaderRoot,   \* the descriptor given to bo_json_decode
  Before,       \* what the reader's structure may hold before
  Tokens, MaxTokens, IntMax, LongMax,           \* as in Decoder
  MaxAttempts   \* bound: the calls of bo_json_decode

VARIABLES
  in, epc, after, todo, calls, eresult, buf, cap, len, reply,  \* the encoder's
  pc, stack, mem, result, consumed, read, lenient,             \* the decoder's
  at,           \* where the decoder's lexer is, or has found a fault
  received,     \* the bytes of the text that have arrived
  attempts,     \* the calls of bo_json_decode so far
  there,        \* the structure of the reader
  before,       \* history: what it was
  phase         \* who has to act

encoder == <<in, epc, after, todo, calls, eresult, buf, cap, len, reply>>
decoder == <<pc, stack, mem, result, consumed, read, lenient>>
reader == <<at, received, attempts, there, before>>
vars == <<encoder, decoder, reader, phase>>

Enc == INSTANCE Encoder WITH pc <- epc, result <- eresult
\* What is encoded from a table is never at odds with it: nothing goes astray.
Dec == INSTANCE Decoder WITH Root <- ReaderRoot, Overlaid <- {}, Wild <- {}

-----------------------------------------------------------------------------
(* From bytes to the tokens of the module Decoder.                         *)

\* A sequence of decimal digits.
Natural(s) == FoldLeft(LAMBDA n, c : 10 * n + Code[c] - 48, 0, s)

\* strtol: the value of the integer part.
Integer(s) ==
  LET from == IF s[1] = "-" THEN 2 ELSE 1
      n == Natural(SubSeq(s, from, Skip(s, Len(s), from, Digit) - 1))
  IN IF s[1] = "-" THEN -n ELSE n

\* strtod of a number with at most one decimal, in tenths.
Real(s) ==
  IF "." \in Range(s)
    THEN Integer(SelectSeq(s, LAMBDA c : c # "."))
    ELSE 10 * Integer(s)

\* Nothing but blanks is left: the text ends behind a token, not inside one.
AtEnd == Skip(buf, received, at, Blanks) > received

\* What lexer_next gives the decoder.  A key is compared as it stands, a value
\* is decoded.
Given(lexed) ==
  LET lexeme == SubSeq(buf, lexed.start, lexed.end - 1)
      token == [type |-> lexed.type, text |-> << >>, num |-> 0, real |-> 0, wide |-> FALSE]
  IN IF lexed.err # "NONE"
     THEN [type |-> IF lexed.type = "end" /\ ~AtEnd THEN "cut" ELSE lexed.type,
           err |-> lexed.err]
     ELSE CASE lexed.type = "s" /\ pc = "key" -> [token EXCEPT !.text = lexeme]
            [] lexed.type = "s" /\ pc # "key" ->
                 [token EXCEPT !.text =
                    DecodeCstr(buf, lexed.start, lexed.end, Len(buf)).text]
            [] lexed.type = "0" ->
                 [token EXCEPT !.num = Integer(lexeme), !.real = Real(lexeme),
                               !.wide = Len(lexeme) >= 64]
            [] OTHER -> token

\* Mutant: a call for more input is taken for bad input.
ErrnoNoAgain ==
  [NONE |-> "0", PARTIAL |-> "-EINVAL", INVALID_JSON |-> "-EINVAL",
   INSUFFICIENT_SPACE |-> "-ENOMEM", TYPE_NOT_MATCH |-> "-EINVAL",
   OVERFLOW |-> "-EOVERFLOW", NOT_SUPPORT |-> "-ENOTSUP", CONVERT |-> "-EINVAL"]

\* bo_json_error_to_errno.
Errno ==
  [NONE |-> "0", PARTIAL |-> "-EAGAIN", INVALID_JSON |-> "-EINVAL",
   INSUFFICIENT_SPACE |-> "-ENOMEM", TYPE_NOT_MATCH |-> "-EINVAL",
   OVERFLOW |-> "-EOVERFLOW", NOT_SUPPORT |-> "-ENOTSUP", CONVERT |-> "-EINVAL"]

-----------------------------------------------------------------------------
Init ==
  /\ Enc!Init
  /\ Dec!Init
  /\ there \in Before /\ before = there
  /\ at = 1 /\ received = 0 /\ attempts = 0
  /\ phase = "encode"

Encode ==
  /\ phase = "encode" /\ epc # "done"
  /\ Enc!Next
  /\ UNCHANGED <<decoder, reader, phase>>

\* bo_json_encode has returned: a text that is complete is sent.
Encoded ==
  /\ phase = "encode" /\ epc = "done"
  /\ phase' = IF eresult = "NONE" THEN "receive" ELSE "finished"
  /\ UNCHANGED <<encoder, decoder, reader>>

\* More of the text arrives, and the reader calls bo_json_decode on all it has.
Receive ==
  /\ phase = "receive" /\ attempts < MaxAttempts
  /\ received' \in received + 1 .. len
  /\ attempts + 1 = MaxAttempts => received' = len
  /\ attempts' = attempts + 1
  /\ at' = 1
  /\ pc' = "value" /\ stack' = << >> /\ mem' = << >> /\ result' = "NONE"
  /\ consumed' = << >> /\ read' = << >> /\ lenient' = {}
  /\ phase' = "decode"
  /\ UNCHANGED <<encoder, there, before>>

\* The decoder takes the token that its lexer finds in what has arrived.
Decode ==
  /\ phase = "decode" /\ pc \notin Dec!Stopped
  /\ \E lexed \in {LexNext(buf, received, at)} :
       /\ \E token \in {Given(lexed)} : consumed' = Append(consumed, token)
       /\ at' = lexed.pos
  /\ Dec!Next
  /\ UNCHANGED <<encoder, received, attempts, there, before, phase>>

\* bo_json_decode has returned.  What it has stored is there, whatever it says.
Decoded ==
  /\ phase = "decode" /\ pc \in Dec!Stopped
  /\ there' = [a \in DOMAIN there |-> IF a \in DOMAIN mem THEN mem[a] ELSE there[a]]
  /\ phase' = IF Errno[result] = "-EAGAIN" /\ received < len THEN "receive" ELSE "finished"
  /\ UNCHANGED <<encoder, decoder, at, received, attempts, before>>

Finished == phase = "finished" /\ UNCHANGED vars

Next == Encode \/ Encoded \/ Receive \/ Decode \/ Decoded \/ Finished

\* The programs go on, and the whole text arrives in the end.
Spec == Init /\ [][Next]_vars /\ WF_vars(Next)

-----------------------------------------------------------------------------
Succeeded == phase = "finished" /\ attempts > 0 /\ Errno[result] = "0"

\* The text has {} or [], which the encoder writes and the decoder refuses.
HasEmpty ==
  \E i \in 1 .. len - 1 : <<buf[i], buf[i + 1]>> \in {<<"{", "}">>, <<"[", "]">>}

\* The cells of the structure that the text carries for the reader: the members
\* that exist in the writer's and are described in the reader's table.
Carried[d \in Descs, o \in Nat] ==
  LET desc == Desc[d]
      base == o + desc.value_offset
  IN CASE desc.type = "OBJECT" ->
            UNION {{base + a.exist_offset} \cup Carried[a.desc, base] :
                     a \in {a \in Range(desc.attr_descs) : in[base + a.exist_offset].val}}
       [] desc.type = "ARRAY" ->
            {o + desc.count_offset} \cup
            UNION {Carried[desc.elem_attr_desc, base + i * desc.elem_size] :
                     i \in 0 .. in[o + desc.count_offset].val - 1}
       [] OTHER -> {base}

\* The programs keep their types: the reader's structure holds in every cell
\* what the C type of the cell allows, through all attempts.
TypeOK ==
  /\ phase \in {"encode", "receive", "decode", "finished"}
  /\ received \in 0 .. len /\ attempts \in 0 .. MaxAttempts
  /\ at \in 1 .. received + 1
  /\ DOMAIN there = DOMAIN before
  /\ \A a \in DOMAIN there : there[a].kind = before[a].kind

\* A text that is not complete is never taken for a complete one nor for a bad
\* one: wherever the bytes that have arrived are cut (in a keyword, a number,
\* an escape, between tokens), a call on them answers -EAGAIN, and the caller
\* waits.  The one exception is a text with {} or [], refused once it is seen.
PrefixAsksForMore ==
  phase = "decode" /\ pc \in Dec!Stopped /\ received < len /\ ~HasEmpty =>
    Errno[result] = "-EAGAIN"

\* What was encoded is what is decoded, once the text is complete: every member
\* that exists in the writer's structure and that the reader knows, with its
\* exist flag, its elements and their count, is restored, and the lexer stands
\* behind the last byte.  Nothing else has changed: a member the writer does
\* not have keeps value and exist flag, and no null flag is set or cleared.
Restored ==
  Succeeded =>
    /\ \A a \in DOMAIN there :
         there[a] = IF a \in Carried[ReaderRoot, 0] THEN in[a] ELSE before[a]
    /\ at = len + 1

\* Failed attempts leave little behind that does not belong there: between two
\* calls, and after the last, every cell is as before or as the writer has it.
\* While the text is not complete one cell may hold neither: a number cut by its end
\* behind a digit, which is a number too and is stored before the error shows.
OldOrSent ==
  LET changed == {a \in DOMAIN there : there[a] # before[a]}
      wrong == {a \in changed : there[a] # in[a]}
  IN /\ changed \subseteq Carried[ReaderRoot, 0]
     /\ \A a \in wrong : there[a].kind \in {"int", "int64", "double"}
     /\ wrong # {} => Cardinality(wrong) = 1 /\ phase # "finished"

\* The exchange comes to an end, and succeeds exactly when the text fits the
\* encoder's buffer and has no empty object or array.
Delivered ==
  <>(/\ phase = "finished"
     /\ Succeeded <=> eresult = "NONE" /\ ~HasEmpty)
=============================================================================
