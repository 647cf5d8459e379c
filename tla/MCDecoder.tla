----------------------------- MODULE MCDecoder -----------------------------
(***************************************************************************)
(* The decoder on the structure of MCStruct, at every kind of member.      *)
(***************************************************************************)
EXTENDS DecoderMemory, MCStruct

Token(type) ==
  [type |-> type, text |-> << >>, num |-> 0, real |-> 0, wide |-> FALSE]
Str(text) == [Token("s") EXCEPT !.text = text]
Num(num, real) == [Token("0") EXCEPT !.num = num, !.real = real]

Punctuation == {Token(c) : c \in {"{", "}", "[", "]", ":", ","}}

MCTokens ==
  Punctuation
    \cup {Token("n"), Token("t")}
    \cup {Str(<<"n">>), Str(<<"n", "a">>), Str(<<"i", "n">>), Str(<<"l">>),
          Str(<<"b", "NUL">>), Str(<<"p">>), Str(<<"i", "d">>), Str(<<"z">>)}
    \cup {Num(9, 90), [Num(9, 90) EXCEPT !.wide = TRUE]}

\* For the verdicts: a member that is described and one that is skipped.
MCVerdictTokens == Punctuation \cup {Num(1, 10), Str(<<"p">>), Str(<<"x">>)}

\* A key that is no member's name, but how two of them begin.
MCKeyTokens == Punctuation \cup {Num(1, 10), Str(<<"i">>)}

\* A member that is a number.
MCScalarTokens == Punctuation \cup {Str(<<"n">>)}

\* A member that is an array.
MCArrayTokens == Punctuation \cup {Str(<<"p">>)}

\* A store into the structure, and one behind it.
MCWild == {<<0, Value("bool", TRUE)>>, <<20, Value("int", 0)>>}

\* What decides the rest of a run: of the input, only how much was consumed; of
\* a string that is stored, only that it is one.
MCView ==
  LET textless(v) == IF v.kind \in {"cstr", "torn"} THEN [v EXCEPT !.val = << >>] ELSE v
  IN <<pc, stack, [a \in DOMAIN mem |-> textless(mem[a])], result, lenient, Len(consumed)>>
=============================================================================
