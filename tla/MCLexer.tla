------------------------------ MODULE MCLexer ------------------------------
(***************************************************************************)
(* Texts for the lexer: numbers, keywords, strings with every escape, and  *)
(* \uXXXX on both sides of every boundary of UTF-8.  A text stays within   *)
(* one alphabet; each has characters that belong to no such token.         *)
(***************************************************************************)
EXTENDS IncrementalLexer

Pieces(strings) == {Chars(s) : s \in strings}

MCAlphabets ==
  {[pieces |-> Pieces({"-", "0", "1", ".", "e", "E", "+", " ", ","}), most |-> 7],
   [pieces |-> Pieces({"t", "r", "u", "e", "x", " "}), most |-> 5],
   [pieces |-> Pieces({"f", "als", "e", "n", "u", "l"}) \cup {<<"LF">>}, most |-> 5],
   [pieces |-> Pieces({"\"", "\\", "u", "0", "g"}), most |-> 8],
   [pieces |-> Pieces({"\"", "\\", "/", "b", "f", "n", "r", "t"}) \cup {<<"TAB">>, <<"x01">>},
    most |-> 5],
   [pieces |-> Pieces({"\"", "\\u0000", "\\u007f", "\\u0080", "\\u07FF", "\\u0800",
                       "\\uD7FF", "\\uD83D", "\\uE000", "\\uFFFF", "a"}) \cup {<<"xC3">>}, most |-> 4],
   [pieces |-> Pieces({"{", "}", "[", "]", ":", ",", " ", "x"}) \cup {<<"CR">>, <<"xC3">>},
    most |-> 3]}

\* Strings with both halves of a surrogate pair.
MCSurrogates ==
  {[pieces |-> Pieces({"\"", "\\uD83D", "\\uDE00", "\\u0041"}), most |-> 5]}

MCBuffers == 0 .. 8
=============================================================================
