---------------------------- MODULE JsonGrammar ----------------------------
(***************************************************************************)
(* The JSON grammar of RFC 8259 over token types, written down             *)
(* independently of the decoder: the reference its verdicts are compared   *)
(* with.  A text is a sequence of tokens; only their types matter here:    *)
(* "n" null, "t" true, "f" false, "s" string, "0" number and the six       *)
(* structural characters.                                                  *)
(*                                                                         *)
(* Empty selects the language: with TRUE it is JSON; with FALSE it is JSON *)
(* without {} and [].                                                      *)
(***************************************************************************)
EXTENDS Integers, Sequences

ScalarTypes == {"n", "t", "f", "s", "0"}

\* The structural characters: brackets, and the separators of RFC 8259.
LeftBracket == "["
RightBracket == "]"
LeftBrace == "{"
RightBrace == "}"
NameSeparator == ":"
ValueSeparator == ","

Nonterminals == {"value", "members", "elements"}

\* text[i..j] derives from nt, given by d which smaller spans derive from what.
ValueSpan(text, d, i, j) ==
  \/ i = j /\ text[i].type \in ScalarTypes
  \/ /\ i < j /\ text[i].type = LeftBrace /\ text[j].type = RightBrace
     /\ d[<<"members", i + 1, j - 1>>]
  \/ /\ i < j /\ text[i].type = LeftBracket /\ text[j].type = RightBracket
     /\ d[<<"elements", i + 1, j - 1>>]

\* What follows the value that ends at k: nothing, or a comma and more of nt.
RestSpan(text, d, nt, k, j) ==
  k = j \/ (k + 2 <= j /\ text[k + 1].type = ValueSeparator /\ d[<<nt, k + 2, j>>])

MembersSpan(text, Empty, d, i, j) ==
  \/ Empty /\ i = j + 1
  \/ /\ i + 2 <= j /\ text[i].type = "s" /\ text[i + 1].type = NameSeparator
     /\ \E k \in i + 2 .. j :
          d[<<"value", i + 2, k>>] /\ RestSpan(text, d, "members", k, j)

ElementsSpan(text, Empty, d, i, j) ==
  \/ Empty /\ i = j + 1
  \/ \E k \in i .. j : d[<<"value", i, k>>] /\ RestSpan(text, d, "elements", k, j)

Derived(text, Empty, d, nt, i, j) ==
  \/ nt = "value" /\ ValueSpan(text, d, i, j)
  \/ nt = "members" /\ MembersSpan(text, Empty, d, i, j)
  \/ nt = "elements" /\ ElementsSpan(text, Empty, d, i, j)

\* Whether text[i..j] derives from a nonterminal, for every interval at once.
Spans(n) == Nonterminals \X (1 .. n) \X (0 .. n)

Derives(text, Empty) ==
  LET d[x \in Spans(Len(text))] == Derived(text, Empty, d, x[1], x[2], x[3]) IN d

IsValue(text, Empty) ==
  text # << >> /\ Derives(text, Empty)[<<"value", 1, Len(text)>>]

-----------------------------------------------------------------------------
(* Prefixes: text[i..n], up to its end, can be continued to nt, given by   *)
(* open which later beginnings can, and by d what its spans derive from.   *)

ValueBegins(text, d, open, i) ==
  \/ d[<<"value", i, Len(text)>>]
  \/ text[i].type = LeftBrace /\ open[<<"members", i + 1>>]
  \/ text[i].type = LeftBracket /\ open[<<"elements", i + 1>>]

\* A value that ends at k < Len(text), a comma, and a beginning of more of nt.
MoreBegins(text, open, nt, k) ==
  k < Len(text) /\ text[k + 1].type = ValueSeparator /\ open[<<nt, k + 2>>]

MembersBegin(text, d, open, i) ==
  /\ text[i].type = "s"
  /\ \/ i = Len(text)
     \/ /\ text[i + 1].type = NameSeparator
        /\ \/ open[<<"value", i + 2>>]
           \/ \E k \in i + 2 .. Len(text) :
                d[<<"value", i + 2, k>>] /\ MoreBegins(text, open, "members", k)

ElementsBegin(text, d, open, i) ==
  \/ open[<<"value", i>>]
  \/ \E k \in i .. Len(text) :
       d[<<"value", i, k>>] /\ MoreBegins(text, open, "elements", k)

Begins(text, d, open, nt, i) ==
  \/ i > Len(text)
  \/ nt = "value" /\ ValueBegins(text, d, open, i)
  \/ nt = "members" /\ MembersBegin(text, d, open, i)
  \/ nt = "elements" /\ ElementsBegin(text, d, open, i)

Beginnings(n) == Nonterminals \X (1 .. n + 3)

Opens(text, Empty) ==
  LET d == Derives(text, Empty)
      open[x \in Beginnings(Len(text))] == Begins(text, d, open, x[1], x[2])
  IN open

\* Whether the text can still be continued to a value: it is a prefix of one.
IsValuePrefix(text, Empty) == Opens(text, Empty)[<<"value", 1>>]
=============================================================================
