--------------------------- MODULE VerdictProofs ---------------------------
(***************************************************************************)
(* The verdict of the decoder against the grammar, for every input, every  *)
(* nesting and every table of descriptors.                                 *)
(*                                                                         *)
(* First, what the recursive functions of JsonGrammar compute.  A function *)
(* defined by recursion is one that some function satisfying the equation  *)
(* exists for; DerivesRule shows it by induction over the size of spans    *)
(* (Weight).  The same induction shows that what a span derives from does  *)
(* not depend on the text after it (DerivesAgree).  That a list may be     *)
(* extended at its end although the grammar says it at its beginning is    *)
(* MembersGrow and ElementsGrow.  OpensRule is the same for beginnings     *)
(* that the end of the text leaves open; MembersOpen and ElementsOpen say  *)
(* that a list can be completed when what follows its last part can be.    *)
(* SpansSplit says that JSON without {} and [] can be read in one way      *)
(* only: a span that derives from a nonterminal goes on with a comma and   *)
(* more of it, or not at all.                                              *)
(*                                                                         *)
(* The inductive invariant says where in the input the decoder stands:     *)
(* each active call began at an opening bracket of its kind, and what was  *)
(* read from there to the next bracket is what the grammar has before a    *)
(* value; what was read after the last one is what it has before the token *)
(* the decoder waits for (Progress).                                       *)
(*                                                                         *)
(* That a refusal is right takes more: what was read can be no beginning   *)
(* of a JSON text (without {} and []) in any other reading of it.  The     *)
(* refused token leaves the top call stuck (Stuck), and a stuck call the   *)
(* value of its caller dead (Dead), down to the text as a whole.           *)
(***************************************************************************)
EXTENDS DecoderProofs, JsonGrammar, Induction

-----------------------------------------------------------------------------
(* The grammar: spans, what they derive from, and how lists grow.         *)

\* What a span of nonterminal nt from i to j refers to is lighter.
Weight(nt, i, j) == IF j < i THEN 0
                    ELSE 2 * (j - i + 1) + (IF nt = "value" THEN 0 ELSE 1)

Lighter(n, w) == {x \in Spans(n) : Weight(x[1], x[2], x[3]) < w}

LEMMA WeightType ==
  ASSUME NEW n \in Nat, NEW nt \in Nonterminals, NEW i \in 1 .. n, NEW j \in 0 .. n
  PROVE  /\ Weight(nt, i, j) \in Nat /\ Weight(nt, i, j) <= 2 * n + 1
         /\ <<nt, i, j>> \in Spans(n)
BY DEF Weight, Spans, Nonterminals

\* The texts have the same types from 1 to n.
SameTypes(text, more, n) == \A p \in 1 .. n : text[p].type = more[p].type

\* The texts have the same types from 1 to n, and lighter spans derive from
\* the same nonterminals: then so does this one.
LEMMA Local ==
  ASSUME NEW n \in Nat, NEW text, NEW more, NEW Empty \in BOOLEAN,
         SameTypes(text, more, n),
         NEW nt \in Nonterminals, NEW i \in 1 .. n, NEW j \in 0 .. n,
         NEW d, NEW e,
         \A x \in Lighter(n, Weight(nt, i, j)) : d[x] <=> e[x]
  PROVE  Derived(text, Empty, d, nt, i, j) <=> Derived(more, Empty, e, nt, i, j)
<1> DEFINE w == Weight(nt, i, j)
<1>0. \A p \in 1 .. n : text[p].type = more[p].type
  BY DEF SameTypes
<1>1. ASSUME NEW mt \in Nonterminals, NEW a \in 1 .. n, NEW b \in 0 .. n,
             Weight(mt, a, b) < w
      PROVE  d[<<mt, a, b>>] <=> e[<<mt, a, b>>]
  <2>1. <<mt, a, b>> \in Lighter(n, w)
    BY <1>1 DEF Lighter, Spans
  <2> QED BY <2>1
<1>2. CASE nt = "value"
  <2>1. ASSUME i < j
        PROVE  /\ d[<<"members", i + 1, j - 1>>] <=> e[<<"members", i + 1, j - 1>>]
               /\ d[<<"elements", i + 1, j - 1>>] <=> e[<<"elements", i + 1, j - 1>>]
    <3>1. i + 1 \in 1 .. n /\ j - 1 \in 0 .. n
      BY <2>1
    <3>2. /\ Weight("members", i + 1, j - 1) < w
          /\ Weight("elements", i + 1, j - 1) < w
      BY <1>2, <2>1 DEF Weight
    <3> QED BY <1>1, <3>1, <3>2 DEF Nonterminals
  <2>2. /\ text[i].type = more[i].type
        /\ i < j => text[j].type = more[j].type
    BY <1>0
  <2>3. ValueSpan(text, d, i, j) <=> ValueSpan(more, e, i, j)
    <3>1. CASE i < j
      BY <2>1, <2>2, <3>1 DEF ValueSpan
    <3>2. CASE ~(i < j)
      BY <2>2, <3>2 DEF ValueSpan
    <3> QED BY <3>1, <3>2
  <2> QED BY <1>2, <2>3 DEF Derived
<1>3. CASE nt = "members"
  <2>1. ASSUME i + 2 <= j, NEW k \in i + 2 .. j
        PROVE  /\ d[<<"value", i + 2, k>>] <=> e[<<"value", i + 2, k>>]
               /\ RestSpan(text, d, "members", k, j) <=> RestSpan(more, e, "members", k, j)
    <3>1. i + 2 \in 1 .. n /\ k \in 0 .. n /\ Weight("value", i + 2, k) < w
      BY <1>3, <2>1 DEF Weight
    <3>2. ASSUME k + 2 <= j
          PROVE  /\ d[<<"members", k + 2, j>>] <=> e[<<"members", k + 2, j>>]
                 /\ text[k + 1].type = more[k + 1].type
      <4>1. k + 2 \in 1 .. n /\ k + 1 \in 1 .. n /\ Weight("members", k + 2, j) < w
        BY <1>3, <2>1, <3>2 DEF Weight
      <4> QED BY <1>0, <1>1, <4>1 DEF Nonterminals
    <3> QED BY <1>1, <3>1, <3>2 DEF Nonterminals, RestSpan
  <2>2. i + 2 <= j => /\ text[i].type = more[i].type
                      /\ text[i + 1].type = more[i + 1].type
    BY <1>0
  <2>3. MembersSpan(text, Empty, d, i, j) <=> MembersSpan(more, Empty, e, i, j)
    BY <2>1, <2>2 DEF MembersSpan
  <2> QED BY <1>3, <2>3 DEF Derived
<1>4. CASE nt = "elements"
  <2>1. ASSUME NEW k \in i .. j
        PROVE  /\ d[<<"value", i, k>>] <=> e[<<"value", i, k>>]
               /\ RestSpan(text, d, "elements", k, j) <=> RestSpan(more, e, "elements", k, j)
    <3>1. k \in 0 .. n /\ Weight("value", i, k) < w
      BY <1>4, <2>1 DEF Weight
    <3>2. ASSUME k + 2 <= j
          PROVE  /\ d[<<"elements", k + 2, j>>] <=> e[<<"elements", k + 2, j>>]
                 /\ text[k + 1].type = more[k + 1].type
      <4>1. k + 2 \in 1 .. n /\ k + 1 \in 1 .. n /\ Weight("elements", k + 2, j) < w
        BY <1>4, <2>1, <3>2 DEF Weight
      <4> QED BY <1>0, <1>1, <4>1 DEF Nonterminals
    <3> QED BY <1>1, <3>1, <3>2 DEF Nonterminals, RestSpan
  <2>2. ElementsSpan(text, Empty, d, i, j) <=> ElementsSpan(more, Empty, e, i, j)
    BY <2>1 DEF ElementsSpan
  <2> QED BY <1>4, <2>2 DEF Derived
<1> QED BY <1>2, <1>3, <1>4 DEF Nonterminals

-----------------------------------------------------------------------------
(* The recursion.                                                          *)

\* There is a function that satisfies the equation of Derives.
LEMMA RuleHasSolution ==
  ASSUME NEW text, NEW n \in Nat, n = Len(text), NEW Empty \in BOOLEAN
  PROVE  \E d : d = [x \in Spans(n) |-> Derived(text, Empty, d, x[1], x[2], x[3])]
<1> DEFINE Rule(d, x) == Derived(text, Empty, d, x[1], x[2], x[3])
           Solves(d, k) == \A x \in Lighter(n, k) : d[x] <=> Rule(d, x)
           S == {k \in Nat : \E d : Solves(d, k)}
<1>1. \A x \in Spans(n) : /\ x[1] \in Nonterminals /\ x[2] \in 1 .. n /\ x[3] \in 0 .. n
                          /\ x = <<x[1], x[2], x[3]>>
                          /\ Weight(x[1], x[2], x[3]) \in Nat
                          /\ Weight(x[1], x[2], x[3]) <= 2 * n + 1
  BY WeightType DEF Spans
<1> HIDE DEF S, Solves
<1>a. ASSUME NEW x \in Spans(n), NEW d, NEW e,
             \A y \in Lighter(n, Weight(x[1], x[2], x[3])) : d[y] <=> e[y]
      PROVE  Rule(d, x) <=> Rule(e, x)
  <2>1. SameTypes(text, text, n)
    BY DEF SameTypes
  <2> QED BY <1>1, <1>a, <2>1, Local
<1> USE DEF S, Solves
<1>2. 0 \in S
  <2>1. Lighter(n, 0) = {}
    BY <1>1 DEF Lighter
  <2> QED BY <2>1
<1>3. ASSUME NEW k \in Nat, k \in S PROVE k + 1 \in S
  <2>1. PICK d : Solves(d, k)
    BY <1>3
  <2> DEFINE e == [x \in Spans(n) |-> IF x \in Lighter(n, k) THEN d[x] ELSE Rule(d, x)]
  <2>2. \A x \in Lighter(n, k) : x \in Spans(n) /\ (d[x] <=> e[x])
    BY DEF Lighter
  <2>3. \A x \in Spans(n) : e[x] <=> Rule(d, x)
    BY <2>1
  <2> HIDE DEF e
  <2>4. ASSUME NEW x \in Lighter(n, k + 1) PROVE e[x] <=> Rule(e, x)
    <3>1. x \in Spans(n) /\ Weight(x[1], x[2], x[3]) <= k
      BY <1>1 DEF Lighter
    <3>2. \A y \in Lighter(n, Weight(x[1], x[2], x[3])) : d[y] <=> e[y]
      BY <1>1, <2>2, <3>1 DEF Lighter
    <3>3. Rule(d, x) <=> Rule(e, x)
      BY <1>a, <3>1, <3>2
    <3> QED BY <2>3, <3>1, <3>3
  <2>5. Solves(e, k + 1)
    BY <2>4
  <2> QED BY <2>5
<1> HIDE DEF S
<1>4. 2 * n + 2 \in S
  BY <1>2, <1>3, SetInduction
<1> USE DEF S
<1>5. PICK d : Solves(d, 2 * n + 2)
  BY <1>4
<1> DEFINE e == [x \in Spans(n) |-> Rule(d, x)]
<1>6. \A x \in Spans(n) : (d[x] <=> e[x]) /\ x \in Lighter(n, 2 * n + 2)
  BY <1>1, <1>5 DEF Lighter
<1>7. ASSUME NEW x \in Spans(n) PROVE Rule(d, x) <=> Rule(e, x)
  <2>1. \A y \in Lighter(n, Weight(x[1], x[2], x[3])) : d[y] <=> e[y]
    BY <1>6 DEF Lighter
  <2> HIDE DEF e
  <2> QED BY <1>a, <2>1
<1>8. e = [x \in Spans(n) |-> Rule(e, x)]
  <2>1. \A x \in Spans(n) : Rule(d, x) = Rule(e, x)
    BY <1>7 DEF Derived, ValueSpan, MembersSpan, ElementsSpan
  <2> QED BY <2>1
<1> QED BY <1>8

\* Derives satisfies its equation.
LEMMA DerivesRule ==
  ASSUME NEW text, Len(text) \in Nat, NEW Empty \in BOOLEAN,
         NEW nt \in Nonterminals, NEW i \in 1 .. Len(text), NEW j \in 0 .. Len(text)
  PROVE  Derives(text, Empty)[<<nt, i, j>>]
           <=> Derived(text, Empty, Derives(text, Empty), nt, i, j)
<1> DEFINE n == Len(text)
           Solution(d) == d = [x \in Spans(n) |-> Derived(text, Empty, d, x[1], x[2], x[3])]
<1>1. \E d : Solution(d)
  BY RuleHasSolution
<1>2. Derives(text, Empty) = CHOOSE d : Solution(d)
  BY DEF Derives
<1> HIDE DEF Solution
<1>3. Solution(Derives(text, Empty))
  BY <1>1, <1>2
<1>4. <<nt, i, j>> \in Spans(n)
  BY DEF Spans
<1> QED BY <1>3, <1>4 DEF Solution

\* A longer text derives from its spans what the shorter one did.
LEMMA DerivesAgree ==
  ASSUME NEW text, NEW more, NEW n \in Nat, Len(text) = n,
         Len(more) \in Nat, n <= Len(more),
         SameTypes(text, more, n),
         NEW Empty \in BOOLEAN,
         NEW nt \in Nonterminals, NEW i \in 1 .. n, NEW j \in 0 .. n
  PROVE  Derives(text, Empty)[<<nt, i, j>>] <=> Derives(more, Empty)[<<nt, i, j>>]
<1> DEFINE d == Derives(text, Empty)
           e == Derives(more, Empty)
           S == {k \in Nat : \A x \in Lighter(n, k) : d[x] <=> e[x]}
<1> HIDE DEF d, e, S
<1>a. ASSUME NEW a \in Nonterminals, NEW b \in 1 .. n, NEW c \in 0 .. n,
             \A y \in Lighter(n, Weight(a, b, c)) : d[y] <=> e[y]
      PROVE  Derived(text, Empty, d, a, b, c) <=> Derived(more, Empty, e, a, b, c)
  BY <1>a, Local
<1>1. ASSUME NEW x \in Spans(n)
      PROVE  /\ x[1] \in Nonterminals /\ x[2] \in 1 .. n /\ x[3] \in 0 .. n
             /\ x = <<x[1], x[2], x[3]>>
             /\ Weight(x[1], x[2], x[3]) \in Nat
             /\ Weight(x[1], x[2], x[3]) <= 2 * n + 1
  BY <1>1, WeightType DEF Spans
<1>2. ASSUME NEW x \in Spans(n),
             \A y \in Lighter(n, Weight(x[1], x[2], x[3])) : d[y] <=> e[y]
      PROVE  d[x] <=> e[x]
  <2> DEFINE a == x[1]
             b == x[2]
             c == x[3]
  <2>1. a \in Nonterminals /\ b \in 1 .. n /\ c \in 0 .. n /\ x = <<a, b, c>>
    BY <1>1
  <2> HIDE DEF a, b, c
  <2>2. d[<<a, b, c>>] <=> Derived(text, Empty, d, a, b, c)
    BY <2>1, DerivesRule DEF d
  <2>3. b \in 1 .. Len(more) /\ c \in 0 .. Len(more)
    BY <2>1
  <2>4. e[<<a, b, c>>] <=> Derived(more, Empty, e, a, b, c)
    BY <2>1, <2>3, DerivesRule DEF e
  <2>5. \A y \in Lighter(n, Weight(a, b, c)) : d[y] <=> e[y]
    BY <1>2 DEF a, b, c
  <2>6. Derived(text, Empty, d, a, b, c) <=> Derived(more, Empty, e, a, b, c)
    BY <1>a, <2>1, <2>5
  <2> QED BY <2>1, <2>2, <2>4, <2>6
<1> USE DEF S
<1>3. 0 \in S
  BY <1>1 DEF Lighter
<1>4. ASSUME NEW k \in Nat, k \in S PROVE k + 1 \in S
  <2> SUFFICES ASSUME NEW x \in Lighter(n, k + 1) PROVE d[x] <=> e[x]
    OBVIOUS
  <2>1. x \in Spans(n) /\ Weight(x[1], x[2], x[3]) <= k
    BY <1>1 DEF Lighter
  <2>2. \A y \in Lighter(n, Weight(x[1], x[2], x[3])) : y \in Lighter(n, k)
    BY <1>1, <2>1 DEF Lighter
  <2>3. \A y \in Lighter(n, Weight(x[1], x[2], x[3])) : d[y] <=> e[y]
    BY <1>4, <2>2
  <2> QED BY <1>2, <2>1, <2>3
<1> HIDE DEF S
<1>5. 2 * n + 2 \in S
  BY <1>3, <1>4, SetInduction
<1>6. <<nt, i, j>> \in Lighter(n, 2 * n + 2)
  BY WeightType DEF Lighter
<1> QED BY <1>5, <1>6 DEF S, d, e

-----------------------------------------------------------------------------
(* Lists grow at their end.                                                *)

LEMMA MembersGrow ==
  ASSUME NEW text, NEW n \in Nat, n = Len(text), NEW Empty \in BOOLEAN,
         NEW i \in 1 .. n, NEW k \in 1 .. n, NEW j \in 1 .. n, i <= k, k + 4 <= j,
         Derives(text, Empty)[<<"members", i, k>>],
         text[k + 1].type = ValueSeparator, text[k + 2].type = "s", text[k + 3].type = NameSeparator,
         Derives(text, Empty)[<<"value", k + 4, j>>]
  PROVE  Derives(text, Empty)[<<"members", i, j>>]
<1> DEFINE d == Derives(text, Empty)
           S == {m \in Nat : \A h \in 1 .. n :
                   h <= k /\ k - h <= m /\ d[<<"members", h, k>>] => d[<<"members", h, j>>]}
<1> HIDE DEF d
<1>1. \A h \in 1 .. n, q \in 0 .. n :
        d[<<"members", h, q>>] <=> MembersSpan(text, Empty, d, h, q)
  BY DerivesRule DEF d, Derived, Nonterminals
<1>2. d[<<"members", k + 2, j>>]
  <2>1. j \in k + 4 .. j /\ RestSpan(text, d, "members", j, j)
    BY DEF RestSpan
  <2>2. MembersSpan(text, Empty, d, k + 2, j)
    BY <2>1 DEF MembersSpan, d
  <2> QED BY <1>1, <2>2
<1>3. ASSUME NEW h \in 1 .. n, h <= k, d[<<"members", h, k>>],
             \A g \in 1 .. n : h < g /\ g <= k /\ d[<<"members", g, k>>] => d[<<"members", g, j>>]
      PROVE  d[<<"members", h, j>>]
  <2>1. MembersSpan(text, Empty, d, h, k)
    BY <1>1, <1>3
  <2>2. PICK q \in h + 2 .. k : /\ h + 2 <= k
                                /\ text[h].type = "s" /\ text[h + 1].type = NameSeparator
                                /\ d[<<"value", h + 2, q>>]
                                /\ RestSpan(text, d, "members", q, k)
    BY <1>3, <2>1 DEF MembersSpan
  <2>3. RestSpan(text, d, "members", q, j)
    <3>1. CASE q = k
      BY <1>2, <3>1 DEF RestSpan
    <3>2. CASE q # k
      <4>1. q + 2 <= k /\ text[q + 1].type = ValueSeparator /\ d[<<"members", q + 2, k>>]
        BY <2>2, <3>2 DEF RestSpan
      <4>2. q + 2 \in 1 .. n /\ h < q + 2
        BY <2>2, <4>1
      <4>3. d[<<"members", q + 2, j>>]
        BY <1>3, <4>1, <4>2
      <4> QED BY <4>1, <4>3 DEF RestSpan
    <3> QED BY <3>1, <3>2
  <2>4. q \in h + 2 .. j /\ h + 2 <= j
    BY <2>2
  <2>5. MembersSpan(text, Empty, d, h, j)
    BY <2>2, <2>3, <2>4 DEF MembersSpan
  <2> QED BY <1>1, <2>5
<1>4. 0 \in S
  <2> SUFFICES ASSUME NEW h \in 1 .. n, h <= k, k - h <= 0, d[<<"members", h, k>>]
               PROVE  d[<<"members", h, j>>]
    OBVIOUS
  <2>1. \A g \in 1 .. n : ~(h < g /\ g <= k)
    OBVIOUS
  <2> QED BY <1>3, <2>1
<1>5. ASSUME NEW m \in Nat, m \in S PROVE m + 1 \in S
  <2> SUFFICES ASSUME NEW h \in 1 .. n, h <= k, k - h <= m + 1, d[<<"members", h, k>>]
               PROVE  d[<<"members", h, j>>]
    OBVIOUS
  <2>1. \A g \in 1 .. n : h < g /\ g <= k /\ d[<<"members", g, k>>] => d[<<"members", g, j>>]
    BY <1>5
  <2> QED BY <1>3, <2>1
<1> HIDE DEF S
<1>6. \A m \in Nat : m \in S
  BY <1>4, <1>5, SetInduction
<1>7. k - i \in S
  <2>1. k - i \in Nat
    OBVIOUS
  <2> QED BY <1>6, <2>1
<1>8. \A h \in 1 .. n :
        h <= k /\ k - h <= k - i /\ d[<<"members", h, k>>] => d[<<"members", h, j>>]
  BY <1>7 DEF S
<1>9. d[<<"members", i, k>>] /\ i <= k /\ k - i <= k - i
  BY DEF d
<1>10. d[<<"members", i, j>>]
  BY <1>8, <1>9
<1> QED BY <1>10 DEF d

LEMMA ElementsGrow ==
  ASSUME NEW text, NEW n \in Nat, n = Len(text), NEW Empty \in BOOLEAN,
         NEW i \in 1 .. n, NEW k \in 1 .. n, NEW j \in 1 .. n, i <= k, k + 2 <= j,
         Derives(text, Empty)[<<"elements", i, k>>],
         text[k + 1].type = ValueSeparator, Derives(text, Empty)[<<"value", k + 2, j>>]
  PROVE  Derives(text, Empty)[<<"elements", i, j>>]
<1> DEFINE d == Derives(text, Empty)
           S == {m \in Nat : \A h \in 1 .. n :
                   h <= k /\ k - h <= m /\ d[<<"elements", h, k>>] => d[<<"elements", h, j>>]}
<1> HIDE DEF d
<1>1. \A h \in 1 .. n, q \in 0 .. n :
        d[<<"elements", h, q>>] <=> ElementsSpan(text, Empty, d, h, q)
  BY DerivesRule DEF d, Derived, Nonterminals
<1>2. d[<<"elements", k + 2, j>>]
  <2>1. j \in k + 2 .. j /\ RestSpan(text, d, "elements", j, j)
    BY DEF RestSpan
  <2>2. ElementsSpan(text, Empty, d, k + 2, j)
    BY <2>1 DEF ElementsSpan, d
  <2> QED BY <1>1, <2>2
<1>3. ASSUME NEW h \in 1 .. n, h <= k, d[<<"elements", h, k>>],
             \A g \in 1 .. n : h < g /\ g <= k /\ d[<<"elements", g, k>>] => d[<<"elements", g, j>>]
      PROVE  d[<<"elements", h, j>>]
  <2>1. ElementsSpan(text, Empty, d, h, k)
    BY <1>1, <1>3
  <2>2. PICK q \in h .. k : d[<<"value", h, q>>] /\ RestSpan(text, d, "elements", q, k)
    BY <1>3, <2>1 DEF ElementsSpan
  <2>3. RestSpan(text, d, "elements", q, j)
    <3>1. CASE q = k
      BY <1>2, <3>1 DEF RestSpan
    <3>2. CASE q # k
      <4>1. q + 2 <= k /\ text[q + 1].type = ValueSeparator /\ d[<<"elements", q + 2, k>>]
        BY <2>2, <3>2 DEF RestSpan
      <4>2. q + 2 \in 1 .. n /\ h < q + 2
        BY <2>2, <4>1
      <4>3. d[<<"elements", q + 2, j>>]
        BY <1>3, <4>1, <4>2
      <4> QED BY <4>1, <4>3 DEF RestSpan
    <3> QED BY <3>1, <3>2
  <2>4. q \in h .. j
    BY <2>2
  <2>5. ElementsSpan(text, Empty, d, h, j)
    BY <2>2, <2>3, <2>4 DEF ElementsSpan
  <2> QED BY <1>1, <2>5
<1>4. 0 \in S
  <2> SUFFICES ASSUME NEW h \in 1 .. n, h <= k, k - h <= 0, d[<<"elements", h, k>>]
               PROVE  d[<<"elements", h, j>>]
    OBVIOUS
  <2>1. \A g \in 1 .. n : ~(h < g /\ g <= k)
    OBVIOUS
  <2> QED BY <1>3, <2>1
<1>5. ASSUME NEW m \in Nat, m \in S PROVE m + 1 \in S
  <2> SUFFICES ASSUME NEW h \in 1 .. n, h <= k, k - h <= m + 1, d[<<"elements", h, k>>]
               PROVE  d[<<"elements", h, j>>]
    OBVIOUS
  <2>1. \A g \in 1 .. n : h < g /\ g <= k /\ d[<<"elements", g, k>>] => d[<<"elements", g, j>>]
    BY <1>5
  <2> QED BY <1>3, <2>1
<1> HIDE DEF S
<1>6. \A m \in Nat : m \in S
  BY <1>4, <1>5, SetInduction
<1>7. k - i \in S
  <2>1. k - i \in Nat
    OBVIOUS
  <2> QED BY <1>6, <2>1
<1>8. \A h \in 1 .. n :
        h <= k /\ k - h <= k - i /\ d[<<"elements", h, k>>] => d[<<"elements", h, j>>]
  BY <1>7 DEF S
<1>9. d[<<"elements", i, k>>] /\ i <= k /\ k - i <= k - i
  BY DEF d
<1>10. d[<<"elements", i, j>>]
  BY <1>8, <1>9
<1> QED BY <1>10 DEF d

-----------------------------------------------------------------------------
(* Prefixes.                                                               *)

\* What the beginning of nonterminal nt at i refers to is less far ahead.
Ahead(n, nt, i) == 2 * (n + 4 - i) + (IF nt = "value" THEN 0 ELSE 1)

Nearer(n, w) == {x \in Beginnings(n) : Ahead(n, x[1], x[2]) < w}

LEMMA AheadType ==
  ASSUME NEW n \in Nat, NEW x \in Beginnings(n)
  PROVE  /\ x[1] \in Nonterminals /\ x[2] \in 1 .. (n + 3) /\ x = <<x[1], x[2]>>
         /\ Ahead(n, x[1], x[2]) \in Nat /\ Ahead(n, x[1], x[2]) <= 2 * n + 7
<1>1. x[1] \in Nonterminals /\ x[2] \in 1 .. (n + 3) /\ x = <<x[1], x[2]>>
  BY DEF Beginnings
<1> QED BY <1>1 DEF Ahead

\* Two functions agree on what is nearer: then they agree on this beginning.
LEMMA BeginsLocal ==
  ASSUME NEW text, NEW n \in Nat, n = Len(text), NEW d, NEW open, NEW more,
         NEW nt \in Nonterminals, NEW i \in 1 .. (n + 3),
         \A x \in Nearer(n, Ahead(n, nt, i)) : open[x] <=> more[x]
  PROVE  Begins(text, d, open, nt, i) <=> Begins(text, d, more, nt, i)
<1> DEFINE w == Ahead(n, nt, i)
<1>1. ASSUME NEW mt \in Nonterminals, NEW a \in 1 .. (n + 3), Ahead(n, mt, a) < w
      PROVE  open[<<mt, a>>] <=> more[<<mt, a>>]
  <2>1. <<mt, a>> \in Nearer(n, w)
    BY <1>1 DEF Nearer, Beginnings
  <2> QED BY <2>1
<1>2. ASSUME i <= n, NEW mt \in {"members", "elements"}, NEW k \in i .. n
      PROVE  MoreBegins(text, open, mt, k) <=> MoreBegins(text, more, mt, k)
  <2>1. CASE k < n
    <3>1. k + 2 \in 1 .. (n + 3) /\ Ahead(n, mt, k + 2) < w /\ mt \in Nonterminals
      BY <1>2, <2>1 DEF Ahead, Nonterminals
    <3> QED BY <1>1, <3>1 DEF MoreBegins
  <2>2. CASE ~(k < n)
    BY <2>2 DEF MoreBegins
  <2> QED BY <2>1, <2>2
<1>3. CASE i > n
  BY <1>3 DEF Begins
<1>4. CASE i <= n /\ nt = "value"
  <2>1. i + 1 \in 1 .. (n + 3) /\ Ahead(n, "members", i + 1) < w
                               /\ Ahead(n, "elements", i + 1) < w
    BY <1>4 DEF Ahead
  <2>2. /\ open[<<"members", i + 1>>] <=> more[<<"members", i + 1>>]
        /\ open[<<"elements", i + 1>>] <=> more[<<"elements", i + 1>>]
    BY <1>1, <2>1 DEF Nonterminals
  <2>3. ValueBegins(text, d, open, i) <=> ValueBegins(text, d, more, i)
    BY <2>2 DEF ValueBegins
  <2> QED BY <1>4, <2>3 DEF Begins
<1>5. CASE i <= n /\ nt = "members"
  <2>1. i + 2 \in 1 .. (n + 3) /\ Ahead(n, "value", i + 2) < w
    BY <1>5 DEF Ahead
  <2>2. open[<<"value", i + 2>>] <=> more[<<"value", i + 2>>]
    BY <1>1, <2>1 DEF Nonterminals
  <2>3. \A k \in i + 2 .. n :
          MoreBegins(text, open, "members", k) <=> MoreBegins(text, more, "members", k)
    BY <1>2, <1>5
  <2>4. MembersBegin(text, d, open, i) <=> MembersBegin(text, d, more, i)
    BY <2>2, <2>3 DEF MembersBegin
  <2> QED BY <1>5, <2>4 DEF Begins
<1>6. CASE i <= n /\ nt = "elements"
  <2>1. i \in 1 .. (n + 3) /\ Ahead(n, "value", i) < w
    BY <1>6 DEF Ahead
  <2>2. open[<<"value", i>>] <=> more[<<"value", i>>]
    BY <1>1, <2>1 DEF Nonterminals
  <2>3. \A k \in i .. n :
          MoreBegins(text, open, "elements", k) <=> MoreBegins(text, more, "elements", k)
    BY <1>2, <1>6
  <2>4. ElementsBegin(text, d, open, i) <=> ElementsBegin(text, d, more, i)
    BY <2>2, <2>3 DEF ElementsBegin
  <2> QED BY <1>6, <2>4 DEF Begins
<1> QED BY <1>3, <1>4, <1>5, <1>6 DEF Nonterminals

\* The equation of Opens, and that some function satisfies it.
OpensEquation(text, d, open) ==
  open = [x \in Beginnings(Len(text)) |-> Begins(text, d, open, x[1], x[2])]

LEMMA OpensHasSolution ==
  ASSUME NEW text, NEW n \in Nat, n = Len(text), NEW d
  PROVE  \E open : OpensEquation(text, d, open)
<1> DEFINE Rule(o, x) == Begins(text, d, o, x[1], x[2])
           Solves(o, k) == \A x \in Nearer(n, k) : o[x] <=> Rule(o, x)
           S == {k \in Nat : \E o : Solves(o, k)}
<1> HIDE DEF S, Solves
<1>a. ASSUME NEW x \in Beginnings(n), NEW o, NEW p,
             \A y \in Nearer(n, Ahead(n, x[1], x[2])) : o[y] <=> p[y]
      PROVE  Rule(o, x) <=> Rule(p, x)
  BY <1>a, AheadType, BeginsLocal
<1> USE DEF S, Solves
<1>2. 0 \in S
  <2>1. Nearer(n, 0) = {}
    BY AheadType DEF Nearer
  <2> QED BY <2>1
<1>3. ASSUME NEW k \in Nat, k \in S PROVE k + 1 \in S
  <2>1. PICK o : Solves(o, k)
    BY <1>3
  <2> DEFINE p == [x \in Beginnings(n) |-> IF x \in Nearer(n, k) THEN o[x] ELSE Rule(o, x)]
  <2>2. \A x \in Nearer(n, k) : x \in Beginnings(n) /\ (o[x] <=> p[x])
    BY DEF Nearer
  <2>3. \A x \in Beginnings(n) : p[x] <=> Rule(o, x)
    BY <2>1
  <2> HIDE DEF p
  <2>4. ASSUME NEW x \in Nearer(n, k + 1) PROVE p[x] <=> Rule(p, x)
    <3>1. x \in Beginnings(n) /\ Ahead(n, x[1], x[2]) <= k
      BY AheadType DEF Nearer
    <3>2. \A y \in Nearer(n, Ahead(n, x[1], x[2])) : o[y] <=> p[y]
      BY AheadType, <2>2, <3>1 DEF Nearer
    <3>3. Rule(o, x) <=> Rule(p, x)
      BY <1>a, <3>1, <3>2
    <3> QED BY <2>3, <3>1, <3>3
  <2>5. Solves(p, k + 1)
    BY <2>4
  <2> QED BY <2>5
<1> HIDE DEF S
<1>4. 2 * n + 8 \in S
  BY <1>2, <1>3, SetInduction
<1> USE DEF S
<1>5. PICK o : Solves(o, 2 * n + 8)
  BY <1>4
<1> DEFINE p == [x \in Beginnings(n) |-> Rule(o, x)]
<1>6. \A x \in Beginnings(n) : (o[x] <=> p[x]) /\ x \in Nearer(n, 2 * n + 8)
  BY <1>5, AheadType DEF Nearer
<1>7. ASSUME NEW x \in Beginnings(n) PROVE Rule(o, x) <=> Rule(p, x)
  <2>1. \A y \in Nearer(n, Ahead(n, x[1], x[2])) : o[y] <=> p[y]
    BY <1>6 DEF Nearer
  <2> HIDE DEF p
  <2> QED BY <1>a, <2>1
<1>8. p = [x \in Beginnings(n) |-> Rule(p, x)]
  <2>1. \A x \in Beginnings(n) : Rule(o, x) = Rule(p, x)
    BY <1>7 DEF Begins
  <2> QED BY <2>1
<1>9. OpensEquation(text, d, p)
  BY <1>8 DEF OpensEquation
<1> QED BY <1>9

\* Opens satisfies its equation.
LEMMA OpensRule ==
  ASSUME NEW text, Len(text) \in Nat, NEW Empty \in BOOLEAN,
         NEW nt \in Nonterminals, NEW i \in 1 .. (Len(text) + 3)
  PROVE  Opens(text, Empty)[<<nt, i>>]
           <=> Begins(text, Derives(text, Empty), Opens(text, Empty), nt, i)
<1> DEFINE d == Derives(text, Empty)
<1>1. \E o : OpensEquation(text, d, o)
  BY OpensHasSolution
<1>2. Opens(text, Empty) = CHOOSE o : OpensEquation(text, d, o)
  BY DEF Opens, OpensEquation
<1>3. OpensEquation(text, d, Opens(text, Empty))
  BY <1>1, <1>2
<1>4. <<nt, i>> \in Beginnings(Len(text))
  BY DEF Beginnings
<1> QED BY <1>3, <1>4 DEF OpensEquation

\* A beginning of a list whose members, or elements, so far end at k.
LEMMA MembersOpen ==
  ASSUME NEW text, NEW n \in Nat, n = Len(text), NEW Empty \in BOOLEAN,
         NEW i \in 1 .. n, NEW k \in 1 .. n, i <= k,
         Derives(text, Empty)[<<"members", i, k>>],
         k = n \/ MoreBegins(text, Opens(text, Empty), "members", k)
  PROVE  Opens(text, Empty)[<<"members", i>>]
<1> DEFINE d == Derives(text, Empty)
           open == Opens(text, Empty)
           S == {m \in Nat : \A h \in 1 .. n :
                   h <= k /\ k - h <= m /\ d[<<"members", h, k>>] => open[<<"members", h>>]}
<1> HIDE DEF d, open
<1>1. \A h \in 1 .. n, q \in 0 .. n :
        d[<<"members", h, q>>] <=> MembersSpan(text, Empty, d, h, q)
  BY DerivesRule DEF d, Derived, Nonterminals
<1>2. \A h \in 1 .. n : open[<<"members", h>>] <=> MembersBegin(text, d, open, h)
  <2> SUFFICES ASSUME NEW h \in 1 .. n
               PROVE  open[<<"members", h>>] <=> MembersBegin(text, d, open, h)
    OBVIOUS
  <2>1. h \in 1 .. (Len(text) + 3) /\ "members" \in Nonterminals
    BY DEF Nonterminals
  <2> QED BY <2>1, OpensRule DEF d, open, Begins
<1>3. \A h \in 1 .. n : d[<<"value", h, n>>] => open[<<"value", h>>]
  <2> SUFFICES ASSUME NEW h \in 1 .. n, d[<<"value", h, n>>]
               PROVE  open[<<"value", h>>]
    OBVIOUS
  <2>1. h \in 1 .. (Len(text) + 3) /\ "value" \in Nonterminals
    BY DEF Nonterminals
  <2>2. ValueBegins(text, d, open, h)
    BY DEF ValueBegins
  <2> QED BY <2>1, <2>2, OpensRule DEF d, open, Begins
<1>4. ASSUME NEW h \in 1 .. n, h <= k, d[<<"members", h, k>>],
             \A g \in 1 .. n : h < g /\ g <= k /\ d[<<"members", g, k>>] => open[<<"members", g>>]
      PROVE  open[<<"members", h>>]
  <2>1. MembersSpan(text, Empty, d, h, k)
    BY <1>1, <1>4
  <2>2. PICK q \in h + 2 .. k : /\ h + 2 <= k
                                /\ text[h].type = "s" /\ text[h + 1].type = NameSeparator
                                /\ d[<<"value", h + 2, q>>]
                                /\ RestSpan(text, d, "members", q, k)
    BY <1>4, <2>1 DEF MembersSpan
  <2>3. q \in h + 2 .. n /\ h + 2 \in 1 .. n
    BY <2>2
  <2>4. MoreBegins(text, open, "members", q) => MembersBegin(text, d, open, h)
    BY <2>2, <2>3 DEF MembersBegin
  <2>5. CASE q = k /\ k = n
    <3>1. open[<<"value", h + 2>>]
      BY <1>3, <2>2, <2>3, <2>5
    <3>2. MembersBegin(text, d, open, h)
      BY <2>2, <3>1 DEF MembersBegin
    <3> QED BY <1>2, <3>2
  <2>6. CASE q = k /\ k # n
    <3>1. MoreBegins(text, open, "members", q)
      BY <2>6 DEF open
    <3> QED BY <1>2, <2>4, <3>1
  <2>7. CASE q # k
    <3>1. q + 2 <= k /\ text[q + 1].type = ValueSeparator /\ d[<<"members", q + 2, k>>]
      BY <2>2, <2>7 DEF RestSpan
    <3>2. q + 2 \in 1 .. n /\ h < q + 2
      BY <2>2, <3>1
    <3>3. open[<<"members", q + 2>>]
      BY <1>4, <3>1, <3>2
    <3>4. q < Len(text)
      BY <3>1
    <3>5. MoreBegins(text, open, "members", q)
      BY <3>1, <3>3, <3>4 DEF MoreBegins
    <3> QED BY <1>2, <2>4, <3>5
  <2> QED BY <2>5, <2>6, <2>7
<1>5. 0 \in S
  <2> SUFFICES ASSUME NEW h \in 1 .. n, h <= k, k - h <= 0, d[<<"members", h, k>>]
               PROVE  open[<<"members", h>>]
    OBVIOUS
  <2>1. \A g \in 1 .. n : ~(h < g /\ g <= k)
    OBVIOUS
  <2> QED BY <1>4, <2>1
<1>6. ASSUME NEW m \in Nat, m \in S PROVE m + 1 \in S
  <2> SUFFICES ASSUME NEW h \in 1 .. n, h <= k, k - h <= m + 1, d[<<"members", h, k>>]
               PROVE  open[<<"members", h>>]
    OBVIOUS
  <2>1. \A g \in 1 .. n : h < g /\ g <= k /\ d[<<"members", g, k>>] => open[<<"members", g>>]
    BY <1>6
  <2> QED BY <1>4, <2>1
<1> HIDE DEF S
<1>7. k - i \in S
  <2>1. k - i \in Nat
    OBVIOUS
  <2> QED BY <1>5, <1>6, <2>1, SetInduction
<1>8. \A h \in 1 .. n :
        h <= k /\ k - h <= k - i /\ d[<<"members", h, k>>] => open[<<"members", h>>]
  BY <1>7 DEF S
<1>9. d[<<"members", i, k>>] /\ i <= k /\ k - i <= k - i
  BY DEF d
<1>10. open[<<"members", i>>]
  BY <1>8, <1>9
<1> QED BY <1>10 DEF open

LEMMA ElementsOpen ==
  ASSUME NEW text, NEW n \in Nat, n = Len(text), NEW Empty \in BOOLEAN,
         NEW i \in 1 .. n, NEW k \in 1 .. n, i <= k,
         Derives(text, Empty)[<<"elements", i, k>>],
         k = n \/ MoreBegins(text, Opens(text, Empty), "elements", k)
  PROVE  Opens(text, Empty)[<<"elements", i>>]
<1> DEFINE d == Derives(text, Empty)
           open == Opens(text, Empty)
           S == {m \in Nat : \A h \in 1 .. n :
                   h <= k /\ k - h <= m /\ d[<<"elements", h, k>>] => open[<<"elements", h>>]}
<1> HIDE DEF d, open
<1>1. \A h \in 1 .. n, q \in 0 .. n :
        d[<<"elements", h, q>>] <=> ElementsSpan(text, Empty, d, h, q)
  BY DerivesRule DEF d, Derived, Nonterminals
<1>2. \A h \in 1 .. n : open[<<"elements", h>>] <=> ElementsBegin(text, d, open, h)
  <2> SUFFICES ASSUME NEW h \in 1 .. n
               PROVE  open[<<"elements", h>>] <=> ElementsBegin(text, d, open, h)
    OBVIOUS
  <2>1. h \in 1 .. (Len(text) + 3) /\ "elements" \in Nonterminals
    BY DEF Nonterminals
  <2> QED BY <2>1, OpensRule DEF d, open, Begins
<1>3. \A h \in 1 .. n : d[<<"value", h, n>>] => open[<<"value", h>>]
  <2> SUFFICES ASSUME NEW h \in 1 .. n, d[<<"value", h, n>>]
               PROVE  open[<<"value", h>>]
    OBVIOUS
  <2>1. h \in 1 .. (Len(text) + 3) /\ "value" \in Nonterminals
    BY DEF Nonterminals
  <2>2. ValueBegins(text, d, open, h)
    BY DEF ValueBegins
  <2> QED BY <2>1, <2>2, OpensRule DEF d, open, Begins
<1>4. ASSUME NEW h \in 1 .. n, h <= k, d[<<"elements", h, k>>],
             \A g \in 1 .. n : h < g /\ g <= k /\ d[<<"elements", g, k>>] => open[<<"elements", g>>]
      PROVE  open[<<"elements", h>>]
  <2>1. ElementsSpan(text, Empty, d, h, k)
    BY <1>1, <1>4
  <2>2. PICK q \in h .. k : d[<<"value", h, q>>] /\ RestSpan(text, d, "elements", q, k)
    BY <1>4, <2>1 DEF ElementsSpan
  <2>3. q \in h .. n
    BY <2>2
  <2>4. MoreBegins(text, open, "elements", q) => ElementsBegin(text, d, open, h)
    BY <2>2, <2>3 DEF ElementsBegin
  <2>5. CASE q = k /\ k = n
    <3>1. open[<<"value", h>>]
      BY <1>3, <2>2, <2>3, <2>5
    <3>2. ElementsBegin(text, d, open, h)
      BY <2>2, <3>1 DEF ElementsBegin
    <3> QED BY <1>2, <3>2
  <2>6. CASE q = k /\ k # n
    <3>1. MoreBegins(text, open, "elements", q)
      BY <2>6 DEF open
    <3> QED BY <1>2, <2>4, <3>1
  <2>7. CASE q # k
    <3>1. q + 2 <= k /\ text[q + 1].type = ValueSeparator /\ d[<<"elements", q + 2, k>>]
      BY <2>2, <2>7 DEF RestSpan
    <3>2. q + 2 \in 1 .. n /\ h < q + 2
      BY <2>2, <3>1
    <3>3. open[<<"elements", q + 2>>]
      BY <1>4, <3>1, <3>2
    <3>4. q < Len(text)
      BY <3>1
    <3>5. MoreBegins(text, open, "elements", q)
      BY <3>1, <3>3, <3>4 DEF MoreBegins
    <3> QED BY <1>2, <2>4, <3>5
  <2> QED BY <2>5, <2>6, <2>7
<1>5. 0 \in S
  <2> SUFFICES ASSUME NEW h \in 1 .. n, h <= k, k - h <= 0, d[<<"elements", h, k>>]
               PROVE  open[<<"elements", h>>]
    OBVIOUS
  <2>1. \A g \in 1 .. n : ~(h < g /\ g <= k)
    OBVIOUS
  <2> QED BY <1>4, <2>1
<1>6. ASSUME NEW m \in Nat, m \in S PROVE m + 1 \in S
  <2> SUFFICES ASSUME NEW h \in 1 .. n, h <= k, k - h <= m + 1, d[<<"elements", h, k>>]
               PROVE  open[<<"elements", h>>]
    OBVIOUS
  <2>1. \A g \in 1 .. n : h < g /\ g <= k /\ d[<<"elements", g, k>>] => open[<<"elements", g>>]
    BY <1>6
  <2> QED BY <1>4, <2>1
<1> HIDE DEF S
<1>7. k - i \in S
  <2>1. k - i \in Nat
    OBVIOUS
  <2> QED BY <1>5, <1>6, <2>1, SetInduction
<1>8. \A h \in 1 .. n :
        h <= k /\ k - h <= k - i /\ d[<<"elements", h, k>>] => open[<<"elements", h>>]
  BY <1>7 DEF S
<1>9. d[<<"elements", i, k>>] /\ i <= k /\ k - i <= k - i
  BY DEF d
<1>10. open[<<"elements", i>>]
  BY <1>8, <1>9
<1> QED BY <1>10 DEF open

-----------------------------------------------------------------------------
(* Without {} and [] a text can be read in one way only.                   *)

LEMMA CharactersDiffer ==
  /\ LeftBrace # LeftBracket /\ RightBrace # ValueSeparator /\ RightBracket # ValueSeparator
  /\ LeftBrace \notin ScalarTypes /\ LeftBracket \notin ScalarTypes
BY Zenon DEF LeftBrace, LeftBracket, RightBrace, RightBracket, ValueSeparator, ScalarTypes

\* Where the first value of a list is that begins at i.
FirstValue(nt, i) == IF nt = "members" THEN i + 2 ELSE i

\* text[i..k] is all there is: nothing longer is a value, nor is it the
\* beginning of one.  A list can only go on with a comma and more of it.
Splits(text, nt, i, k) ==
  LET d == Derives(text, FALSE)
      open == Opens(text, FALSE)
  IN /\ \A j \in k + 1 .. Len(text) :
          d[<<nt, i, j>>] => /\ nt # "value"
                             /\ k + 2 <= j /\ text[k + 1].type = ValueSeparator
                             /\ d[<<nt, k + 2, j>>]
     /\ k < Len(text) /\ open[<<nt, i>>] =>
          nt # "value" /\ MoreBegins(text, open, nt, k)

\* The equations of both functions.
LEMMA StrictSpans ==
  ASSUME NEW text, NEW n \in Nat, n = Len(text), NEW i \in 1 .. n, NEW j \in 0 .. n
  PROVE  LET d == Derives(text, FALSE) IN
         /\ d[<<"value", i, j>>] <=> ValueSpan(text, d, i, j)
         /\ d[<<"members", i, j>>] <=> MembersSpan(text, FALSE, d, i, j)
         /\ d[<<"elements", i, j>>] <=> ElementsSpan(text, FALSE, d, i, j)
<1> DEFINE d == Derives(text, FALSE)
<1>1. \A nt \in Nonterminals : d[<<nt, i, j>>] <=> Derived(text, FALSE, d, nt, i, j)
  BY DerivesRule
<1> HIDE DEF d
<1>2. /\ d[<<"value", i, j>>] <=> ValueSpan(text, d, i, j)
      /\ d[<<"members", i, j>>] <=> MembersSpan(text, FALSE, d, i, j)
      /\ d[<<"elements", i, j>>] <=> ElementsSpan(text, FALSE, d, i, j)
  BY <1>1 DEF Derived, Nonterminals
<1> QED BY <1>2 DEF d

LEMMA StrictOpens ==
  ASSUME NEW text, NEW n \in Nat, n = Len(text), NEW i \in 1 .. n
  PROVE  LET d == Derives(text, FALSE)
             open == Opens(text, FALSE)
         IN /\ open[<<"value", i>>] <=> ValueBegins(text, d, open, i)
            /\ open[<<"members", i>>] <=> MembersBegin(text, d, open, i)
            /\ open[<<"elements", i>>] <=> ElementsBegin(text, d, open, i)
<1> DEFINE d == Derives(text, FALSE)
           open == Opens(text, FALSE)
<1>1. i \in 1 .. (Len(text) + 3) /\ ~(i > Len(text))
  OBVIOUS
<1>2. \A nt \in Nonterminals : open[<<nt, i>>] <=> Begins(text, d, open, nt, i)
  BY <1>1, OpensRule
<1> HIDE DEF d, open
<1>3. /\ open[<<"value", i>>] <=> ValueBegins(text, d, open, i)
      /\ open[<<"members", i>>] <=> MembersBegin(text, d, open, i)
      /\ open[<<"elements", i>>] <=> ElementsBegin(text, d, open, i)
  BY <1>1, <1>2 DEF Begins, Nonterminals
<1> QED BY <1>3 DEF d, open

\* A list begins with its first value.
LEMMA FirstOfSpan ==
  ASSUME NEW text, NEW n \in Nat, n = Len(text),
         NEW nt \in {"members", "elements"}, NEW i \in 1 .. n, NEW j \in 0 .. n,
         Derives(text, FALSE)[<<nt, i, j>>]
  PROVE  /\ FirstValue(nt, i) <= j /\ FirstValue(nt, i) \in 1 .. n
         /\ \E q \in FirstValue(nt, i) .. j :
              /\ Derives(text, FALSE)[<<"value", FirstValue(nt, i), q>>]
              /\ RestSpan(text, Derives(text, FALSE), nt, q, j)
<1> DEFINE d == Derives(text, FALSE)
<1>1. /\ d[<<"members", i, j>>] <=> MembersSpan(text, FALSE, d, i, j)
      /\ d[<<"elements", i, j>>] <=> ElementsSpan(text, FALSE, d, i, j)
  BY StrictSpans
<1>2. d[<<nt, i, j>>]
  OBVIOUS
<1> HIDE DEF d
<1>3. /\ FirstValue(nt, i) <= j
      /\ \E q \in FirstValue(nt, i) .. j :
           /\ d[<<"value", FirstValue(nt, i), q>>]
           /\ RestSpan(text, d, nt, q, j)
  <2>1. CASE nt = "members"
    BY <1>1, <1>2, <2>1 DEF MembersSpan, FirstValue
  <2>2. CASE nt = "elements"
    <3>1. FirstValue(nt, i) = i
      BY <2>2, Zenon DEF FirstValue
    <3>2. \E q \in i .. j : d[<<"value", i, q>>] /\ RestSpan(text, d, "elements", q, j)
      BY <1>1, <1>2, <2>2 DEF ElementsSpan
    <3>3. i <= j
      BY <3>2
    <3> QED BY <2>2, <3>1, <3>2, <3>3
  <2> QED BY <2>1, <2>2
<1>4. FirstValue(nt, i) \in 1 .. n
  BY <1>3 DEF FirstValue
<1> QED BY <1>3, <1>4 DEF d

LEMMA FirstOfOpen ==
  ASSUME NEW text, NEW n \in Nat, n = Len(text),
         NEW nt \in {"members", "elements"}, NEW i \in 1 .. n,
         FirstValue(nt, i) <= n, Opens(text, FALSE)[<<nt, i>>]
  PROVE  \/ Opens(text, FALSE)[<<"value", FirstValue(nt, i)>>]
         \/ \E q \in FirstValue(nt, i) .. n :
              /\ Derives(text, FALSE)[<<"value", FirstValue(nt, i), q>>]
              /\ MoreBegins(text, Opens(text, FALSE), nt, q)
<1> DEFINE d == Derives(text, FALSE)
           open == Opens(text, FALSE)
<1>1. /\ open[<<"members", i>>] <=> MembersBegin(text, d, open, i)
      /\ open[<<"elements", i>>] <=> ElementsBegin(text, d, open, i)
  BY StrictOpens
<1>2. open[<<nt, i>>]
  OBVIOUS
<1> HIDE DEF d, open
<1>3. \/ open[<<"value", FirstValue(nt, i)>>]
      \/ \E q \in FirstValue(nt, i) .. n :
           /\ d[<<"value", FirstValue(nt, i), q>>]
           /\ MoreBegins(text, open, nt, q)
  <2>1. CASE nt = "members"
    BY <1>1, <1>2, <2>1 DEF MembersBegin, FirstValue
  <2>2. CASE nt = "elements"
    BY <1>1, <1>2, <2>2 DEF ElementsBegin, FirstValue
  <2> QED BY <2>1, <2>2
<1> QED BY <1>3 DEF d, open

\* The two functions of a text, as the steps of the next proof see them.
BothOf(text, d, open) == d = Derives(text, FALSE) /\ open = Opens(text, FALSE)

\* Nothing follows a closing bracket in its value.
LEMMA BracketSplits ==
  ASSUME NEW text, NEW n \in Nat, n = Len(text), NEW d, NEW open, BothOf(text, d, open),
         NEW nt \in Nonterminals, NEW i \in 1 .. n, NEW k \in 1 .. n, i < k,
         text[k].type # ValueSeparator, Splits(text, nt, i + 1, k - 1)
  PROVE  /\ \A j \in k + 1 .. n : ~d[<<nt, i + 1, j - 1>>]
         /\ ~open[<<nt, i + 1>>]
<1>1. /\ \A j \in (k - 1) + 1 .. n : d[<<nt, i + 1, j>>] =>
           text[(k - 1) + 1].type = ValueSeparator
      /\ k - 1 < n /\ open[<<nt, i + 1>>] => MoreBegins(text, open, nt, k - 1)
  BY DEF Splits, BothOf
<1>2. (k - 1) + 1 = k /\ k - 1 < n
  OBVIOUS
<1>3. \A j \in k .. n : ~d[<<nt, i + 1, j>>]
  BY <1>1, <1>2
<1>4. ASSUME NEW j \in k + 1 .. n PROVE ~d[<<nt, i + 1, j - 1>>]
  <2>1. j - 1 \in k .. n
    OBVIOUS
  <2> QED BY <1>3, <2>1
<1>5. ~open[<<nt, i + 1>>]
  <2>1. ~MoreBegins(text, open, nt, k - 1)
    BY <1>2 DEF MoreBegins
  <2> QED BY <1>1, <1>2, <2>1
<1> QED BY <1>4, <1>5

LEMMA ValueSplits ==
  ASSUME NEW text, NEW n \in Nat, n = Len(text), NEW d, NEW open, BothOf(text, d, open),
         NEW i \in 1 .. n, NEW k \in 1 .. n, i <= k, d[<<"value", i, k>>],
         \A nt \in Nonterminals :
           i < k /\ d[<<nt, i + 1, k - 1>>] => Splits(text, nt, i + 1, k - 1)
  PROVE  Splits(text, "value", i, k)
<1>1. \A j \in 0 .. n : d[<<"value", i, j>>] <=> ValueSpan(text, d, i, j)
  BY StrictSpans DEF BothOf
<1>2. open[<<"value", i>>] <=> ValueBegins(text, d, open, i)
  BY StrictOpens DEF BothOf
<1>n. k \in 0 .. n /\ n \in 0 .. n /\ Len(text) = n
  OBVIOUS
<1>3. /\ \A j \in k + 1 .. n : ~d[<<"value", i, j>>]
      /\ k < n => ~open[<<"value", i>>]
  <2>1. SUFFICES
          /\ \A j \in k + 1 .. n : ~ValueSpan(text, d, i, j)
          /\ ~(text[i].type = LeftBrace /\ open[<<"members", i + 1>>])
          /\ ~(text[i].type = LeftBracket /\ open[<<"elements", i + 1>>])
    <3>1. \A j \in k + 1 .. n : j \in 0 .. n
      OBVIOUS
    <3>2. \A j \in k + 1 .. n : ~d[<<"value", i, j>>]
      BY <1>1, <2>1, <3>1
    <3>3. ASSUME k < n PROVE ~open[<<"value", i>>]
      <4>1. n \in k + 1 .. n
        BY <3>3
      <4> QED BY <1>2, <1>n, <2>1, <3>2, <4>1 DEF ValueBegins
    <3> QED BY <3>2, <3>3
  <2>2. ValueSpan(text, d, i, k)
    BY <1>1, <1>n
  <2>3. CASE i = k /\ text[i].type \in ScalarTypes
    <3>1. text[i].type # LeftBrace /\ text[i].type # LeftBracket
      BY <2>3, CharactersDiffer
    <3>2. \A j \in k + 1 .. n : i # j
      OBVIOUS
    <3> QED BY <3>1, <3>2 DEF ValueSpan
  <2>4. CASE /\ i < k /\ text[i].type = LeftBrace /\ text[k].type = RightBrace
             /\ d[<<"members", i + 1, k - 1>>]
    <3>1. "members" \in Nonterminals /\ text[k].type # ValueSeparator
      BY <2>4, CharactersDiffer DEF Nonterminals
    <3>2. /\ \A j \in k + 1 .. n : ~d[<<"members", i + 1, j - 1>>]
          /\ ~open[<<"members", i + 1>>]
      BY <2>4, <3>1, BracketSplits
    <3>3. text[i].type # LeftBracket /\ text[i].type \notin ScalarTypes
      BY <2>4, CharactersDiffer
    <3> QED BY <3>2, <3>3 DEF ValueSpan
  <2>5. CASE /\ i < k /\ text[i].type = LeftBracket /\ text[k].type = RightBracket
             /\ d[<<"elements", i + 1, k - 1>>]
    <3>1. "elements" \in Nonterminals /\ text[k].type # ValueSeparator
      BY <2>5, CharactersDiffer DEF Nonterminals
    <3>2. /\ \A j \in k + 1 .. n : ~d[<<"elements", i + 1, j - 1>>]
          /\ ~open[<<"elements", i + 1>>]
      BY <2>5, <3>1, BracketSplits
    <3>3. text[i].type # LeftBrace /\ text[i].type \notin ScalarTypes
      BY <2>5, CharactersDiffer
    <3> QED BY <3>2, <3>3 DEF ValueSpan
  <2> QED BY <2>2, <2>3, <2>4, <2>5 DEF ValueSpan
<1> QED BY <1>3 DEF Splits, BothOf

\* The value that begins at f ends at q, and nowhere else.
EndsOnce(text, d, open, f, q) ==
  /\ \A h \in f .. Len(text) : d[<<"value", f, h>>] => h = q
  /\ q < Len(text) => ~open[<<"value", f>>]

\* The first value of a list ends in one place only.
LEMMA FirstSplits ==
  ASSUME NEW text, NEW n \in Nat, n = Len(text), NEW d, NEW open, BothOf(text, d, open),
         NEW f \in 1 .. n, NEW k \in 1 .. n, NEW q \in f .. k,
         \A h \in f .. k : d[<<"value", f, h>>] => Splits(text, "value", f, h),
         d[<<"value", f, q>>]
  PROVE  EndsOnce(text, d, open, f, q)
<1>1. ASSUME NEW h \in f .. k, d[<<"value", f, h>>]
      PROVE  /\ \A j \in h + 1 .. n : ~d[<<"value", f, j>>]
             /\ h < n => ~open[<<"value", f>>]
  <2>1. Splits(text, "value", f, h)
    BY <1>1
  <2> QED BY <2>1 DEF Splits, BothOf
<1>2. /\ \A j \in q + 1 .. n : ~d[<<"value", f, j>>]
      /\ q < n => ~open[<<"value", f>>]
  BY <1>1
<1>3. ASSUME NEW h \in f .. n, d[<<"value", f, h>>] PROVE h = q
  <2>1. CASE h > q
    <3>1. h \in q + 1 .. n
      BY <2>1
    <3> QED BY <1>2, <1>3, <3>1
  <2>2. CASE h < q
    <3>1. h \in f .. k /\ q \in h + 1 .. n
      BY <2>2
    <3> QED BY <1>1, <1>3, <3>1
  <2> QED BY <2>1, <2>2
<1> QED BY <1>2, <1>3 DEF EndsOnce

LEMMA ListSplits ==
  ASSUME NEW text, NEW n \in Nat, n = Len(text), NEW d, NEW open, BothOf(text, d, open),
         NEW nt \in {"members", "elements"},
         NEW i \in 1 .. n, NEW k \in 1 .. n, d[<<nt, i, k>>],
         \A h \in FirstValue(nt, i) .. k :
           /\ d[<<"value", FirstValue(nt, i), h>>] =>
                Splits(text, "value", FirstValue(nt, i), h)
           /\ h + 2 <= k /\ d[<<nt, h + 2, k>>] => Splits(text, nt, h + 2, k)
  PROVE  Splits(text, nt, i, k)
<1> DEFINE f == FirstValue(nt, i)
<1>1. \A j \in 0 .. n : d[<<nt, i, j>>] =>
        /\ f <= j /\ f \in 1 .. n
        /\ \E q \in f .. j : d[<<"value", f, q>>] /\ RestSpan(text, d, nt, q, j)
  BY FirstOfSpan DEF BothOf
<1>2. f <= n /\ open[<<nt, i>>] =>
        \/ open[<<"value", f>>]
        \/ \E q \in f .. n : d[<<"value", f, q>>] /\ MoreBegins(text, open, nt, q)
  BY FirstOfOpen DEF BothOf
<1>3. \A h \in f .. k :
        /\ d[<<"value", f, h>>] => Splits(text, "value", f, h)
        /\ h + 2 <= k /\ d[<<nt, h + 2, k>>] => Splits(text, nt, h + 2, k)
  OBVIOUS
<1> HIDE DEF f
<1>4. f <= k /\ f \in 1 .. n /\ k \in 0 .. n
  BY <1>1
<1>5. PICK q \in f .. k : d[<<"value", f, q>>] /\ RestSpan(text, d, nt, q, k)
  BY <1>1, <1>4
<1>6. /\ \A h \in f .. n : d[<<"value", f, h>>] => h = q
      /\ q < n => ~open[<<"value", f>>]
  <2>1. \A h \in f .. k : d[<<"value", f, h>>] => Splits(text, "value", f, h)
    BY <1>3
  <2>2. f \in 1 .. n /\ q \in f .. k /\ d[<<"value", f, q>>]
    BY <1>4, <1>5
  <2>3. EndsOnce(text, d, open, f, q)
    BY <2>1, <2>2, FirstSplits
  <2> QED BY <2>3 DEF EndsOnce
<1>7. \/ q = k
      \/ q + 2 <= k /\ d[<<nt, q + 2, k>>] /\ Splits(text, nt, q + 2, k)
  BY <1>3, <1>4, <1>5 DEF RestSpan
<1>8. nt # "value"
  OBVIOUS
<1>9. ASSUME NEW j \in k + 1 .. n, d[<<nt, i, j>>]
      PROVE  /\ k + 2 <= j /\ text[k + 1].type = ValueSeparator
             /\ d[<<nt, k + 2, j>>]
  <2>1. j \in 0 .. n /\ q # j /\ k < j
    BY <1>5
  <2>2. PICK h \in f .. j : d[<<"value", f, h>>] /\ RestSpan(text, d, nt, h, j)
    BY <1>1, <1>9, <2>1
  <2>3. h = q
    BY <1>4, <1>6, <2>2
  <2>4. q + 2 <= j /\ text[q + 1].type = ValueSeparator /\ d[<<nt, q + 2, j>>]
    BY <2>1, <2>2, <2>3 DEF RestSpan
  <2>5. CASE q = k
    BY <2>4, <2>5
  <2>6. CASE Splits(text, nt, q + 2, k)
    BY <2>4, <2>6 DEF Splits, BothOf
  <2> QED BY <1>7, <2>5, <2>6
<1>10. ASSUME k < n, open[<<nt, i>>] PROVE MoreBegins(text, open, nt, k)
  <2>1. f <= n /\ q < n
    BY <1>4, <1>5, <1>10
  <2>2. PICK h \in f .. n : d[<<"value", f, h>>] /\ MoreBegins(text, open, nt, h)
    BY <1>2, <1>6, <1>10, <2>1
  <2>3. MoreBegins(text, open, nt, q)
    BY <1>6, <2>2
  <2>4. open[<<nt, q + 2>>]
    BY <2>3 DEF MoreBegins
  <2>5. CASE q = k
    BY <2>3, <2>5
  <2>6. CASE Splits(text, nt, q + 2, k)
    BY <1>10, <2>4, <2>6 DEF Splits, BothOf
  <2> QED BY <1>7, <2>5, <2>6
<1> QED BY <1>8, <1>9, <1>10 DEF Splits, BothOf

\* What is no list and no value, with nothing in it, begins nowhere.
LEMMA SpansAreNotEmpty ==
  ASSUME NEW text, NEW n \in Nat, n = Len(text), NEW nt \in Nonterminals,
         NEW i \in 1 .. n, NEW k \in 0 .. n, Derives(text, FALSE)[<<nt, i, k>>]
  PROVE  i <= k
<1>1. CASE nt = "value"
  <2> DEFINE d == Derives(text, FALSE)
  <2>1. d[<<"value", i, k>>]
    BY <1>1
  <2>2. ValueSpan(text, d, i, k)
    BY <2>1, StrictSpans
  <2> HIDE DEF d
  <2> QED BY <2>2 DEF ValueSpan
<1>2. CASE nt \in {"members", "elements"}
  <2>1. FirstValue(nt, i) <= k
    BY <1>2, FirstOfSpan
  <2> QED BY <2>1 DEF FirstValue
<1> QED BY <1>1, <1>2 DEF Nonterminals

\* In JSON without {} and [], what derives from a nonterminal can only be
\* continued by a comma and more of the list it is.
LEMMA SpansSplit ==
  ASSUME NEW text, NEW n \in Nat, n = Len(text), NEW nt \in Nonterminals,
         NEW i \in 1 .. n, NEW k \in 1 .. n, Derives(text, FALSE)[<<nt, i, k>>]
  PROVE  Splits(text, nt, i, k)
<1> DEFINE d == Derives(text, FALSE)
           open == Opens(text, FALSE)
           S == {w \in Nat : \A mt \in Nonterminals, a \in 1 .. n, b \in 1 .. n :
                   Weight(mt, a, b) <= w /\ d[<<mt, a, b>>] => Splits(text, mt, a, b)}
<1>1. BothOf(text, d, open)
  BY DEF BothOf
<1>2. \A mt \in Nonterminals, a \in 1 .. n, b \in 0 .. n : d[<<mt, a, b>>] => a <= b
  BY SpansAreNotEmpty
<1> HIDE DEF d, open
<1>3. ASSUME NEW mt \in Nonterminals, NEW a \in 1 .. n, NEW b \in 1 .. n,
             d[<<mt, a, b>>],
             \A lt \in Nonterminals, g \in 1 .. n, h \in 1 .. n :
               Weight(lt, g, h) < Weight(mt, a, b) /\ d[<<lt, g, h>>] =>
                 Splits(text, lt, g, h)
      PROVE  Splits(text, mt, a, b)
  <2>1. a <= b
    BY <1>2, <1>3
  <2>2. CASE mt = "value"
    <3>1. ASSUME NEW lt \in Nonterminals, a < b, d[<<lt, a + 1, b - 1>>]
          PROVE  Splits(text, lt, a + 1, b - 1)
      <4>1. a + 1 \in 1 .. n /\ b - 1 \in 1 .. n
        BY <3>1
      <4>2. Weight(lt, a + 1, b - 1) < Weight(mt, a, b)
        BY <2>2, <3>1 DEF Weight
      <4> QED BY <1>3, <3>1, <4>1, <4>2
    <3> QED BY <1>1, <1>3, <2>1, <2>2, <3>1, ValueSplits
  <2>3. CASE mt \in {"members", "elements"}
    <3>1. ASSUME NEW h \in FirstValue(mt, a) .. b
          PROVE  /\ d[<<"value", FirstValue(mt, a), h>>] =>
                      Splits(text, "value", FirstValue(mt, a), h)
                 /\ h + 2 <= b /\ d[<<mt, h + 2, b>>] => Splits(text, mt, h + 2, b)
      <4>1. /\ FirstValue(mt, a) \in 1 .. n /\ h \in 1 .. n
            /\ a <= FirstValue(mt, a) /\ FirstValue(mt, a) <= h
        BY DEF FirstValue
      <4>2. "value" \in Nonterminals
        BY DEF Nonterminals
      <4>3. Weight("value", FirstValue(mt, a), h) < Weight(mt, a, b)
        BY <2>1, <2>3, <4>1 DEF Weight
      <4>4. ASSUME h + 2 <= b PROVE h + 2 \in 1 .. n /\ Weight(mt, h + 2, b) < Weight(mt, a, b)
        BY <2>1, <2>3, <4>1, <4>4 DEF Weight
      <4> QED BY <1>3, <4>1, <4>2, <4>3, <4>4
    <3> QED BY <1>1, <1>3, <2>3, <3>1, ListSplits
  <2> QED BY <2>2, <2>3 DEF Nonterminals
<1>4. 0 \in S
  <2>1. \A mt \in Nonterminals, a \in 1 .. n, b \in 1 .. n :
          Weight(mt, a, b) <= 0 => ~(a <= b)
    BY DEF Weight
  <2> QED BY <1>2, <2>1
<1>5. ASSUME NEW w \in Nat, w \in S PROVE w + 1 \in S
  <2> SUFFICES ASSUME NEW mt \in Nonterminals, NEW a \in 1 .. n, NEW b \in 1 .. n,
                      Weight(mt, a, b) <= w + 1, d[<<mt, a, b>>]
               PROVE  Splits(text, mt, a, b)
    OBVIOUS
  <2>1. ASSUME NEW lt \in Nonterminals, NEW g \in 1 .. n, NEW h \in 1 .. n,
               Weight(lt, g, h) < Weight(mt, a, b), d[<<lt, g, h>>]
        PROVE  Splits(text, lt, g, h)
    <3>1. Weight(lt, g, h) <= w
      BY <2>1, WeightType
    <3> QED BY <1>5, <2>1, <3>1
  <2> QED BY <1>3, <2>1
<1> HIDE DEF S
<1>6. Weight(nt, i, k) \in S
  <2>1. k \in 0 .. n
    OBVIOUS
  <2>2. Weight(nt, i, k) \in Nat
    BY <2>1, WeightType
  <2> QED BY <1>4, <1>5, <2>2, SetInduction
<1>7. Weight(nt, i, k) <= Weight(nt, i, k) /\ d[<<nt, i, k>>]
  <2>1. Weight(nt, i, k) \in Nat
    BY <1>6 DEF S
  <2>2. d[<<nt, i, k>>]
    BY DEF d
  <2> QED BY <2>1, <2>2
<1> QED BY <1>6, <1>7 DEF S

-----------------------------------------------------------------------------
(* Where the decoder stands in the input, and its verdict.                *)

\* What decode_object and decode_array read, and the brackets around it.
ListOf(kind) == IF kind = "object" THEN "members" ELSE "elements"
Opening(kind) == IF kind = "object" THEN LeftBrace ELSE LeftBracket
Closing(kind) == IF kind = "object" THEN RightBrace ELSE RightBracket

\* text[i..j] is nothing, or a list and a comma.
Separated(E, text, nt, i, j) ==
  \/ i = j + 1
  \/ /\ i < j /\ text[j].type = ValueSeparator
     /\ Derives(text, E)[<<nt, i, j - 1>>]

\* text[i..j] is what a call has read that waits in this phase.
Waits(E, text, phase, nt, i, j) ==
  \/ phase = "value" /\ nt = "elements" /\ Separated(E, text, nt, i, j)
  \/ /\ phase = "value" /\ nt = "members"
     /\ i + 1 <= j /\ text[j - 1].type = "s" /\ text[j].type = NameSeparator
     /\ Separated(E, text, nt, i, j - 2)
  \/ phase = "key" /\ nt = "members" /\ Separated(E, text, nt, i, j)
  \/ /\ phase = "colon" /\ nt = "members"
     /\ i <= j /\ text[j].type = "s" /\ Separated(E, text, nt, i, j - 1)
  \/ phase = "next" /\ i <= j /\ Derives(text, E)[<<nt, i, j>>]

\* at[i] is where the call i began; those below the top wait for its value.
Opened(E, text, stk, at) ==
  /\ at \in [1 .. Len(stk) -> 1 .. Len(text)]
  /\ \A i \in 1 .. Len(stk) : text[at[i]].type = Opening(stk[i].kind)
  /\ Len(stk) > 0 => at[1] = 1
  /\ \A i \in 1 .. Len(stk) - 1 :
       /\ at[i] < at[i + 1]
       /\ Waits(E, text, "value", ListOf(stk[i].kind), at[i] + 1, at[i + 1] - 1)

\* The top call has read up to m and waits in this phase.
AtTop(E, text, stk, phase, at, m) ==
  \/ Len(stk) = 0 /\ phase = "value" /\ m = 0
  \/ /\ Len(stk) > 0 /\ at[Len(stk)] <= m
     /\ Waits(E, text, phase, ListOf(stk[Len(stk)].kind), at[Len(stk)] + 1, m)

Progress(E, text, stk, phase, at) ==
  Opened(E, text, stk, at) /\ AtTop(E, text, stk, phase, at, Len(text))

\* The languages that may be meant: once an array without room was let pass as an
\* empty one, only JSON with {} and [].
LangsOf(l) == IF "noroom" \in l THEN {TRUE} ELSE BOOLEAN
Langs == LangsOf(lenient)

\* The inductive invariant.
Reading ==
  pc \notin Stopped =>
    \E at : \A E \in Langs : Progress(E, read, stack, pc, at)

Accepted == pc = "done" /\ result = "NONE" => IsValue(read, TRUE)

Unfinished ==
  pc = "done" /\ result = "PARTIAL" /\ Last(consumed).type = "end" =>
    IsValuePrefix(read, TRUE)

Verdicts == Reading /\ Accepted /\ Unfinished

-----------------------------------------------------------------------------
(* Texts.                                                                  *)

\* What was read stays what it is when more is read.
LEMMA WaitsKept ==
  ASSUME NEW text, NEW n \in Nat, Len(text) = n,
         NEW more, Len(more) \in Nat, n <= Len(more), SameTypes(text, more, n),
         NEW E \in BOOLEAN, NEW phase, NEW nt \in Nonterminals,
         NEW i \in 1 .. (n + 1), NEW j \in 0 .. n, Waits(E, text, phase, nt, i, j)
  PROVE  Waits(E, more, phase, nt, i, j)
<1>1. \A p \in 1 .. n : text[p].type = more[p].type
  BY DEF SameTypes
<1>2. ASSUME NEW h \in 0 .. n, i <= h, Derives(text, E)[<<nt, i, h>>]
      PROVE  Derives(more, E)[<<nt, i, h>>]
  <2>1. i \in 1 .. n
    BY <1>2
  <2> QED BY <1>2, <2>1, DerivesAgree
<1>3. ASSUME NEW h \in Int, h <= n, Separated(E, text, nt, i, h)
      PROVE  Separated(E, more, nt, i, h)
  <2>1. CASE i = h + 1
    BY <2>1 DEF Separated
  <2>2. CASE /\ i < h /\ text[h].type = ValueSeparator
             /\ Derives(text, E)[<<nt, i, h - 1>>]
    <3>1. h \in 1 .. n /\ h - 1 \in 0 .. n /\ i <= h - 1
      BY <1>3, <2>2
    <3>2. Derives(more, E)[<<nt, i, h - 1>>] /\ more[h].type = ValueSeparator
      BY <1>1, <1>2, <2>2, <3>1
    <3> QED BY <2>2, <3>2 DEF Separated
  <2> QED BY <1>3, <2>1, <2>2 DEF Separated
<1>4. CASE phase = "value" /\ nt = "elements" /\ Separated(E, text, nt, i, j)
  BY <1>3, <1>4 DEF Waits
<1>5. CASE /\ phase = "value" /\ nt = "members"
           /\ i + 1 <= j /\ text[j - 1].type = "s" /\ text[j].type = NameSeparator
           /\ Separated(E, text, nt, i, j - 2)
  <2>1. j - 1 \in 1 .. n /\ j \in 1 .. n /\ j - 2 \in Int /\ j - 2 <= n
    BY <1>5
  <2>2. more[j - 1].type = "s" /\ more[j].type = NameSeparator
    BY <1>1, <1>5, <2>1
  <2>3. Separated(E, more, nt, i, j - 2)
    BY <1>3, <1>5, <2>1
  <2> QED BY <1>5, <2>2, <2>3 DEF Waits
<1>6. CASE phase = "key" /\ nt = "members" /\ Separated(E, text, nt, i, j)
  BY <1>3, <1>6 DEF Waits
<1>7. CASE /\ phase = "colon" /\ nt = "members"
           /\ i <= j /\ text[j].type = "s" /\ Separated(E, text, nt, i, j - 1)
  <2>1. j \in 1 .. n /\ j - 1 \in Int /\ j - 1 <= n
    BY <1>7
  <2>2. more[j].type = "s" /\ Separated(E, more, nt, i, j - 1)
    BY <1>1, <1>3, <1>7, <2>1
  <2> QED BY <1>7, <2>2 DEF Waits
<1>8. CASE phase = "next" /\ i <= j /\ Derives(text, E)[<<nt, i, j>>]
  BY <1>2, <1>8 DEF Waits
<1> QED BY <1>4, <1>5, <1>6, <1>7, <1>8 DEF Waits

LEMMA OpenedKept ==
  ASSUME NEW text, NEW n \in Nat, Len(text) = n,
         NEW more, Len(more) \in Nat, n <= Len(more), SameTypes(text, more, n),
         NEW E \in BOOLEAN, NEW stk, Len(stk) \in Nat, NEW at, Opened(E, text, stk, at)
  PROVE  Opened(E, more, stk, at)
<1>1. at \in [1 .. Len(stk) -> 1 .. n]
  BY DEF Opened
<1>2. at \in [1 .. Len(stk) -> 1 .. Len(more)]
  BY <1>1
<1>3. \A i \in 1 .. Len(stk) : more[at[i]].type = Opening(stk[i].kind)
  BY <1>1 DEF Opened, SameTypes
<1>4. ASSUME NEW i \in 1 .. Len(stk) - 1
      PROVE  Waits(E, more, "value", ListOf(stk[i].kind), at[i] + 1, at[i + 1] - 1)
  <2>1. i \in 1 .. Len(stk) /\ i + 1 \in 1 .. Len(stk)
    OBVIOUS
  <2>2. at[i] \in 1 .. n /\ at[i + 1] \in 1 .. n
    BY <1>1, <2>1
  <2>3. at[i] + 1 \in 1 .. (n + 1) /\ at[i + 1] - 1 \in 0 .. n
    BY <2>2
  <2>4. ListOf(stk[i].kind) \in Nonterminals
    BY DEF ListOf, Nonterminals
  <2>5. Waits(E, text, "value", ListOf(stk[i].kind), at[i] + 1, at[i + 1] - 1)
    BY DEF Opened
  <2> QED BY <2>3, <2>4, <2>5, WaitsKept
<1> QED BY <1>2, <1>3, <1>4 DEF Opened

\* Where the decoder stands does not depend on what the frames hold.
SameKinds(s, t) ==
  Len(t) = Len(s) /\ \A i \in 1 .. Len(s) : t[i].kind = s[i].kind

LEMMA ProgressKinds ==
  ASSUME NEW E, NEW text, NEW s, NEW t, Len(s) \in Nat, SameKinds(s, t), NEW phase, NEW at,
         Progress(E, text, s, phase, at)
  PROVE  Progress(E, text, t, phase, at)
<1>1. Opened(E, text, t, at)
  BY DEF Progress, Opened, SameKinds
<1>2. AtTop(E, text, t, phase, at, Len(text))
  BY DEF Progress, AtTop, SameKinds
<1> QED BY <1>1, <1>2 DEF Progress

-----------------------------------------------------------------------------
(* Reading a value.                                                        *)

\* What decode_value has accepted completes what its caller has read.
LEMMA ListGrows ==
  ASSUME NEW text, NEW n \in Nat, n = Len(text), NEW E \in BOOLEAN,
         NEW nt \in {"members", "elements"}, NEW i \in 1 .. n, NEW m \in 0 .. (n - 1),
         i <= m + 1, Waits(E, text, "value", nt, i, m),
         Derives(text, E)[<<"value", m + 1, n>>]
  PROVE  Derives(text, E)[<<nt, i, n>>]
<1> DEFINE d == Derives(text, E)
<1>1. nt \in Nonterminals /\ n \in 0 .. n
  BY DEF Nonterminals
<1> HIDE DEF d
<1>2. ASSUME NEW h \in 1 .. n
      PROVE  d[<<nt, h, n>>] <=> Derived(text, E, d, nt, h, n)
  BY <1>1, DerivesRule DEF d
<1>3. CASE nt = "elements" /\ Separated(E, text, nt, i, m)
  <2>1. CASE i = m + 1
    <3>1. n \in i .. n /\ d[<<"value", i, n>>] /\ RestSpan(text, d, "elements", n, n)
      BY <2>1 DEF RestSpan, d
    <3>2. ElementsSpan(text, E, d, i, n)
      BY <3>1 DEF ElementsSpan
    <3> QED BY <1>2, <1>3, <3>2 DEF Derived, d
  <2>2. CASE /\ i < m /\ text[m].type = ValueSeparator
             /\ Derives(text, E)[<<nt, i, m - 1>>]
    <3> DEFINE k == m - 1
    <3>1. k \in 1 .. n /\ i <= k /\ k + 2 <= n /\ k + 1 = m /\ k + 2 = m + 1
      BY <2>2
    <3> HIDE DEF k
    <3>2. /\ Derives(text, E)[<<"elements", i, k>>]
          /\ text[k + 1].type = ValueSeparator
          /\ Derives(text, E)[<<"value", k + 2, n>>]
      BY <1>3, <2>2, <3>1 DEF k
    <3>3. n \in 1 .. n
      OBVIOUS
    <3> QED BY <1>3, <3>1, <3>2, <3>3, ElementsGrow
  <2> QED BY <1>3, <2>1, <2>2 DEF Separated
<1>4. CASE /\ nt = "members"
           /\ i + 1 <= m /\ text[m - 1].type = "s" /\ text[m].type = NameSeparator
           /\ Separated(E, text, nt, i, m - 2)
  <2>1. CASE i = m - 1
    <3>1. /\ i + 2 <= n /\ n \in i + 2 .. n /\ d[<<"value", i + 2, n>>]
          /\ RestSpan(text, d, "members", n, n)
          /\ text[i].type = "s" /\ text[i + 1].type = NameSeparator
      BY <1>4, <2>1 DEF RestSpan, d
    <3>2. MembersSpan(text, E, d, i, n)
      BY <3>1 DEF MembersSpan
    <3> QED BY <1>2, <1>4, <3>2 DEF Derived, d
  <2>2. CASE /\ i < m - 2 /\ text[m - 2].type = ValueSeparator
             /\ Derives(text, E)[<<nt, i, m - 3>>]
    <3> DEFINE k == m - 3
    <3>1. /\ k \in 1 .. n /\ i <= k /\ k + 4 <= n
          /\ k + 1 = m - 2 /\ k + 2 = m - 1 /\ k + 3 = m /\ k + 4 = m + 1
      BY <2>2
    <3> HIDE DEF k
    <3>2. /\ Derives(text, E)[<<"members", i, k>>]
          /\ text[k + 1].type = ValueSeparator
          /\ text[k + 2].type = "s" /\ text[k + 3].type = NameSeparator
          /\ Derives(text, E)[<<"value", k + 4, n>>]
      BY <1>4, <2>2, <3>1 DEF k
    <3>3. n \in 1 .. n
      OBVIOUS
    <3> QED BY <1>4, <3>1, <3>2, <3>3, MembersGrow
  <2>3. (m - 2) + 1 = m - 1 /\ (m - 2) - 1 = m - 3
    OBVIOUS
  <2> QED BY <1>4, <2>1, <2>2, <2>3 DEF Separated
<1> QED BY <1>3, <1>4 DEF Waits

\* The top call waited for a value after m tokens, and it was read since.
ValueAfter(E, text, stk, at, m) ==
  /\ m \in 0 .. (Len(text) - 1)
  /\ Opened(E, text, stk, at)
  /\ AtTop(E, text, stk, "value", at, m)
  /\ Derives(text, E)[<<"value", m + 1, Len(text)>>]

\* Then the caller waits for what comes next, and when there is no caller the
\* text is that value.
LEMMA ValueRead ==
  ASSUME NEW text, Len(text) \in Nat, text # << >>, NEW E \in BOOLEAN,
         NEW stk, Len(stk) \in Nat, NEW at, NEW m, ValueAfter(E, text, stk, at, m)
  PROVE  /\ Len(stk) = 0 => IsValue(text, E)
         /\ Len(stk) > 0 => Progress(E, text, stk, "next", at)
<1> DEFINE n == Len(text)
<1>0. /\ m \in 0 .. (n - 1) /\ n \in Nat
      /\ Opened(E, text, stk, at) /\ AtTop(E, text, stk, "value", at, m)
      /\ Derives(text, E)[<<"value", m + 1, n>>]
  BY DEF ValueAfter
<1>1. CASE Len(stk) = 0
  <2>1. m = 0
    BY <1>0, <1>1 DEF AtTop
  <2> QED BY <1>0, <1>1, <2>1 DEF IsValue
<1>2. CASE Len(stk) > 0
  <2> DEFINE b == at[Len(stk)]
             nt == ListOf(stk[Len(stk)].kind)
  <2>1. b <= m /\ Waits(E, text, "value", nt, b + 1, m)
    BY <1>0, <1>2 DEF AtTop
  <2>2. b \in 1 .. n
    BY <1>0, <1>2 DEF Opened
  <2>3. nt \in {"members", "elements"} /\ b + 1 \in 1 .. n /\ b + 1 <= m + 1 /\ b + 1 <= n
    BY <1>0, <2>1, <2>2 DEF ListOf
  <2> HIDE DEF b, nt, n
  <2>n. n = Len(text)
    BY DEF n
  <2>4. Derives(text, E)[<<nt, b + 1, n>>]
    BY <1>0, <2>n, <2>1, <2>3, ListGrows
  <2>5. Waits(E, text, "next", nt, b + 1, n)
    BY <2>3, <2>4 DEF Waits
  <2>6. b <= n
    BY <2>2
  <2> QED BY <1>0, <1>2, <2>5, <2>6 DEF Progress, AtTop, b, nt, n
<1> QED BY <1>1, <1>2

\* A scalar is a value.
LEMMA ScalarRead ==
  ASSUME NEW text, NEW n \in Nat, n = Len(text), n > 0, NEW E \in BOOLEAN,
         text[n].type \in ScalarTypes
  PROVE  Derives(text, E)[<<"value", n, n>>]
<1>1. n \in 1 .. n /\ n \in 0 .. n /\ "value" \in Nonterminals
  BY DEF Nonterminals
<1>2. ValueSpan(text, Derives(text, E), n, n)
  BY DEF ValueSpan
<1>3. Derived(text, E, Derives(text, E), "value", n, n)
  BY <1>2 DEF Derived
<1> QED BY <1>1, <1>3, DerivesRule

\* A call more, of this kind.
Pushed(stk, more, kind) ==
  /\ Len(more) = Len(stk) + 1 /\ more[Len(stk) + 1].kind = kind
  /\ \A i \in 1 .. Len(stk) : more[i].kind = stk[i].kind

\* The positions of a call less.
Shortened(at, h) == [i \in 1 .. h |-> at[i]]

\* The closing bracket makes a value of the list the top call has read.
LEMMA CloseRead ==
  ASSUME NEW text, Len(text) \in Nat, NEW E \in BOOLEAN,
         NEW rest, Len(rest) \in Nat, NEW stk, NEW kind \in {"object", "array"},
         Pushed(rest, stk, kind),
         NEW at, Opened(E, text, stk, at), at[Len(stk)] < Len(text),
         text[Len(text)].type = Closing(kind),
         Derives(text, E)[<<ListOf(kind), at[Len(stk)] + 1, Len(text) - 1>>]
  PROVE  ValueAfter(E, text, rest, Shortened(at, Len(rest)), at[Len(stk)] - 1)
<1> DEFINE n == Len(text)
           h == Len(rest)
           p == at[Len(stk)]
           b == Shortened(at, h)
           m == p - 1
<1>0. /\ n \in Nat /\ n = Len(text) /\ text[n].type = Closing(kind)
      /\ h \in Nat /\ Len(rest) = h /\ Len(stk) = h + 1 /\ p = at[h + 1] /\ p < n
      /\ stk[h + 1].kind = kind /\ Derives(text, E)[<<ListOf(kind), p + 1, n - 1>>]
      /\ \A i \in 1 .. h : rest[i].kind = stk[i].kind
  BY DEF Pushed
<1> HIDE DEF n, h, p
<1>1. at \in [1 .. (h + 1) -> 1 .. n] /\ h + 1 \in 1 .. (h + 1)
  BY <1>0 DEF Opened
<1>2. p \in 1 .. n /\ m \in 0 .. (n - 1) /\ m + 1 = p /\ p < n
  BY <1>0, <1>1
<1>3. text[p].type = Opening(kind)
  BY <1>0, <1>1 DEF Opened
<1>4. Derives(text, E)[<<"value", p, n>>]
  <2>1. ValueSpan(text, Derives(text, E), p, n)
    BY <1>0, <1>2, <1>3 DEF ValueSpan, Opening, Closing, ListOf
  <2>2. Derived(text, E, Derives(text, E), "value", p, n)
    BY <1>0, <2>1 DEF Derived
  <2>3. "value" \in Nonterminals /\ n \in 0 .. n
    BY <1>0 DEF Nonterminals
  <2> QED BY <1>0, <1>2, <2>2, <2>3, DerivesRule
<1>5. Opened(E, text, rest, b)
  <2>1. b \in [1 .. h -> 1 .. n]
    BY <1>0, <1>1 DEF Shortened
  <2>2. \A i \in 1 .. h : b[i] = at[i] /\ i \in 1 .. (h + 1)
    BY <1>0 DEF Shortened
  <2>3. \A i \in 1 .. h : text[b[i]].type = Opening(rest[i].kind)
    BY <1>0, <2>2 DEF Opened
  <2>4. ASSUME h > 0 PROVE b[1] = 1
    <3>1. 1 \in 1 .. h /\ Len(stk) > 0
      BY <1>0, <2>4
    <3>2. at[1] = 1
      BY <3>1 DEF Opened
    <3> QED BY <2>2, <3>1, <3>2
  <2>5. ASSUME NEW i \in 1 .. h - 1
        PROVE  /\ b[i] < b[i + 1]
               /\ Waits(E, text, "value", ListOf(rest[i].kind), b[i] + 1, b[i + 1] - 1)
    <3>1. i \in 1 .. h /\ i + 1 \in 1 .. h /\ i \in 1 .. Len(stk) - 1
      BY <1>0
    <3> HIDE DEF b
    <3> QED BY <1>0, <2>2, <3>1 DEF Opened
  <2> QED BY <1>0, <2>1, <2>3, <2>4, <2>5 DEF Opened
<1>6. AtTop(E, text, rest, "value", b, m)
  <2>1. CASE h = 0
    <3>1. Len(stk) > 0 /\ h + 1 = 1
      BY <1>0, <2>1
    <3>2. at[1] = 1
      BY <3>1 DEF Opened
    <3>3. m = 0 /\ Len(rest) = 0
      BY <1>0, <2>1, <3>1, <3>2
    <3> QED BY <3>3 DEF AtTop
  <2>2. CASE h > 0
    <3>1. h \in 1 .. h /\ h \in 1 .. Len(stk) - 1
      BY <1>0, <2>2
    <3>2. at[h] < p /\ Waits(E, text, "value", ListOf(stk[h].kind), at[h] + 1, m)
      BY <1>0, <3>1 DEF Opened
    <3>3. at[h] \in 1 .. n
      BY <1>0, <1>1, <3>1
    <3>a. rest[h].kind = stk[h].kind
      BY <1>0, <3>1
    <3>b. at[h] < p /\ m = p - 1 /\ p \in Int /\ at[h] \in Int
      BY <1>2, <3>2, <3>3
    <3>4. rest[h].kind = stk[h].kind /\ at[h] <= m
      BY <3>a, <3>b
    <3>5. b[h] = at[h]
      BY <3>1 DEF Shortened
    <3> HIDE DEF b, m
    <3> QED BY <1>0, <2>2, <3>2, <3>4, <3>5 DEF AtTop
  <2> QED BY <1>0, <2>1, <2>2
<1> QED BY <1>2, <1>4, <1>5, <1>6 DEF ValueAfter, n, h, p

\* The positions of a call more.
Extended(at, h, n) == [i \in 1 .. (h + 1) |-> IF i = h + 1 THEN n ELSE at[i]]

\* What a new call waits for.
Starts(phase, kind) ==
  \/ phase = "key" /\ kind = "object"
  \/ phase = "value" /\ kind = "array"

\* An opening bracket makes a call.
LEMMA OpenRead ==
  ASSUME NEW text, NEW k \in Nat, Len(text) = k + 1, NEW E \in BOOLEAN,
         NEW stk, Len(stk) \in Nat, NEW at,
         Opened(E, text, stk, at), AtTop(E, text, stk, "value", at, k),
         NEW more, NEW kind, Pushed(stk, more, kind), text[k + 1].type = Opening(kind),
         NEW phase, Starts(phase, kind)
  PROVE  Progress(E, text, more, phase, Extended(at, Len(stk), k + 1))
<1> DEFINE h == Len(stk)
           n == k + 1
<1>0. /\ h \in Nat /\ n \in Nat /\ n = k + 1 /\ Len(text) = n /\ Len(stk) = h
      /\ Len(more) = h + 1 /\ more[h + 1].kind = kind
      /\ \A i \in 1 .. h : more[i].kind = stk[i].kind
      /\ text[n].type = Opening(kind)
  BY DEF Pushed
<1> HIDE DEF h, n
<1> DEFINE b == Extended(at, h, n)
<1>1. at \in [1 .. h -> 1 .. n]
  BY <1>0 DEF Opened
<1>2. b \in [1 .. (h + 1) -> 1 .. n]
  BY <1>0, <1>1 DEF Extended
<1>3. b[h + 1] = n /\ \A i \in 1 .. h : b[i] = at[i]
  BY <1>0 DEF Extended
<1>4. \A i \in 1 .. (h + 1) : i \in 1 .. h \/ i = h + 1
  BY <1>0
<1> HIDE DEF b
<1>5. \A i \in 1 .. (h + 1) : text[b[i]].type = Opening(more[i].kind)
  BY <1>0, <1>3, <1>4 DEF Opened
<1>6. b[1] = 1
  <2>1. CASE h = 0
    <3>1. Len(stk) = 0 /\ ~(Len(stk) > 0) /\ h + 1 = 1
      BY <1>0, <2>1
    <3>2. k = 0
      BY <1>0, <3>1 DEF AtTop
    <3>3. n = 1
      BY <1>0, <3>2
    <3> QED BY <1>0, <1>3, <3>1, <3>3
  <2>2. CASE h > 0
    BY <1>0, <1>3, <2>2 DEF Opened
  <2> QED BY <1>0, <2>1, <2>2
<1>7. ASSUME NEW i \in 1 .. (h + 1) - 1
      PROVE  /\ b[i] < b[i + 1]
             /\ Waits(E, text, "value", ListOf(more[i].kind), b[i] + 1, b[i + 1] - 1)
  <2>1. CASE i < h
    <3>1. i \in 1 .. h /\ i + 1 \in 1 .. h /\ i \in 1 .. h - 1
      BY <1>0, <2>1
    <3> QED BY <1>0, <1>3, <3>1 DEF Opened
  <2>2. CASE i = h
    <3>1. at[h] <= k /\ Waits(E, text, "value", ListOf(stk[h].kind), at[h] + 1, k)
      BY <1>0, <2>2 DEF AtTop
    <3>2. h \in 1 .. h /\ at[h] \in 1 .. n
      BY <1>0, <1>1, <2>2
    <3>3. b[i + 1] = n /\ b[i] = at[h] /\ n - 1 = k
      BY <1>0, <1>3, <2>2, <3>2
    <3> QED BY <1>0, <2>2, <3>1, <3>2, <3>3
  <2> QED BY <1>0, <2>1, <2>2
<1>8. Opened(E, text, more, b)
  BY <1>0, <1>2, <1>5, <1>6, <1>7 DEF Opened
<1>9. Waits(E, text, phase, ListOf(more[h + 1].kind), n + 1, n)
  BY <1>0 DEF Waits, Separated, ListOf, Starts
<1>10. AtTop(E, text, more, phase, b, n)
  BY <1>0, <1>3, <1>9 DEF AtTop
<1> QED BY <1>0, <1>8, <1>10 DEF Progress, b, h, n

-----------------------------------------------------------------------------
(* What is read while the decoder has not decided can be completed.        *)

\* The end of the text can be continued to anything.
LEMMA EndIsOpen ==
  ASSUME NEW text, Len(text) \in Nat, NEW E \in BOOLEAN,
         NEW nt \in Nonterminals, NEW i \in 1 .. (Len(text) + 3), i > Len(text)
  PROVE  Opens(text, E)[<<nt, i>>]
BY OpensRule DEF Begins

LEMMA SeparatedOpen ==
  ASSUME NEW text, NEW n \in Nat, n = Len(text), NEW E \in BOOLEAN,
         NEW nt \in {"members", "elements"}, NEW i \in 1 .. (n + 1), NEW m \in 0 .. n,
         Separated(E, text, nt, i, m), Opens(text, E)[<<nt, m + 1>>]
  PROVE  Opens(text, E)[<<nt, i>>]
<1>1. CASE i = m + 1
  BY <1>1
<1>2. CASE /\ i < m /\ text[m].type = ValueSeparator
           /\ Derives(text, E)[<<nt, i, m - 1>>]
  <2> DEFINE k == m - 1
  <2>1. k \in 1 .. n /\ i \in 1 .. n /\ i <= k /\ k + 1 = m /\ k + 2 = m + 1 /\ k < n
    BY <1>2
  <2>2. Derives(text, E)[<<nt, i, k>>]
    BY <1>2
  <2> HIDE DEF k
  <2>3. MoreBegins(text, Opens(text, E), nt, k)
    BY <1>2, <2>1 DEF MoreBegins
  <2> QED BY <2>1, <2>2, <2>3, MembersOpen, ElementsOpen
<1> QED BY <1>1, <1>2 DEF Separated

\* A list whose next value can be completed can be completed.
LEMMA WaitsOpen ==
  ASSUME NEW text, NEW n \in Nat, n = Len(text), NEW E \in BOOLEAN,
         NEW nt \in {"members", "elements"}, NEW i \in 1 .. (n + 1), NEW m \in 0 .. n,
         Waits(E, text, "value", nt, i, m), Opens(text, E)[<<"value", m + 1>>]
  PROVE  Opens(text, E)[<<nt, i>>]
<1> DEFINE open == Opens(text, E)
           d == Derives(text, E)
<1>0. \A mt \in Nonterminals : \A h \in 1 .. (n + 1) :
        open[<<mt, h>>] <=> Begins(text, d, open, mt, h)
  <2> SUFFICES ASSUME NEW mt \in Nonterminals, NEW h \in 1 .. (n + 1)
               PROVE  open[<<mt, h>>] <=> Begins(text, d, open, mt, h)
    OBVIOUS
  <2>1. h \in 1 .. (Len(text) + 3)
    OBVIOUS
  <2> QED BY <2>1, OpensRule
<1> HIDE DEF open, d
<1>1. CASE nt = "elements" /\ Separated(E, text, nt, i, m)
  <2>1. m + 1 \in 1 .. (n + 1) /\ "elements" \in Nonterminals
    BY DEF Nonterminals
  <2>2. Begins(text, d, open, "elements", m + 1)
    BY DEF Begins, ElementsBegin, open
  <2>3. Opens(text, E)[<<"elements", m + 1>>]
    BY <1>0, <2>1, <2>2 DEF open
  <2> QED BY <1>1, <2>3, SeparatedOpen
<1>2. CASE /\ nt = "members"
           /\ i + 1 <= m /\ text[m - 1].type = "s" /\ text[m].type = NameSeparator
           /\ Separated(E, text, nt, i, m - 2)
  <2> DEFINE k == m - 2
  <2>1. /\ k + 1 \in 1 .. (n + 1) /\ "members" \in Nonterminals /\ k \in 0 .. n
        /\ m - 1 = k + 1 /\ m = (k + 1) + 1 /\ m + 1 = (k + 1) + 2
    BY <1>2 DEF Nonterminals
  <2>2. text[k + 1].type = "s" /\ text[(k + 1) + 1].type = NameSeparator
    BY <1>2, <2>1
  <2>3. Separated(E, text, nt, i, k)
    BY <1>2
  <2> HIDE DEF k
  <2>4. open[<<"value", (k + 1) + 2>>]
    BY <2>1 DEF open
  <2>5. Begins(text, d, open, "members", k + 1)
    BY <2>2, <2>4 DEF Begins, MembersBegin
  <2>6. Opens(text, E)[<<"members", k + 1>>]
    BY <1>0, <2>1, <2>5 DEF open
  <2> QED BY <1>2, <2>1, <2>3, <2>6, SeparatedOpen
<1> QED BY <1>1, <1>2 DEF Waits

\* A list can be completed wherever its call waits.
LEMMA TopOpen ==
  ASSUME NEW text, NEW n \in Nat, n = Len(text), NEW E \in BOOLEAN, NEW phase,
         NEW nt \in {"members", "elements"}, NEW i \in 1 .. (n + 1),
         Waits(E, text, phase, nt, i, n)
  PROVE  Opens(text, E)[<<nt, i>>]
<1>1. nt \in Nonterminals /\ "value" \in Nonterminals /\ "members" \in Nonterminals
      /\ n + 1 \in 1 .. (n + 3) /\ n + 1 > n /\ n \in 0 .. n
  BY DEF Nonterminals
<1>2. Opens(text, E)[<<nt, n + 1>>] /\ Opens(text, E)[<<"value", n + 1>>]
  BY <1>1, EndIsOpen
<1>3. CASE phase = "value"
  BY <1>1, <1>2, <1>3, WaitsOpen
<1>4. CASE phase = "key" /\ nt = "members" /\ Separated(E, text, nt, i, n)
  BY <1>1, <1>2, <1>4, SeparatedOpen
<1>5. CASE /\ phase = "colon" /\ nt = "members"
           /\ i <= n /\ text[n].type = "s" /\ Separated(E, text, nt, i, n - 1)
  <2> DEFINE k == n - 1
  <2>1. k \in 0 .. n /\ k + 1 = n /\ n \in 1 .. (n + 3)
    BY <1>5
  <2>2. Begins(text, Derives(text, E), Opens(text, E), "members", n)
    BY <1>5 DEF Begins, MembersBegin
  <2>3. Opens(text, E)[<<"members", n>>]
    BY <1>1, <2>1, <2>2, OpensRule
  <2>4. Separated(E, text, nt, i, k)
    BY <1>5
  <2> HIDE DEF k
  <2>5. Opens(text, E)[<<nt, k + 1>>]
    BY <1>5, <2>1, <2>3
  <2> QED BY <2>1, <2>4, <2>5, SeparatedOpen
<1>6. CASE phase = "next" /\ i <= n /\ Derives(text, E)[<<nt, i, n>>]
  <2>1. i \in 1 .. n /\ n \in 1 .. n
    BY <1>6
  <2> QED BY <1>6, <2>1, MembersOpen, ElementsOpen
<1> QED BY <1>3, <1>4, <1>5, <1>6 DEF Waits

\* So can the value its opening bracket begins.
LEMMA BracketOpen ==
  ASSUME NEW text, NEW n \in Nat, n = Len(text), NEW E \in BOOLEAN,
         NEW p \in 1 .. n, NEW kind, text[p].type = Opening(kind),
         Opens(text, E)[<<ListOf(kind), p + 1>>]
  PROVE  Opens(text, E)[<<"value", p>>]
<1>1. ValueBegins(text, Derives(text, E), Opens(text, E), p)
  BY DEF ValueBegins, Opening, ListOf
<1>2. Begins(text, Derives(text, E), Opens(text, E), "value", p)
  BY <1>1 DEF Begins
<1>3. "value" \in Nonterminals /\ p \in 1 .. (n + 3)
  BY DEF Nonterminals
<1> QED BY <1>2, <1>3, OpensRule

\* And so can the whole text: by induction over the calls, from the top down.
LEMMA ProgressIsPrefix ==
  ASSUME NEW text, NEW n \in Nat, n = Len(text), NEW E \in BOOLEAN,
         NEW stk, NEW h \in Nat, h = Len(stk), NEW phase, NEW at,
         Progress(E, text, stk, phase, at)
  PROVE  IsValuePrefix(text, E)
<1>1. Opened(E, text, stk, at) /\ AtTop(E, text, stk, phase, at, n)
  BY DEF Progress
<1>2. at \in [1 .. h -> 1 .. n]
  BY <1>1 DEF Opened
<1>3. CASE h = 0
  <2>1. n = 0
    BY <1>1, <1>3 DEF AtTop
  <2>2. "value" \in Nonterminals /\ 1 \in 1 .. (n + 3) /\ 1 > n
    BY <2>1 DEF Nonterminals
  <2> QED BY <2>2, EndIsOpen DEF IsValuePrefix
<1>4. CASE h > 0
  <2> DEFINE S == {j \in Nat : \A i \in 1 .. h : i + j = h => Opens(text, E)[<<"value", at[i]>>]}
  <2>0. \A i \in 1 .. h : /\ at[i] \in 1 .. n /\ at[i] + 1 \in 1 .. (n + 1)
                          /\ text[at[i]].type = Opening(stk[i].kind)
                          /\ ListOf(stk[i].kind) \in {"members", "elements"}
    BY <1>1, <1>2 DEF Opened, ListOf
  <2>1. 0 \in S
    <3> SUFFICES ASSUME NEW i \in 1 .. h, i = h PROVE Opens(text, E)[<<"value", at[i]>>]
      OBVIOUS
    <3>1. Waits(E, text, phase, ListOf(stk[i].kind), at[i] + 1, n)
      BY <1>1, <1>4 DEF AtTop
    <3> DEFINE a == at[i] + 1
               nt == ListOf(stk[i].kind)
    <3>2. a \in 1 .. (n + 1) /\ nt \in {"members", "elements"}
      BY <2>0
    <3> HIDE DEF a, nt, S
    <3>3. Opens(text, E)[<<nt, a>>]
      BY <3>1, <3>2, TopOpen DEF a, nt
    <3> QED BY <2>0, <3>3, BracketOpen DEF a, nt
  <2>2. ASSUME NEW j \in Nat, j \in S PROVE j + 1 \in S
    <3> SUFFICES ASSUME NEW i \in 1 .. h, i + (j + 1) = h
                 PROVE  Opens(text, E)[<<"value", at[i]>>]
      OBVIOUS
    <3>1. i + 1 \in 1 .. h /\ (i + 1) + j = h /\ i \in 1 .. Len(stk) - 1
      OBVIOUS
    <3>2. Opens(text, E)[<<"value", at[i + 1]>>]
      BY <2>2, <3>1
    <3> DEFINE m == at[i + 1] - 1
    <3>3. m \in 0 .. n /\ m + 1 = at[i + 1]
      BY <2>0, <3>1
    <3>4. Waits(E, text, "value", ListOf(stk[i].kind), at[i] + 1, m)
      BY <1>1, <3>1 DEF Opened
    <3> HIDE DEF m, S
    <3>5. Opens(text, E)[<<"value", m + 1>>]
      BY <3>2, <3>3
    <3>6. Opens(text, E)[<<ListOf(stk[i].kind), at[i] + 1>>]
      BY <2>0, <3>3, <3>4, <3>5, WaitsOpen
    <3> QED BY <2>0, <3>6, BracketOpen
  <2> HIDE DEF S
  <2>3. h - 1 \in S
    <3>1. h - 1 \in Nat
      BY <1>4
    <3> QED BY <2>1, <2>2, <3>1, SetInduction
  <2>4. 1 \in 1 .. h /\ 1 + (h - 1) = h
    BY <1>4
  <2>5. Opens(text, E)[<<"value", at[1]>>]
    BY <2>3, <2>4 DEF S
  <2>6. at[1] = 1
    BY <1>1, <1>4 DEF Opened
  <2> QED BY <2>5, <2>6 DEF IsValuePrefix
<1> QED BY <1>3, <1>4

-----------------------------------------------------------------------------
(* Steps.                                                                  *)

\* JSON with {} and [] is always meant, and a step only takes languages away.
LEMMA LangsType ==
  /\ TRUE \in Langs /\ Langs \subseteq BOOLEAN
  /\ TRUE \in Langs' /\ Langs' \subseteq BOOLEAN
BY DEF Langs, LangsOf

LEMMA FewerLangs == [Next]_vars => Langs' \subseteq Langs
<1> SUFFICES ASSUME [Next]_vars PROVE lenient \subseteq lenient'
  BY DEF Langs, LangsOf
<1>1. CASE OpenObject
  BY <1>1 DEF OpenObject, Mistyped
<1>2. CASE OpenArray
  BY <1>2 DEF OpenArray, Mistyped
<1>3. CASE UNCHANGED lenient
  BY <1>3
<1> QED
  BY <1>1, <1>2, <1>3
  DEF Next, vars, DecodeNull, DecodeBool, DecodeString, DecodeNumber, RefuseToken,
      ObjectKey, ObjectColon, ObjectNext, ArrayNext, LexError, Terminated

\* The next token is read; what was read before it stays what it is.
LEMMA ReadOn ==
  ASSUME TypeOK, NEW tok \in Tokens \cup {Bracket}, read' = Append(read, tok)
  PROVE  LET n == Len(read) IN
         /\ n \in Nat /\ Len(read') = n + 1 /\ read' # << >>
         /\ read'[n + 1] = tok
         /\ SameTypes(read, read', n)
<1> DEFINE n == Len(read)
<1>1. read \in Seq(Tokens \cup {Bracket}) /\ n \in Nat
  BY DEF TypeOK
<1>2. /\ Len(read') = n + 1 /\ read' # << >> /\ read'[n + 1] = tok
      /\ \A i \in 1 .. n : read'[i] = read[i]
  BY <1>1
<1>3. SameTypes(read, read', n)
  BY <1>2 DEF SameTypes
<1> QED BY <1>1, <1>2, <1>3

\* So it does when an opening bracket is read with its closing one.
LEMMA ReadTwo ==
  ASSUME TypeOK, NEW tok \in Tokens, read' = Append(Append(read, tok), Bracket)
  PROVE  LET n == Len(read) IN
         /\ n \in Nat /\ Len(read') = n + 2 /\ read' # << >>
         /\ read'[n + 1] = tok /\ read'[n + 2] = Bracket
         /\ SameTypes(read, read', n)
<1> DEFINE n == Len(read)
           one == Append(read, tok)
<1>1. read \in Seq(Tokens \cup {Bracket}) /\ n \in Nat
  BY DEF TypeOK
<1>2. /\ one \in Seq(Tokens \cup {Bracket}) /\ Len(one) = n + 1 /\ one[n + 1] = tok
      /\ \A i \in 1 .. n : one[i] = read[i]
  BY <1>1
<1> HIDE DEF one
<1>3. read' = Append(one, Bracket)
  BY DEF one
<1>4. /\ Len(read') = n + 2 /\ read' # << >> /\ read'[n + 2] = Bracket
      /\ \A i \in 1 .. (n + 1) : read'[i] = one[i]
  BY <1>1, <1>2, <1>3
<1>5. read'[n + 1] = tok /\ \A i \in 1 .. n : read'[i] = read[i]
  BY <1>1, <1>2, <1>4
<1>6. SameTypes(read, read', n)
  BY <1>5 DEF SameTypes
<1> QED BY <1>1, <1>4, <1>5, <1>6

\* The token just taken from the input.
LEMMA TakenLast ==
  ASSUME TypeOK, NEW tok \in Tokens \cup Faults, consumed' = Append(consumed, tok)
  PROVE  Last(consumed') = tok /\ consumed' # << >>
<1>1. consumed \in Seq(Tokens \cup Faults) /\ Len(consumed) \in Nat
  BY DEF TypeOK
<1>2. /\ Len(consumed') = Len(consumed) + 1 /\ consumed'[Len(consumed) + 1] = tok
      /\ consumed' # << >>
  BY <1>1
<1> QED BY <1>2 DEF Last

\* Where the decoder stood before it read on.
LEMMA StoodThere ==
  ASSUME IInv, Len(read') \in Nat, Len(read) <= Len(read'),
         SameTypes(read, read', Len(read)),
         NEW E \in BOOLEAN, NEW at, Progress(E, read, stack, pc, at)
  PROVE  /\ Opened(E, read', stack, at)
         /\ AtTop(E, read', stack, pc, at, Len(read))
<1> DEFINE n == Len(read)
<1>1. TypeOK /\ Len(stack) \in Nat
  BY DEF IInv, TypeOK
<1>2. n \in Nat /\ Len(read') \in Nat /\ n <= Len(read') /\ SameTypes(read, read', n)
  BY <1>1 DEF TypeOK
<1>3. Opened(E, read, stack, at) /\ AtTop(E, read, stack, pc, at, n)
  BY DEF Progress
<1>4. Opened(E, read', stack, at)
  BY <1>1, <1>2, <1>3, OpenedKept
<1>5. CASE Len(stack) = 0
  BY <1>3, <1>4, <1>5 DEF AtTop
<1>6. CASE Len(stack) > 0
  <2> DEFINE b == at[Len(stack)]
             nt == ListOf(stack[Len(stack)].kind)
  <2>1. b <= n /\ Waits(E, read, pc, nt, b + 1, n)
    BY <1>3, <1>6 DEF AtTop
  <2>2. b \in 1 .. n
    BY <1>1, <1>3, <1>6 DEF Opened
  <2>3. nt \in Nonterminals /\ b + 1 \in 1 .. (n + 1) /\ n \in 0 .. n
    BY <1>2, <2>2 DEF ListOf, Nonterminals
  <2> HIDE DEF b, nt, n
  <2>4. Waits(E, read', pc, nt, b + 1, n)
    BY <1>2, <2>1, <2>3, WaitsKept DEF n
  <2> QED BY <1>4, <1>6, <2>1, <2>4 DEF AtTop, b, nt, n
<1> QED BY <1>1, <1>5, <1>6

LEMMA StillThere ==
  ASSUME IInv, NEW tok \in Tokens \cup {Bracket}, read' = Append(read, tok),
         NEW E \in BOOLEAN, NEW at, Progress(E, read, stack, pc, at)
  PROVE  /\ Opened(E, read', stack, at)
         /\ AtTop(E, read', stack, pc, at, Len(read))
<1>1. /\ Len(read) \in Nat /\ Len(read') = Len(read) + 1
      /\ SameTypes(read, read', Len(read))
  BY ReadOn DEF IInv
<1> QED BY <1>1, StoodThere

\* A value was read and its caller goes on.
LEMMA ReturnVerdicts ==
  ASSUME NEW stk \in Seq(Frames), NEW mm, Return(stk, mm),
         Len(read') \in Nat, read' # << >>, NEW at, NEW m,
         \A E \in Langs' : ValueAfter(E, read', stk, at, m)
  PROVE  Reading' /\ Accepted' /\ Unfinished'
<1>1. Len(stk) \in Nat
  OBVIOUS
<1>2. ASSUME NEW E \in Langs'
      PROVE  /\ Len(stk) = 0 => IsValue(read', E)
             /\ Len(stk) > 0 => Progress(E, read', stk, "next", at)
  BY <1>1, LangsType, ValueRead
<1>3. CASE stk = << >>
  <2>1. pc' = "done" /\ result' = "NONE" /\ Len(stk) = 0
    BY <1>3 DEF Return
  <2>2. IsValue(read', TRUE)
    BY <1>2, <2>1, LangsType
  <2> QED BY <2>1, <2>2 DEF Reading, Accepted, Unfinished, Stopped
<1>4. CASE stk # << >>
  <2>1. pc' = "next" /\ Len(stk) > 0
    BY <1>4 DEF Return
  <2>2. SameKinds(stk, stack')
    <3>1. Len(stk) \in 1 .. Len(stk) /\ stk[Len(stk)] \in Frames
      BY <2>1
    <3> DEFINE f == stk[Len(stk)]
               a == [f EXCEPT !.attr = 0]
               c == [f EXCEPT !.count = f.count + 1]
    <3>2. a.kind = f.kind /\ c.kind = f.kind
      BY <3>1 DEF Frames
    <3>3. stack' = [stk EXCEPT ![Len(stk)] = a] \/ stack' = [stk EXCEPT ![Len(stk)] = c]
      BY <1>4, <3>1 DEF Return, Last
    <3> HIDE DEF a, c
    <3>4. ASSUME NEW g, g.kind = f.kind, stack' = [stk EXCEPT ![Len(stk)] = g]
          PROVE  SameKinds(stk, stack')
      <4>1. Len(stack') = Len(stk) /\ DOMAIN stack' = DOMAIN stk
        BY <3>4
      <4>2. \A i \in 1 .. Len(stk) : stack'[i] = IF i = Len(stk) THEN g ELSE stk[i]
        BY <3>4
      <4> QED BY <3>4, <4>1, <4>2 DEF SameKinds
    <3> QED BY <3>2, <3>3, <3>4
  <2>3. \A E \in Langs' : Progress(E, read', stack', "next", at)
    BY <1>1, <1>2, <2>1, <2>2, ProgressKinds
  <2> QED BY <2>1, <2>3 DEF Reading, Accepted, Unfinished
<1> QED BY <1>3, <1>4

\* An error that is not PARTIAL claims nothing of the kind.
LEMMA FailVerdicts ==
  ASSUME NEW err, Fail(err), err # "NONE", err # "PARTIAL"
  PROVE  Reading' /\ Accepted' /\ Unfinished'
BY DEF Fail, Reading, Accepted, Unfinished, Stopped

\* The decoder goes on, and knows where it stands.
LEMMA GoOn ==
  ASSUME pc' \notin Stopped, NEW at,
         \A E \in Langs' : Progress(E, read', stack', pc', at)
  PROVE  Reading' /\ Accepted' /\ Unfinished'
BY DEF Reading, Accepted, Unfinished, Stopped

\* decode_value has accepted a scalar.
LEMMA ScalarVerdicts ==
  ASSUME IInv, Reading, Langs' \subseteq Langs, pc = "value",
         NEW tok \in Tokens \cup {Bracket}, read' = Append(read, tok), tok.type \in ScalarTypes,
         NEW mm, Return(stack, mm)
  PROVE  Reading' /\ Accepted' /\ Unfinished'
<1> DEFINE n == Len(read)
<1>1. TypeOK /\ stack \in Seq(Frames)
  BY DEF IInv, TypeOK
<1>2. /\ n \in Nat /\ Len(read') = n + 1 /\ read' # << >>
      /\ read'[n + 1] = tok
  BY <1>1, ReadOn
<1>3. PICK at : \A E \in Langs' : E \in BOOLEAN /\ Progress(E, read, stack, pc, at)
  BY LangsType DEF Reading, Stopped
<1>4. ASSUME NEW E \in Langs'
      PROVE  /\ Opened(E, read', stack, at)
             /\ AtTop(E, read', stack, "value", at, n)
  BY <1>3, StillThere
<1>5. ASSUME NEW E \in Langs' PROVE ValueAfter(E, read', stack, at, n)
  <2> DEFINE l == n + 1
  <2>1. /\ l \in Nat /\ l = Len(read') /\ l > 0
        /\ read'[l].type \in ScalarTypes
    BY <1>2
  <2> HIDE DEF l
  <2>2. Derives(read', E)[<<"value", l, l>>]
    BY <1>3, <2>1, ScalarRead
  <2>3. l = n + 1 /\ n \in 0 .. (Len(read') - 1)
    BY <1>2 DEF l
  <2> HIDE DEF n
  <2>4. Derives(read', E)[<<"value", n + 1, Len(read')>>]
    BY <2>1, <2>2, <2>3
  <2> QED BY <1>4, <2>3, <2>4 DEF ValueAfter
<1>6. Len(read') \in Nat /\ read' # << >>
  BY <1>2
<1> HIDE DEF n
<1>7. \A E \in Langs' : ValueAfter(E, read', stack, at, n)
  BY <1>5
<1> QED BY <1>1, <1>6, <1>7, ReturnVerdicts

LEMMA NullVerdicts ==
  ASSUME IInv, Reading, Langs' \subseteq Langs, DecodeNull
  PROVE  Reading' /\ Accepted' /\ Unfinished'
<1>1. PICK tok \in Tokens : Take({"n"}, tok)
  BY DEF DecodeNull
<1>2. pc = "value" /\ read' = Append(read, tok) /\ tok.type \in ScalarTypes
  BY <1>1 DEF Take, Read, ScalarTypes
<1>3. CASE \E mm : Return(stack, mm)
  BY <1>2, <1>3, ScalarVerdicts
<1>4. CASE Reject("TYPE_NOT_MATCH") \/ Reject("NOT_SUPPORT")
  BY <1>4, FailVerdicts DEF Reject
<1> QED BY <1>3, <1>4 DEF DecodeNull, Ignore

LEMMA BoolVerdicts ==
  ASSUME IInv, Reading, Langs' \subseteq Langs, DecodeBool
  PROVE  Reading' /\ Accepted' /\ Unfinished'
<1>1. PICK tok \in Tokens :
        /\ Take({"t", "f"}, tok)
        /\ \/ Ignore \/ StoreValue(Value("bool", tok.type = "t"))
           \/ Reject("TYPE_NOT_MATCH")
  BY DEF DecodeBool
<1>2. pc = "value" /\ read' = Append(read, tok) /\ tok.type \in ScalarTypes
  BY <1>1 DEF Take, Read, ScalarTypes
<1>3. CASE \E mm : Return(stack, mm)
  BY <1>2, <1>3, ScalarVerdicts
<1>4. CASE Reject("TYPE_NOT_MATCH")
  BY <1>4, FailVerdicts DEF Reject
<1> QED BY <1>1, <1>3, <1>4 DEF Ignore, StoreValue

LEMMA StringVerdicts ==
  ASSUME IInv, Reading, Langs' \subseteq Langs, DecodeString
  PROVE  Reading' /\ Accepted' /\ Unfinished'
<1>1. PICK tok \in Tokens :
        /\ Take({"s"}, tok)
        /\ \/ Ignore \/ StoreValue(Value("cstr", tok.text))
           \/ Reject("TYPE_NOT_MATCH") \/ Fail("INSUFFICIENT_SPACE")
  BY DEF DecodeString
<1>2. pc = "value" /\ read' = Append(read, tok) /\ tok.type \in ScalarTypes
  BY <1>1 DEF Take, Read, ScalarTypes
<1>3. CASE \E mm : Return(stack, mm)
  BY <1>2, <1>3, ScalarVerdicts
<1>4. CASE Reject("TYPE_NOT_MATCH") \/ Fail("INSUFFICIENT_SPACE")
  BY <1>4, FailVerdicts DEF Reject
<1> QED BY <1>1, <1>3, <1>4 DEF Ignore, StoreValue

LEMMA NumberVerdicts ==
  ASSUME IInv, Reading, Langs' \subseteq Langs, DecodeNumber
  PROVE  Reading' /\ Accepted' /\ Unfinished'
<1>1. PICK tok \in Tokens :
        /\ Take({"0"}, tok)
        /\ \/ Ignore \/ StoreValue(Number(Desc[Pending.desc].type, tok))
           \/ Reject("TYPE_NOT_MATCH") \/ Reject("OVERFLOW")
  BY DEF DecodeNumber
<1>2. pc = "value" /\ read' = Append(read, tok) /\ tok.type \in ScalarTypes
  BY <1>1 DEF Take, Read, ScalarTypes
<1>3. CASE \E mm : Return(stack, mm)
  BY <1>2, <1>3, ScalarVerdicts
<1>4. CASE Reject("TYPE_NOT_MATCH") \/ Reject("OVERFLOW")
  BY <1>4, FailVerdicts DEF Reject
<1> QED BY <1>1, <1>3, <1>4 DEF Ignore, StoreValue

\* decode_value enters decode_object or decode_array.
LEMMA OpenVerdicts ==
  ASSUME IInv, Reading, Langs' \subseteq Langs, pc = "value",
         NEW tok \in Tokens \cup {Bracket}, read' = Append(read, tok),
         NEW f \in Frames, stack' = Append(stack, f),
         tok.type = Opening(f.kind), Starts(pc', f.kind)
  PROVE  Reading' /\ Accepted' /\ Unfinished'
<1> DEFINE k == Len(read)
           h == Len(stack)
<1>1. TypeOK /\ stack \in Seq(Frames) /\ h \in Nat
  BY DEF IInv, TypeOK
<1>2. k \in Nat /\ Len(read') = k + 1 /\ read'[k + 1] = tok
  BY <1>1, ReadOn
<1>3. PICK at : \A E \in Langs' : E \in BOOLEAN /\ Progress(E, read, stack, pc, at)
  BY LangsType DEF Reading, Stopped
<1>4. ASSUME NEW E \in Langs'
      PROVE  /\ Opened(E, read', stack, at)
             /\ AtTop(E, read', stack, "value", at, k)
  BY <1>3, StillThere
<1>5. Pushed(stack, stack', f.kind)
  BY <1>1 DEF Pushed
<1>6. read'[k + 1].type = Opening(f.kind)
  BY <1>2
<1> HIDE DEF k
<1> DEFINE b == Extended(at, Len(stack), k + 1)
<1>7. ASSUME NEW E \in Langs' PROVE Progress(E, read', stack', pc', b)
  BY <1>1, <1>2, <1>3, <1>4, <1>5, <1>6, OpenRead
<1>8. pc' \notin Stopped
  BY DEF Starts, Stopped
<1> HIDE DEF b
<1> QED BY <1>7, <1>8, GoOn

LEMMA OpenObjectVerdicts ==
  ASSUME IInv, Reading, Langs' \subseteq Langs, OpenObject
  PROVE  Reading' /\ Accepted' /\ Unfinished'
<1> DEFINE f == NewFrame("object")
<1>1. PICK tok \in Tokens : Take({LeftBrace}, tok)
  BY DEF OpenObject, LeftBrace
<1>2. /\ pc = "value" /\ read' = Append(read, tok)
      /\ pc' = "key" /\ stack' = Append(stack, f)
  BY <1>1 DEF OpenObject, Take, Read
<1>3. f.kind = "object" /\ f \in Frames
  BY <1>2, NewFrameOK DEF FrameOK
<1>4. tok.type = Opening("object")
  <2>1. tok.type = LeftBrace
    BY <1>1 DEF Take
  <2> QED BY <2>1 DEF Opening
<1> HIDE DEF f
<1>5. tok.type = Opening(f.kind) /\ Starts(pc', f.kind)
  BY <1>2, <1>3, <1>4 DEF Starts
<1> QED BY <1>2, <1>3, <1>5, OpenVerdicts

\* decode_array has no room for any element: it returns at its opening bracket.
LEMMA NoRoomVerdicts ==
  ASSUME IInv, Reading, Langs' \subseteq Langs, pc = "value",
         NEW tok \in Tokens, tok.type = LeftBracket,
         read' = Append(Append(read, tok), Bracket), Langs' = {TRUE},
         NEW mm, Return(stack, mm)
  PROVE  Reading' /\ Accepted' /\ Unfinished'
<1> DEFINE n == Len(read)
<1>1. TypeOK /\ stack \in Seq(Frames)
  BY DEF IInv, TypeOK
<1>2. /\ n \in Nat /\ Len(read') = n + 2 /\ read' # << >>
      /\ read'[n + 1] = tok /\ read'[n + 2] = Bracket /\ SameTypes(read, read', n)
  BY <1>1, ReadTwo
<1>3. PICK at : Progress(TRUE, read, stack, pc, at)
  BY LangsType DEF Reading, Stopped
<1>4. Opened(TRUE, read', stack, at) /\ AtTop(TRUE, read', stack, "value", at, n)
  <2>1. Len(read') \in Nat /\ n <= Len(read')
    BY <1>2
  <2> QED BY <1>2, <1>3, <2>1, StoodThere
<1>5. Derives(read', TRUE)[<<"value", n + 1, n + 2>>]
  <2> DEFINE d == Derives(read', TRUE)
             i == n + 1
             j == n + 2
  <2>1. i + 1 = j /\ j - 1 = i /\ j = i + 1 /\ i < j
    BY <1>2
  <2>0. /\ Len(read') \in Nat /\ i \in 1 .. Len(read') /\ i \in 0 .. Len(read')
        /\ j \in 1 .. Len(read') /\ j \in 0 .. Len(read') /\ TRUE \in BOOLEAN
    BY <1>2
  <2>2. /\ "value" \in Nonterminals /\ "elements" \in Nonterminals
        /\ Bracket.type = RightBracket
    BY DEF Nonterminals, Bracket, RightBracket
  <2>3. read'[i].type = LeftBracket /\ read'[j].type = RightBracket
    BY <1>2, <2>2
  <2> HIDE DEF d, i, j
  <2>4. d[<<"elements", i + 1, j - 1>>]
    <3>1. Derived(read', TRUE, d, "elements", j, i)
      BY <2>1 DEF Derived, ElementsSpan
    <3>2. Derives(read', TRUE)[<<"elements", j, i>>]
      BY <2>0, <2>2, <3>1, DerivesRule DEF d
    <3> QED BY <2>1, <3>2 DEF d
  <2>5. Derived(read', TRUE, d, "value", i, j)
    BY <2>1, <2>3, <2>4 DEF Derived, ValueSpan
  <2>6. Derives(read', TRUE)[<<"value", i, j>>]
    BY <2>0, <2>2, <2>5, DerivesRule DEF d
  <2> QED BY <2>6 DEF i, j
<1>6. /\ Len(read') \in Nat /\ n \in 0 .. (Len(read') - 1)
  BY <1>2
<1>7. ValueAfter(TRUE, read', stack, at, n)
  BY <1>2, <1>4, <1>5, <1>6 DEF ValueAfter
<1> HIDE DEF n
<1>8. \A E \in Langs' : ValueAfter(E, read', stack, at, n)
  BY <1>7
<1> QED BY <1>1, <1>2, <1>6, <1>8, ReturnVerdicts

LEMMA OpenArrayVerdicts ==
  ASSUME IInv, Reading, Langs' \subseteq Langs, OpenArray
  PROVE  Reading' /\ Accepted' /\ Unfinished'
<1> DEFINE f == NewFrame("array")
<1>1. PICK tok \in Tokens :
        /\ pc = "value" /\ tok.type = LeftBracket
        /\ \/ /\ ~Full(f, 0) /\ pc' = "value" /\ stack' = Append(stack, f)
              /\ read' = Append(read, tok)
           \/ /\ EndArray(stack, f, 0)
              /\ read' = Append(Append(read, tok), Bracket)
              /\ lenient' = Mistyped("ARRAY") \cup {"noroom"}
  BY Zenon DEF OpenArray, LeftBracket
<1>2. CASE /\ EndArray(stack, f, 0)
           /\ read' = Append(Append(read, tok), Bracket)
           /\ lenient' = Mistyped("ARRAY") \cup {"noroom"}
  <2>1. Langs' = {TRUE}
    BY <1>2 DEF Langs, LangsOf
  <2>2. \E mm : Return(stack, mm)
    BY <1>2 DEF EndArray
  <2> QED BY <1>1, <1>2, <2>1, <2>2, NoRoomVerdicts
<1>3. CASE /\ ~Full(f, 0) /\ pc' = "value" /\ stack' = Append(stack, f)
           /\ read' = Append(read, tok)
  <2>1. f.kind = "array" /\ f \in Frames
    <3>1. /\ f.kind = "array" /\ f.desc \in Descs \cup {NULL}
          /\ (f.desc # NULL => Desc[f.desc].capacity > 0) => FrameOK(f)
      BY <1>1, NewFrameOK
    <3> HIDE DEF f
    <3> QED BY <1>3, <3>1, DescType DEF Full, FrameOK
  <2> HIDE DEF f
  <2>2. tok.type = Opening(f.kind) /\ Starts(pc', f.kind)
    BY <1>1, <1>3, <2>1 DEF Starts, Opening
  <2> QED BY <1>1, <1>3, <2>1, <2>2, OpenVerdicts
<1> QED BY <1>1, <1>2, <1>3

\* The closing bracket of the top call.
LEMMA CloseVerdicts ==
  ASSUME IInv, Reading, Langs' \subseteq Langs, pc = "next",
         NEW tok \in Tokens \cup {Bracket}, read' = Append(read, tok),
         tok.type = Closing(Last(stack).kind), NEW mm, Return(Front(stack), mm)
  PROVE  Reading' /\ Accepted' /\ Unfinished'
<1> DEFINE k == Len(read)
           n == k + 1
           h == Len(stack) - 1
           rest == Front(stack)
           kind == stack[h + 1].kind
<1>1. /\ TypeOK /\ stack \in Seq(Frames) /\ stack # << >>
      /\ h \in Nat /\ Len(stack) = h + 1 /\ h + 1 \in 1 .. Len(stack)
  BY DEF IInv, TypeOK, Shape
<1>2. k \in Nat /\ n \in Nat /\ n = k + 1 /\ n = Len(read') /\ read'[n] = tok
      /\ read' # << >>
  BY <1>1, ReadOn
<1>3. PICK at : \A E \in Langs' : E \in BOOLEAN /\ Progress(E, read, stack, pc, at)
  BY LangsType DEF Reading, Stopped
<1>4. kind \in {"object", "array"} /\ tok.type = Closing(kind)
  <2>1. stack[h + 1] \in Frames /\ stack[h + 1] = Last(stack)
    BY <1>1 DEF Last
  <2> QED BY <2>1 DEF Frames
<1>5. /\ rest \in Seq(Frames) /\ Len(rest) = h
      /\ \A i \in 1 .. h : rest[i].kind = stack[i].kind
  <2>1. rest = SubSeq(stack, 1, h)
    BY DEF Front
  <2>2. \A i \in 1 .. h : stack[i] \in Frames
    BY <1>1
  <2>3. /\ SubSeq(stack, 1, h) \in Seq(Frames)
        /\ Len(SubSeq(stack, 1, h)) = IF 1 <= h THEN h - 1 + 1 ELSE 0
        /\ \A i \in 1 .. h - 1 + 1 : SubSeq(stack, 1, h)[i] = stack[1 + i - 1]
    BY <1>1, <2>2, SubSeqProperties
  <2> HIDE DEF h, rest
  <2> QED BY <1>1, <2>1, <2>3
<1>6. Pushed(rest, stack, kind) /\ Len(rest) \in Nat
  BY <1>1, <1>5 DEF Pushed
<1> HIDE DEF k, n, h, kind, rest
<1> DEFINE p == at[Len(stack)]
           b == Shortened(at, Len(rest))
           m == p - 1
<1>7. ASSUME NEW E \in Langs' PROVE ValueAfter(E, read', rest, b, m)
  <2>1. /\ Opened(E, read', stack, at)
        /\ AtTop(E, read', stack, "next", at, k)
    BY <1>1, <1>3, StillThere DEF k
  <2>2. p \in 1 .. n
    BY <1>1, <1>2, <2>1 DEF Opened
  <2>3. /\ p <= k
        /\ Waits(E, read', "next", ListOf(kind), p + 1, k)
    BY <1>1, <2>1 DEF AtTop, kind
  <2>4. Derives(read', E)[<<ListOf(kind), p + 1, k>>]
    BY <2>3 DEF Waits
  <2>5. n - 1 = k /\ p < n
    BY <1>2, <2>2, <2>3
  <2>6. Derives(read', E)[<<ListOf(kind), p + 1, Len(read') - 1>>]
    BY <1>2, <2>4, <2>5
  <2>7. read'[Len(read')].type = Closing(kind) /\ p < Len(read')
    BY <1>2, <1>4, <2>5
  <2> QED BY <1>2, <1>3, <1>4, <1>6, <2>1, <2>6, <2>7, CloseRead
<1>9. Return(rest, mm)
  BY DEF rest
<1> HIDE DEF b, m, p
<1> QED BY <1>2, <1>5, <1>7, <1>9, ReturnVerdicts

\* The top call takes a token and goes on to its next phase.
LEMMA TopVerdicts ==
  ASSUME IInv, Reading, Langs' \subseteq Langs, pc \notin Stopped, pc' \notin Stopped,
         stack # << >>,
         NEW tok \in Tokens \cup {Bracket}, read' = Append(read, tok),
         SameKinds(stack, stack'),
         NEW nt, nt = ListOf(Last(stack).kind), NEW k, k = Len(read),
         \A E \in Langs' : \A i \in 1 .. (k + 1) :
           Waits(E, read', pc, nt, i, k) => Waits(E, read', pc', nt, i, k + 1)
  PROVE  Reading' /\ Accepted' /\ Unfinished'
<1>1. TypeOK /\ stack \in Seq(Frames) /\ Len(stack) \in Nat /\ Len(stack) > 0
  BY DEF IInv, TypeOK
<1>2. k \in Nat /\ Len(read') = k + 1
  BY <1>1, ReadOn
<1>3. PICK at : \A E \in Langs' : E \in BOOLEAN /\ Progress(E, read, stack, pc, at)
  BY LangsType DEF Reading
<1>4. ASSUME NEW E \in Langs' PROVE Progress(E, read', stack', pc', at)
  <2>1. /\ Opened(E, read', stack, at)
        /\ AtTop(E, read', stack, pc, at, k)
    BY <1>3, StillThere
  <2> DEFINE b == at[Len(stack)]
  <2>2. b <= k /\ Waits(E, read', pc, nt, b + 1, k)
    BY <1>1, <2>1 DEF AtTop, Last
  <2>3. b \in 1 .. (k + 1)
    BY <1>1, <1>2, <2>1 DEF Opened
  <2> HIDE DEF b
  <2>4. b + 1 \in 1 .. (k + 1) /\ b <= k + 1
    BY <1>2, <2>2, <2>3
  <2>5. Waits(E, read', pc', nt, b + 1, k + 1)
    BY <2>2, <2>4
  <2>6. AtTop(E, read', stack, pc', at, k + 1)
    BY <1>1, <2>4, <2>5 DEF AtTop, Last, b
  <2>7. Progress(E, read', stack, pc', at)
    BY <1>2, <2>1, <2>6 DEF Progress
  <2> QED BY <1>1, <2>7, ProgressKinds
<1> QED BY <1>4, GoOn

LEMMA ObjectKeyVerdicts ==
  ASSUME IInv, Reading, Langs' \subseteq Langs, ObjectKey
  PROVE  Reading' /\ Accepted' /\ Unfinished'
<1>1. PICK tok \in Tokens :
        /\ Read(tok)
        /\ \/ /\ tok.type = "s" /\ pc' = "colon"
              /\ stack' = [stack EXCEPT ![Len(stack)].key = tok.text]
           \/ Reject("INVALID_JSON")
  BY DEF ObjectKey, Expected
<1>2. CASE Reject("INVALID_JSON")
  BY <1>2, FailVerdicts DEF Reject
<1>3. CASE /\ tok.type = "s" /\ pc' = "colon"
           /\ stack' = [stack EXCEPT ![Len(stack)].key = tok.text]
  <2> DEFINE k == Len(read)
  <2>1. /\ TypeOK /\ stack \in Seq(Frames) /\ stack # << >>
        /\ pc = "key" /\ pc \notin Stopped /\ pc' \notin Stopped
        /\ ListOf(Last(stack).kind) = "members"
    BY <1>3 DEF IInv, TypeOK, Shape, ObjectKey, Stopped, ListOf
  <2>2. read' = Append(read, tok)
    BY <1>1 DEF Read
  <2>3. k \in Nat /\ read'[k + 1] = tok
    BY <2>1, <2>2, ReadOn
  <2>4. SameKinds(stack, stack')
    <3>1. Len(stack) \in 1 .. Len(stack) /\ stack[Len(stack)] \in Frames
      BY <2>1
    <3> QED BY <1>3, <3>1 DEF SameKinds, Frames
  <2> HIDE DEF k
  <2>5. ASSUME NEW E \in Langs', NEW i \in 1 .. (k + 1),
               Waits(E, read', "key", "members", i, k)
        PROVE  Waits(E, read', "colon", "members", i, k + 1)
    <3>1. Separated(E, read', "members", i, k) /\ (k + 1) - 1 = k /\ i <= k + 1
      BY <2>3, <2>5 DEF Waits
    <3> QED BY <1>3, <2>3, <3>1 DEF Waits
  <2> QED BY <1>3, <2>1, <2>2, <2>4, <2>5, TopVerdicts DEF k
<1> QED BY <1>1, <1>2, <1>3

LEMMA ObjectColonVerdicts ==
  ASSUME IInv, Reading, Langs' \subseteq Langs, ObjectColon
  PROVE  Reading' /\ Accepted' /\ Unfinished'
<1> DEFINE f == Last(stack)
<1>1. PICK tok \in Tokens :
        /\ Read(tok)
        /\ \/ tok.type = ":" /\ LookUp(f)
           \/ Astray
           \/ Reject("INVALID_JSON")
  BY DEF ObjectColon, Expected
<1>2. CASE Reject("INVALID_JSON")
  BY <1>2, FailVerdicts DEF Reject
<1>3. CASE Astray
  BY <1>3 DEF Astray, Reading, Accepted, Unfinished, Stopped
<1>4. CASE tok.type = ":" /\ LookUp(f)
  <2> DEFINE k == Len(read)
  <2>1. /\ TypeOK /\ stack \in Seq(Frames) /\ stack # << >>
        /\ pc = "colon" /\ pc \notin Stopped /\ pc' \notin Stopped
        /\ ListOf(Last(stack).kind) = "members"
    BY <1>4 DEF IInv, TypeOK, Shape, ObjectColon, LookUp, Stopped, ListOf
  <2>2. read' = Append(read, tok)
    BY <1>1 DEF Read
  <2>3. k \in Nat /\ read'[k + 1] = tok
    BY <2>1, <2>2, ReadOn
  <2>4. SameKinds(stack, stack')
    <3> DEFINE a == Find(Attrs(f.desc), f.key)
    <3>1. Len(stack) \in 1 .. Len(stack) /\ stack[Len(stack)] \in Frames
      BY <2>1
    <3> HIDE DEF a, f
    <3>2. stack' = [stack EXCEPT ![Len(stack)].attr = a, ![Len(stack)].key = << >>]
      BY <1>4 DEF LookUp, a, f
    <3> QED BY <3>1, <3>2 DEF SameKinds, Frames
  <2>5. tok.type = NameSeparator
    BY <1>4 DEF NameSeparator
  <2> HIDE DEF k
  <2>6. ASSUME NEW E \in Langs', NEW i \in 1 .. (k + 1),
               Waits(E, read', "colon", "members", i, k)
        PROVE  Waits(E, read', "value", "members", i, k + 1)
    <3>1. /\ i <= k /\ read'[k].type = "s"
          /\ Separated(E, read', "members", i, k - 1)
      BY <2>6 DEF Waits
    <3>2. (k + 1) - 1 = k /\ (k + 1) - 2 = k - 1 /\ i + 1 <= k + 1
      BY <2>3, <3>1
    <3> QED BY <2>3, <2>5, <3>1, <3>2 DEF Waits
  <2>7. pc' = "value"
    BY <1>4 DEF LookUp
  <2> QED BY <2>1, <2>2, <2>4, <2>6, <2>7, TopVerdicts DEF k
<1> QED BY <1>1, <1>2, <1>3, <1>4

\* A comma after a member or an element.
LEMMA CommaVerdicts ==
  ASSUME IInv, Reading, Langs' \subseteq Langs, pc = "next", UNCHANGED stack,
         NEW tok \in Tokens \cup {Bracket}, read' = Append(read, tok), tok.type = ValueSeparator,
         Starts(pc', Last(stack).kind)
  PROVE  Reading' /\ Accepted' /\ Unfinished'
<1> DEFINE k == Len(read)
           nt == ListOf(Last(stack).kind)
<1>1. /\ TypeOK /\ stack \in Seq(Frames) /\ stack # << >>
      /\ pc \notin Stopped /\ pc' \notin Stopped
  BY DEF IInv, TypeOK, Shape, Starts, Stopped
<1>2. k \in Nat /\ read'[k + 1] = tok
  BY <1>1, ReadOn
<1>3. SameKinds(stack, stack')
  BY DEF SameKinds
<1>4. \/ pc' = "key" /\ nt = "members"
      \/ pc' = "value" /\ nt = "elements"
  BY DEF Starts, ListOf
<1> HIDE DEF k, nt
<1>5. ASSUME NEW E \in Langs', NEW i \in 1 .. (k + 1), Waits(E, read', "next", nt, i, k)
      PROVE  Waits(E, read', pc', nt, i, k + 1)
  <2>1. i <= k /\ Derives(read', E)[<<nt, i, k>>]
    BY <1>5 DEF Waits
  <2>2. (k + 1) - 1 = k /\ i < k + 1
    BY <1>2, <2>1
  <2>3. Separated(E, read', nt, i, k + 1)
    BY <1>2, <2>1, <2>2 DEF Separated
  <2> QED BY <1>4, <2>3 DEF Waits
<1> QED BY <1>1, <1>3, <1>5, TopVerdicts DEF k, nt

LEMMA ObjectNextVerdicts ==
  ASSUME IInv, Reading, Langs' \subseteq Langs, ObjectNext
  PROVE  Reading' /\ Accepted' /\ Unfinished'
<1>1. pc = "next" /\ Last(stack).kind = "object"
  BY DEF ObjectNext
<1>2. PICK tok \in Tokens :
        /\ Read(tok)
        /\ \/ /\ tok.type = ValueSeparator /\ pc' = "key"
              /\ UNCHANGED <<stack, mem, result>>
           \/ /\ tok.type = RightBrace
              /\ Return(Front(stack), mem)
           \/ tok.type \notin {ValueSeparator, RightBrace} /\ Reject("INVALID_JSON")
  BY DEF ObjectNext, ValueSeparator, RightBrace
<1>3. CASE Reject("INVALID_JSON")
  BY <1>3, FailVerdicts DEF Reject
<1>4. CASE tok.type = ValueSeparator /\ pc' = "key" /\ UNCHANGED stack
  <2>1. Starts(pc', Last(stack).kind)
    BY <1>1, <1>4 DEF Starts
  <2> QED BY <1>1, <1>2, <1>4, <2>1, CommaVerdicts DEF Read
<1>5. CASE tok.type = RightBrace /\ Return(Front(stack), mem)
  <2>1. tok.type = Closing(Last(stack).kind)
    BY <1>1, <1>5 DEF Closing
  <2> QED BY <1>1, <1>2, <1>5, <2>1, CloseVerdicts DEF Read
<1> QED BY <1>2, <1>3, <1>4, <1>5

LEMMA ArrayNextVerdicts ==
  ASSUME IInv, Reading, Langs' \subseteq Langs, ArrayNext
  PROVE  Reading' /\ Accepted' /\ Unfinished'
<1> DEFINE f == Last(stack)
<1>1. pc = "next" /\ f.kind = "array"
  BY DEF ArrayNext
<1>2. PICK tok \in Tokens :
        \/ /\ tok.type = ValueSeparator /\ pc' = "value" /\ UNCHANGED stack
           /\ read' = Append(read, tok)
        \/ EndArray(Front(stack), f, f.count) /\ read' = Append(read, Bracket)
        \/ /\ tok.type = RightBracket /\ EndArray(Front(stack), f, f.count)
           /\ read' = Append(read, tok)
        \/ Reject("INVALID_JSON")
  BY Zenon DEF ArrayNext, ValueSeparator, RightBracket
<1>3. CASE Reject("INVALID_JSON")
  BY <1>3, FailVerdicts DEF Reject
<1>4. CASE /\ tok.type = ValueSeparator /\ pc' = "value" /\ UNCHANGED stack
           /\ read' = Append(read, tok)
  <2>1. Starts(pc', Last(stack).kind)
    BY <1>1, <1>4 DEF Starts
  <2> QED BY <1>1, <1>4, <2>1, CommaVerdicts
<1>5. ASSUME NEW last \in Tokens \cup {Bracket}, last.type = RightBracket,
             EndArray(Front(stack), f, f.count), read' = Append(read, last)
      PROVE  Reading' /\ Accepted' /\ Unfinished'
  <2>1. \E mm : Return(Front(stack), mm)
    BY <1>5 DEF EndArray
  <2>2. last.type = Closing(Last(stack).kind)
    BY <1>1, <1>5 DEF Closing
  <2> QED BY <1>1, <1>5, <2>1, <2>2, CloseVerdicts
<1>6. Bracket.type = RightBracket
  BY DEF Bracket, RightBracket
<1> QED BY <1>2, <1>3, <1>4, <1>5, <1>6

LEMMA RefuseVerdicts ==
  ASSUME RefuseToken PROVE Reading' /\ Accepted' /\ Unfinished'
BY FailVerdicts DEF RefuseToken, Reject
\* The lexer's error.  At the end of the input the decoder has not decided: what
\* it has read can be completed.
LEMMA LexErrorVerdicts ==
  ASSUME IInv, Reading, Langs' \subseteq Langs, LexError
  PROVE  Reading' /\ Accepted' /\ Unfinished'
<1>1. PICK fault \in Faults : Reject(fault.err)
  BY DEF LexError
<1>2. pc' = "done" /\ result' = fault.err
  BY <1>1 DEF Reject, Fail
<1>3. pc \notin Stopped
  BY DEF LexError
<1>4. Reading' /\ Accepted'
  <2>1. fault.err # "NONE"
    BY DEF Faults
  <2>2. pc' \in Stopped /\ result' # "NONE"
    BY <1>2, <2>1 DEF Stopped
  <2> QED BY <2>2 DEF Reading, Accepted
<1>5. Len(read) \in Nat /\ Len(stack) \in Nat
  BY DEF IInv, TypeOK
<1>6. PICK at : Progress(TRUE, read, stack, pc, at)
  BY <1>3, LangsType DEF Reading
<1>7. IsValuePrefix(read, TRUE)
  BY <1>5, <1>6, ProgressIsPrefix
<1>8. read' = read
  BY DEF LexError
<1> QED BY <1>4, <1>7, <1>8 DEF Unfinished

LEMMA InitVerdicts == Init => Verdicts
<1> SUFFICES ASSUME Init PROVE Verdicts
  OBVIOUS
<1>1. /\ pc = "value" /\ stack = << >> /\ read = << >>
      /\ Len(stack) = 0 /\ Len(read) = 0
  BY DEF Init
<1> DEFINE at == [i \in 1 .. 0 |-> 0]
<1>2. ASSUME NEW E \in Langs PROVE Progress(E, read, stack, pc, at)
  <2>1. at \in [1 .. 0 -> 1 .. 0] /\ 1 .. 0 = {} /\ 1 .. 0 - 1 = {}
    OBVIOUS
  <2> HIDE DEF at
  <2>2. Opened(E, read, stack, at)
    BY <1>1, <2>1 DEF Opened
  <2>3. AtTop(E, read, stack, pc, at, Len(read))
    BY <1>1 DEF AtTop
  <2> QED BY <2>2, <2>3 DEF Progress
<1> HIDE DEF at
<1> QED BY <1>1, <1>2 DEF Verdicts, Reading, Accepted, Unfinished

LEMMA NextVerdicts == IInv /\ Verdicts /\ [Next]_vars => Verdicts'
<1> SUFFICES ASSUME IInv, Reading, Accepted, Unfinished, [Next]_vars
             PROVE  Reading' /\ Accepted' /\ Unfinished'
  BY DEF Verdicts
<1>0. CASE UNCHANGED vars
  BY <1>0 DEF vars, Reading, Langs, Accepted, Unfinished
<1>f. Langs' \subseteq Langs
  BY FewerLangs
<1>1. CASE DecodeNull
  BY <1>1, <1>f, NullVerdicts
<1>2. CASE DecodeBool
  BY <1>2, <1>f, BoolVerdicts
<1>3. CASE DecodeString
  BY <1>3, <1>f, StringVerdicts
<1>4. CASE DecodeNumber
  BY <1>4, <1>f, NumberVerdicts
<1>5. CASE RefuseToken
  BY <1>5, RefuseVerdicts
<1>6. CASE OpenObject
  BY <1>6, <1>f, OpenObjectVerdicts
<1>7. CASE OpenArray
  BY <1>7, <1>f, OpenArrayVerdicts
<1>8. CASE ObjectKey
  BY <1>8, <1>f, ObjectKeyVerdicts
<1>9. CASE ObjectColon
  BY <1>9, <1>f, ObjectColonVerdicts
<1>10. CASE ObjectNext
  BY <1>10, <1>f, ObjectNextVerdicts
<1>11. CASE ArrayNext
  BY <1>11, <1>f, ArrayNextVerdicts
<1>12. CASE LexError
  BY <1>12, <1>f, LexErrorVerdicts
<1>13. CASE Terminated
  BY <1>0, <1>13 DEF Terminated
<1> QED BY <1>0, <1>1, <1>2, <1>3, <1>4, <1>5, <1>6, <1>7, <1>8, <1>9, <1>10,
           <1>11, <1>12, <1>13 DEF Next

\* Every reachable state of the decoder knows where in a JSON text it stands:
\* decode_object and decode_array keep the order of keys, colons, values and
\* commas, at every depth, also when arrays are full or have no room.
THEOREM VerdictsInvariance == Spec => []Verdicts
<1>1. Init => Verdicts
  BY InitVerdicts
<1>2. IInv /\ Verdicts /\ [Next]_vars => Verdicts'
  BY NextVerdicts
<1> QED BY <1>1, <1>2, Invariance, PTL DEF Spec

\* When bo_json_decode returns OK, the tokens it took are exactly one JSON value,
\* whatever the descriptor, the depth and the length: with the comma at which a
\* full array was cut off read as its bracket, and the bracket that opens an array
\* without room as all of it.
THEOREM AcceptedIsOneValue == Spec => []OkIsOneValue
<1>1. Verdicts => OkIsOneValue
  BY DEF Verdicts, Accepted, OkIsOneValue
<1> QED BY <1>1, VerdictsInvariance, PTL

\* When bo_json_decode returns PARTIAL at the end of an input that is made of
\* whole tokens, some JSON value begins with them.  (An input that ends inside a
\* token is PARTIAL as well, but may be one that nothing completes.)
THEOREM CutInputCanBeCompleted == Spec => []PartialCanBeCompleted
<1>1. Verdicts => PartialCanBeCompleted
  BY DEF Verdicts, Unfinished, PartialCanBeCompleted
<1> QED BY <1>1, VerdictsInvariance, PTL

-----------------------------------------------------------------------------
(* Refusals.                                                               *)

\* No value of JSON without {} and [] begins at p, not even one that the end
\* of the text leaves open.
Dead(text, p) ==
  /\ \A j \in p .. Len(text) : ~Derives(text, FALSE)[<<"value", p, j>>]
  /\ ~Opens(text, FALSE)[<<"value", p>>]

ClosingOf(nt) == IF nt = "members" THEN RightBrace ELSE RightBracket

\* Neither is the list that begins at b open, nor does it end anywhere before
\* a closing bracket.
Stuck(text, nt, b) ==
  /\ \A j \in b .. Len(text) - 1 :
       Derives(text, FALSE)[<<nt, b, j>>] => text[j + 1].type # ClosingOf(nt)
  /\ ~Opens(text, FALSE)[<<nt, b>>]

\* What decode_value refuses begins no value.
LEMMA BadStart ==
  ASSUME NEW text, NEW n \in Nat, n = Len(text), n > 0,
         text[n].type \notin ScalarTypes \cup {LeftBrace, LeftBracket}
  PROVE  Dead(text, n)
<1> DEFINE d == Derives(text, FALSE)
           open == Opens(text, FALSE)
<1>1. n \in 1 .. n /\ n \in 0 .. n
  OBVIOUS
<1>2. d[<<"value", n, n>>] <=> ValueSpan(text, d, n, n)
  BY <1>1, StrictSpans
<1>3. open[<<"value", n>>] <=> ValueBegins(text, d, open, n)
  BY <1>1, StrictOpens
<1> HIDE DEF d, open
<1>4. ~d[<<"value", n, n>>]
  BY <1>2 DEF ValueSpan
<1>5. ~open[<<"value", n>>]
  BY <1>3, <1>4 DEF ValueBegins
<1>6. \A j \in n .. n : j = n
  OBVIOUS
<1> QED BY <1>4, <1>5, <1>6 DEF Dead, d, open

\* A list whose first value is dead is stuck.
LEMMA DeadFirst ==
  ASSUME NEW text, NEW n \in Nat, n = Len(text),
         NEW nt \in {"members", "elements"}, NEW b \in 1 .. n,
         FirstValue(nt, b) <= n, Dead(text, FirstValue(nt, b))
  PROVE  Stuck(text, nt, b)
<1> DEFINE d == Derives(text, FALSE)
           open == Opens(text, FALSE)
           f == FirstValue(nt, b)
<1>1. \A j \in 0 .. n : d[<<nt, b, j>>] =>
        \E q \in f .. j : d[<<"value", f, q>>] /\ RestSpan(text, d, nt, q, j)
  BY FirstOfSpan
<1>2. open[<<nt, b>>] =>
        \/ open[<<"value", f>>]
        \/ \E q \in f .. n : d[<<"value", f, q>>] /\ MoreBegins(text, open, nt, q)
  BY FirstOfOpen
<1>3. (\A j \in f .. n : ~d[<<"value", f, j>>]) /\ ~open[<<"value", f>>]
  BY DEF Dead
<1>4. f \in 1 .. n
  BY DEF FirstValue
<1> HIDE DEF d, open, f
<1>5. ASSUME NEW j \in b .. n - 1 PROVE ~d[<<nt, b, j>>]
  <2>1. j \in 0 .. n /\ \A q \in f .. j : q \in f .. n
    BY <1>4
  <2> QED BY <1>1, <1>3, <2>1
<1>6. ~open[<<nt, b>>]
  BY <1>2, <1>3
<1> QED BY <1>5, <1>6 DEF Stuck, d, open

LEMMA ClosingIsNoComma == \A nt : ClosingOf(nt) # ValueSeparator
BY CharactersDiffer DEF ClosingOf

\* A list and a comma, and what follows is stuck.
LEMMA SeparatedStuck ==
  ASSUME NEW text, NEW n \in Nat, n = Len(text),
         NEW nt \in {"members", "elements"}, NEW b \in 1 .. n, NEW l \in 1 .. n,
         Separated(FALSE, text, nt, b, l - 1), Stuck(text, nt, l)
  PROVE  Stuck(text, nt, b)
<1> DEFINE d == Derives(text, FALSE)
           open == Opens(text, FALSE)
           k == l - 2
<1>0. \A i \in 1 .. n, j \in 1 .. n : d[<<nt, i, j>>] => Splits(text, nt, i, j)
  BY SpansSplit DEF Nonterminals
<1>1. CASE b = l
  BY <1>1
<1>2. CASE b # l
  <2>0. \/ b = (l - 1) + 1
        \/ /\ b < l - 1 /\ text[l - 1].type = ValueSeparator
           /\ d[<<nt, b, (l - 1) - 1>>]
    BY Zenon DEF Separated
  <2> HIDE DEF d
  <2>1. b < l - 1 /\ text[l - 1].type = ValueSeparator /\ d[<<nt, b, (l - 1) - 1>>]
    BY <1>2, <2>0
  <2>2. /\ k \in 1 .. n /\ b <= k /\ k + 2 = l /\ k + 1 = l - 1 /\ (l - 1) - 1 = k
        /\ k < n
    BY <2>1
  <2>3. /\ \A j \in l .. n - 1 : d[<<nt, l, j>>] => text[j + 1].type # ClosingOf(nt)
        /\ ~open[<<nt, l>>]
    BY DEF Stuck, d
  <2> HIDE DEF d, open, k
  <2>4. text[k + 1].type = ValueSeparator /\ d[<<nt, b, k>>] /\ Splits(text, nt, b, k)
    BY <1>0, <2>1, <2>2
  <2>5. /\ \A j \in k + 1 .. n : d[<<nt, b, j>>] => l <= j /\ d[<<nt, l, j>>]
        /\ open[<<nt, b>>] => MoreBegins(text, open, nt, k)
    BY <2>2, <2>4 DEF Splits, d, open
  <2>6. ASSUME NEW j \in b .. n - 1, d[<<nt, b, j>>]
        PROVE  text[j + 1].type # ClosingOf(nt)
    <3>1. j \in 1 .. n
      OBVIOUS
    <3>2. CASE j = k
      BY <2>4, <3>2, ClosingIsNoComma
    <3>3. CASE j > k
      <4>1. j \in k + 1 .. n /\ l <= j /\ d[<<nt, l, j>>]
        BY <2>2, <2>5, <2>6, <3>3
      <4>2. j \in l .. n - 1
        BY <4>1
      <4> QED BY <2>3, <4>1, <4>2
    <3>4. CASE j < k
      <4>1. Splits(text, nt, b, j)
        BY <1>0, <2>6, <3>1
      <4>2. k \in j + 1 .. Len(text)
        BY <2>2, <3>4
      <4>3. text[j + 1].type = ValueSeparator
        BY <2>4, <4>1, <4>2 DEF Splits, d
      <4> QED BY <4>3, ClosingIsNoComma
    <3> QED BY <2>2, <3>2, <3>3, <3>4
  <2>7. ~open[<<nt, b>>]
    BY <2>2, <2>3, <2>5 DEF MoreBegins
  <2> QED BY <2>6, <2>7 DEF Stuck, d, open
<1> QED BY <1>1, <1>2

\* A call that waits for a value where none begins.
LEMMA WaitsStuck ==
  ASSUME NEW text, NEW n \in Nat, n = Len(text),
         NEW nt \in {"members", "elements"}, NEW b \in 1 .. n, NEW l \in 1 .. n,
         b <= l, Waits(FALSE, text, "value", nt, b, l - 1), Dead(text, l)
  PROVE  Stuck(text, nt, b)
<1>1. CASE nt = "elements" /\ Separated(FALSE, text, nt, b, l - 1)
  <2>1. FirstValue(nt, l) = l
    BY <1>1, Zenon DEF FirstValue
  <2>2. Stuck(text, nt, l)
    BY <2>1, DeadFirst
  <2> QED BY <1>1, <2>2, SeparatedStuck
<1>2. CASE /\ nt = "members" /\ b + 1 <= l - 1
           /\ Separated(FALSE, text, nt, b, (l - 1) - 2)
  <2> DEFINE h == l - 2
  <2>1. FirstValue(nt, h) = h + 2
    BY <1>2, Zenon DEF FirstValue
  <2>2. h \in 1 .. n /\ h + 2 = l /\ (l - 1) - 2 = h - 1
    BY <1>2
  <2> HIDE DEF h
  <2>3. Stuck(text, nt, h)
    BY <2>1, <2>2, DeadFirst
  <2> QED BY <1>2, <2>2, <2>3, SeparatedStuck
<1> QED BY <1>1, <1>2 DEF Waits

\* A bracket with a stuck list begins no value.
LEMMA BracketStuck ==
  ASSUME NEW text, NEW n \in Nat, n = Len(text), NEW p \in 1 .. n, p < n,
         NEW kind \in {"object", "array"}, text[p].type = Opening(kind),
         Stuck(text, ListOf(kind), p + 1)
  PROVE  Dead(text, p)
<1> DEFINE d == Derives(text, FALSE)
           open == Opens(text, FALSE)
           nt == ListOf(kind)
<1>1. \A j \in 0 .. n : d[<<"value", p, j>>] <=> ValueSpan(text, d, p, j)
  BY StrictSpans
<1>2. open[<<"value", p>>] <=> ValueBegins(text, d, open, p)
  BY StrictOpens
<1>3. /\ \A j \in p + 1 .. n - 1 : d[<<nt, p + 1, j>>] => text[j + 1].type # ClosingOf(nt)
      /\ ~open[<<nt, p + 1>>]
  BY DEF Stuck
<1>4. \/ /\ nt = "members" /\ text[p].type = LeftBrace /\ ClosingOf(nt) = RightBrace
      \/ /\ nt = "elements" /\ text[p].type = LeftBracket /\ ClosingOf(nt) = RightBracket
  BY DEF ListOf, Opening, ClosingOf
<1>5. text[p].type \notin ScalarTypes
  BY <1>4, CharactersDiffer
<1>6. \A lt \in {"members", "elements"}, j \in 0 .. n : d[<<lt, p + 1, j>>] => p + 1 <= j
  <2>1. p + 1 \in 1 .. n /\ \A lt \in {"members", "elements"} : lt \in Nonterminals
    BY DEF Nonterminals
  <2> QED BY <2>1, SpansAreNotEmpty
<1> HIDE DEF d, open, nt
<1>7. ASSUME NEW j \in p .. n PROVE ~d[<<"value", p, j>>]
  <2> SUFFICES ASSUME ValueSpan(text, d, p, j) PROVE FALSE
    BY <1>1
  <2>1. /\ p < j /\ d[<<nt, p + 1, j - 1>>] /\ text[j].type = ClosingOf(nt)
    BY <1>4, <1>5, CharactersDiffer DEF ValueSpan
  <2>2. nt \in {"members", "elements"} /\ j - 1 \in 0 .. n
    BY <1>4
  <2>3. j - 1 \in p + 1 .. n - 1 /\ (j - 1) + 1 = j
    BY <1>6, <2>1, <2>2
  <2> QED BY <1>3, <2>1, <2>3
<1>8. ~open[<<"value", p>>]
  <2>1. ~d[<<"value", p, Len(text)>>]
    BY <1>7
  <2> QED BY <1>2, <1>3, <1>4, <2>1, CharactersDiffer DEF ValueBegins
<1> QED BY <1>7, <1>8 DEF Dead, d, open

\* When the list of the top call is stuck, so are those of its callers, and
\* the text as a whole is dead.
LEMMA TopStuck ==
  ASSUME NEW text, NEW n \in Nat, n = Len(text),
         NEW stk, NEW h \in Nat, h = Len(stk), h > 0,
         \A i \in 1 .. h : stk[i].kind \in {"object", "array"},
         NEW at, Opened(FALSE, text, stk, at), at[h] < n,
         Stuck(text, ListOf(stk[h].kind), at[h] + 1)
  PROVE  Dead(text, 1)
<1> DEFINE S == {m \in Nat : m < h => Stuck(text, ListOf(stk[h - m].kind), at[h - m] + 1)}
<1>1. /\ at \in [1 .. h -> 1 .. n] /\ at[1] = 1
      /\ \A i \in 1 .. h : text[at[i]].type = Opening(stk[i].kind)
      /\ \A i \in 1 .. h - 1 :
           /\ at[i] < at[i + 1]
           /\ Waits(FALSE, text, "value", ListOf(stk[i].kind), at[i] + 1, at[i + 1] - 1)
  BY DEF Opened
<1>2. \A i \in 1 .. h : at[i] \in 1 .. n /\ at[i] < n
  <2> SUFFICES ASSUME NEW i \in 1 .. h PROVE at[i] \in 1 .. n /\ at[i] < n
    OBVIOUS
  <2>1. at[i] \in 1 .. n
    BY <1>1
  <2>2. CASE i = h
    BY <2>1, <2>2
  <2>3. CASE i # h
    <3>1. i \in 1 .. h - 1 /\ i + 1 \in 1 .. h
      BY <2>3
    <3>2. at[i] < at[i + 1] /\ at[i + 1] \in 1 .. n
      BY <1>1, <3>1
    <3> QED BY <2>1, <3>2
  <2> QED BY <2>2, <2>3
<1>3. ASSUME NEW i \in 1 .. h, Stuck(text, ListOf(stk[i].kind), at[i] + 1)
      PROVE  Dead(text, at[i])
  BY <1>1, <1>2, <1>3, BracketStuck
<1>4. 0 \in S
  OBVIOUS
<1>5. ASSUME NEW m \in Nat, m \in S PROVE m + 1 \in S
  <2> SUFFICES ASSUME m + 1 < h
               PROVE  Stuck(text, ListOf(stk[h - (m + 1)].kind), at[h - (m + 1)] + 1)
    OBVIOUS
  <2> DEFINE i == h - (m + 1)
             b == at[i] + 1
             l == at[i + 1]
             nt == ListOf(stk[i].kind)
  <2>1. i \in 1 .. h /\ i \in 1 .. h - 1 /\ i + 1 \in 1 .. h /\ h - m = i + 1
    OBVIOUS
  <2>2. Stuck(text, ListOf(stk[i + 1].kind), at[i + 1] + 1)
    BY <1>5, <2>1
  <2>3. Dead(text, l)
    BY <1>3, <2>1, <2>2
  <2>4. /\ b \in 1 .. n /\ l \in 1 .. n /\ b <= l
        /\ Waits(FALSE, text, "value", nt, b, l - 1)
    <3>1. /\ at[i] \in 1 .. n /\ at[i] < n /\ at[i + 1] \in 1 .. n /\ at[i] < at[i + 1]
          /\ Waits(FALSE, text, "value", ListOf(stk[i].kind), at[i] + 1, at[i + 1] - 1)
      BY <1>1, <1>2, <2>1
    <3> HIDE DEF i
    <3>2. b \in 1 .. n /\ l \in 1 .. n /\ b <= l
      BY <3>1
    <3> QED BY <3>1, <3>2
  <2>5. nt \in {"members", "elements"}
    BY DEF ListOf
  <2> HIDE DEF b, l, nt
  <2>6. Stuck(text, nt, b)
    BY <2>3, <2>4, <2>5, WaitsStuck
  <2> QED BY <2>6 DEF b, nt
<1> HIDE DEF S
<1>6. h - 1 \in S
  <2>1. h - 1 \in Nat
    OBVIOUS
  <2> QED BY <1>4, <1>5, <2>1, SetInduction
<1>7. Stuck(text, ListOf(stk[1].kind), at[1] + 1)
  <2>1. h - (h - 1) = 1 /\ h - 1 < h
    OBVIOUS
  <2> QED BY <1>6, <2>1 DEF S
<1>8. 1 \in 1 .. h
  OBVIOUS
<1> QED BY <1>1, <1>3, <1>7, <1>8

\* What decode_value, decode_object and decode_array refuse.
Refuses(phase, kind, type) ==
  \/ phase = "value" /\ type \notin ScalarTypes \cup {LeftBrace, LeftBracket}
  \/ phase = "key" /\ type # "s"
  \/ phase = "colon" /\ type # NameSeparator
  \/ phase = "next" /\ type # ValueSeparator /\ type # Closing(kind)

\* An object that goes on without a key, or with a key and no colon.
LEMMA NoKey ==
  ASSUME NEW text, NEW n \in Nat, n = Len(text), NEW l \in 1 .. n,
         \/ l = n /\ text[l].type # "s"
         \/ l + 1 = n /\ text[n].type # NameSeparator
  PROVE  Stuck(text, "members", l)
<1> DEFINE d == Derives(text, FALSE)
           open == Opens(text, FALSE)
<1>1. \A j \in 0 .. n : d[<<"members", l, j>>] => l + 2 <= j
  <2> SUFFICES ASSUME NEW j \in 0 .. n, d[<<"members", l, j>>] PROVE l + 2 <= j
    OBVIOUS
  <2>1. FirstValue("members", l) <= j
    BY FirstOfSpan
  <2>2. FirstValue("members", l) = l + 2
    BY DEF FirstValue
  <2> QED BY <2>1, <2>2
<1>2. open[<<"members", l>>] <=> MembersBegin(text, d, open, l)
  BY StrictOpens
<1> HIDE DEF d, open
<1>3. ~open[<<"members", l>>]
  BY <1>2 DEF MembersBegin
<1>4. \A j \in l .. n - 1 : ~d[<<"members", l, j>>]
  BY <1>1
<1> QED BY <1>3, <1>4 DEF Stuck, d, open

\* A list that goes on with neither a comma nor its closing bracket.
LEMMA NoNext ==
  ASSUME NEW text, NEW k \in Nat, Len(text) = k + 1,
         NEW nt \in {"members", "elements"}, NEW b \in 1 .. k,
         Derives(text, FALSE)[<<nt, b, k>>],
         text[k + 1].type # ValueSeparator, text[k + 1].type # ClosingOf(nt)
  PROVE  Stuck(text, nt, b)
<1> DEFINE d == Derives(text, FALSE)
           open == Opens(text, FALSE)
           n == k + 1
<1>0. n \in Nat /\ n = Len(text) /\ k < n /\ 1 .. k \subseteq 1 .. n
  OBVIOUS
<1> HIDE DEF n
<1>1. \A j \in 1 .. n : d[<<nt, b, j>>] => Splits(text, nt, b, j)
  BY <1>0, SpansSplit DEF Nonterminals
<1> HIDE DEF d, open
<1>2. d[<<nt, b, k>>] /\ k \in 1 .. n /\ b \in 1 .. n
  <2>1. d[<<nt, b, k>>]
    BY DEF d
  <2> QED BY <1>0, <2>1
<1>3. ASSUME NEW j \in b .. Len(text) - 1, d[<<nt, b, j>>]
      PROVE  text[j + 1].type # ClosingOf(nt)
  <2>1. CASE j = k
    BY <2>1
  <2>2. CASE j # k
    <3>1. j \in 1 .. n /\ k \in j + 1 .. Len(text)
      BY <1>0, <2>2
    <3>2. Splits(text, nt, b, j)
      BY <1>1, <1>3, <3>1
    <3>3. text[j + 1].type = ValueSeparator
      BY <1>2, <3>1, <3>2 DEF Splits, d
    <3> QED BY <3>3, ClosingIsNoComma
  <2> QED BY <2>1, <2>2
<1>4. ~open[<<nt, b>>]
  <2>1. Splits(text, nt, b, k) /\ k < Len(text)
    BY <1>0, <1>1, <1>2
  <2>2. ~MoreBegins(text, open, nt, k)
    BY DEF MoreBegins
  <2> QED BY <2>1, <2>2 DEF Splits, open
<1> QED BY <1>3, <1>4 DEF Stuck, d, open

LEMMA RefusalIsRight ==
  ASSUME NEW text, NEW k \in Nat, Len(text) = k + 1,
         NEW stk, NEW h \in Nat, h = Len(stk),
         \A i \in 1 .. h : stk[i].kind \in {"object", "array"},
         NEW at, Opened(FALSE, text, stk, at),
         NEW phase, AtTop(FALSE, text, stk, phase, at, k),
         Refuses(phase, stk[h].kind, text[k + 1].type)
  PROVE  ~IsValuePrefix(text, FALSE)
<1> DEFINE n == k + 1
<1>0. n \in Nat /\ n = Len(text) /\ n > 0 /\ k = n - 1
  OBVIOUS
<1>1. phase = "value" => Dead(text, n)
  <2>1. phase = "value" => text[n].type \notin ScalarTypes \cup {LeftBrace, LeftBracket}
    BY DEF Refuses
  <2> HIDE DEF n
  <2> QED BY <1>0, <2>1, BadStart
<1> SUFFICES Dead(text, 1)
  BY DEF Dead, IsValuePrefix
<1>2. CASE h = 0
  <2>1. phase = "value" /\ k = 0
    BY <1>2 DEF AtTop
  <2> QED BY <1>1, <2>1
<1>3. CASE h > 0
  <2> DEFINE nt == ListOf(stk[h].kind)
             p == at[h]
             b == p + 1
  <2>1. p <= k /\ Waits(FALSE, text, phase, nt, b, k)
    <3>1. Len(stk) # 0
      BY <1>3
    <3>2. /\ at[Len(stk)] <= k
          /\ Waits(FALSE, text, phase, ListOf(stk[Len(stk)].kind), at[Len(stk)] + 1, k)
      BY <3>1, Zenon DEF AtTop
    <3> QED BY <3>2
  <2>2. p \in 1 .. n /\ p < n
    <3>1. p \in 1 .. n
      BY <1>0, <1>3 DEF Opened
    <3> QED BY <2>1, <3>1
  <2>3. /\ nt \in {"members", "elements"}
        /\ Closing(stk[h].kind) = ClosingOf(nt)
    BY <1>3 DEF ListOf, Closing, ClosingOf
  <2>4. Refuses(phase, stk[h].kind, text[n].type)
    OBVIOUS
  <2> HIDE DEF n, nt, p
  <2>5. b \in 1 .. n /\ n \in 1 .. n /\ b <= n
    BY <1>0, <2>2
  <2> HIDE DEF b
  <2>a. SUFFICES Stuck(text, nt, b)
    BY <1>0, <1>3, <2>2, TopStuck DEF nt, b, p
  <2>6. CASE phase = "value"
    <3>1. Waits(FALSE, text, "value", nt, b, n - 1)
      BY <1>0, <2>1, <2>6
    <3> QED BY <1>0, <1>1, <2>3, <2>5, <2>6, <3>1, WaitsStuck
  <2>7. CASE phase = "key"
    <3>1. nt = "members" /\ Separated(FALSE, text, "members", b, n - 1)
      BY <1>0, <2>1, <2>7 DEF Waits
    <3>2. text[n].type # "s"
      BY <2>4, <2>7 DEF Refuses
    <3>3. Stuck(text, "members", n)
      BY <1>0, <2>5, <3>2, NoKey
    <3> QED BY <1>0, <2>5, <3>1, <3>3, SeparatedStuck
  <2>8. CASE phase = "colon"
    <3>1. nt = "members" /\ b <= k /\ Separated(FALSE, text, "members", b, k - 1)
      BY <2>1, <2>8 DEF Waits
    <3>2. text[n].type # NameSeparator
      BY <2>4, <2>8 DEF Refuses
    <3>3. k \in 1 .. n /\ k + 1 = n
      BY <1>0, <2>5, <3>1
    <3>4. Stuck(text, "members", k)
      BY <1>0, <3>2, <3>3, NoKey
    <3> QED BY <1>0, <2>5, <3>1, <3>3, <3>4, SeparatedStuck
  <2>9. CASE phase = "next"
    <3>1. b <= k /\ Derives(text, FALSE)[<<nt, b, k>>]
      BY <2>1, <2>9 DEF Waits
    <3>2. text[k + 1].type # ValueSeparator /\ text[k + 1].type # ClosingOf(nt)
      BY <2>3, <2>4, <2>9 DEF Refuses, n
    <3>3. b \in 1 .. k
      BY <2>5, <3>1
    <3> QED BY <2>3, <3>1, <3>2, <3>3, NoNext
  <2> QED BY <2>4, <2>6, <2>7, <2>8, <2>9 DEF Refuses
<1> QED BY <1>2, <1>3

\* The state says so of what was read, when the decoder refuses a token.
LEMMA RefusalStep ==
  ASSUME IInv, Reading, pc \notin Stopped, "noroom" \notin lenient,
         NEW tok \in Tokens, read' = Append(read, tok),
         Refuses(pc, Last(stack).kind, tok.type)
  PROVE  ~IsValuePrefix(read', FALSE)
<1> DEFINE k == Len(read)
           h == Len(stack)
<1>1. TypeOK /\ stack \in Seq(Frames) /\ h \in Nat
  BY DEF IInv, TypeOK
<1>2. k \in Nat /\ Len(read') = k + 1 /\ read'[k + 1] = tok
  BY <1>1, ReadOn
<1>3. PICK at : Progress(FALSE, read, stack, pc, at)
  BY DEF Reading, Langs, LangsOf
<1>4. /\ Opened(FALSE, read', stack, at)
      /\ AtTop(FALSE, read', stack, pc, at, k)
  BY <1>3, StillThere
<1>5. \A i \in 1 .. h : stack[i].kind \in {"object", "array"}
  <2>1. \A i \in 1 .. h : stack[i] \in Frames
    BY <1>1
  <2> QED BY <2>1 DEF Frames
<1>6. Refuses(pc, stack[h].kind, read'[k + 1].type)
  BY <1>2 DEF Last
<1> HIDE DEF k
<1> QED BY <1>1, <1>2, <1>4, <1>5, <1>6, RefusalIsRight

\* Nothing is refused for the sake of the grammar by a step that goes on, or
\* that fails with another error.
LEMMA NotRefused ==
  ASSUME pc' # "done" \/ result' \notin {"INVALID_JSON", "NOT_SUPPORT"}
  PROVE  ~Refused'
BY DEF Refused

LEMMA ReturnIsNoRefusal ==
  ASSUME NEW stk, NEW mm, Return(stk, mm) PROVE ~Refused'
<1>1. pc' # "done" \/ result' \notin {"INVALID_JSON", "NOT_SUPPORT"}
  BY DEF Return
<1> QED BY <1>1, NotRefused

LEMMA OtherFailure ==
  ASSUME NEW err \in {"TYPE_NOT_MATCH", "OVERFLOW", "INSUFFICIENT_SPACE"}, Fail(err)
  PROVE  ~Refused'
<1>1. result' \notin {"INVALID_JSON", "NOT_SUPPORT"}
  BY DEF Fail
<1> QED BY <1>1, NotRefused

\* decode_value on a scalar, or on an opening bracket.
LEMMA ValueIsNoRefusal ==
  ASSUME IInv, DecodeNull \/ DecodeBool \/ DecodeString \/ DecodeNumber
               \/ OpenObject \/ OpenArray
  PROVE  ~Refused'
<1>1. CASE DecodeNull
  <2>1. PICK tok \in Tokens : consumed' = Append(consumed, tok) /\ tok.type = "n"
    BY <1>1 DEF DecodeNull, Take, Read, Consume
  <2>2. Last(consumed') = tok
    BY <2>1, TakenLast DEF IInv
  <2>3. CASE Reject("NOT_SUPPORT")
    <3>1. result' # "INVALID_JSON" /\ Last(consumed').type = "n"
      BY <2>1, <2>2, <2>3 DEF Reject, Fail
    <3> QED BY <3>1 DEF Refused
  <2>4. CASE \E mm : Return(stack, mm)
    BY <2>4, ReturnIsNoRefusal
  <2>5. CASE Reject("TYPE_NOT_MATCH")
    BY <2>5, OtherFailure DEF Reject
  <2> QED BY <1>1, <2>3, <2>4, <2>5 DEF DecodeNull, Ignore
<1>2. CASE DecodeBool
  <2>1. (\E mm : Return(stack, mm)) \/ Reject("TYPE_NOT_MATCH")
    BY <1>2 DEF DecodeBool, Ignore, StoreValue
  <2> QED BY <2>1, ReturnIsNoRefusal, OtherFailure DEF Reject
<1>3. CASE DecodeString
  <2>1. (\E mm : Return(stack, mm)) \/ Reject("TYPE_NOT_MATCH") \/ Fail("INSUFFICIENT_SPACE")
    BY <1>3 DEF DecodeString, Ignore, StoreValue
  <2> QED BY <2>1, ReturnIsNoRefusal, OtherFailure DEF Reject
<1>4. CASE DecodeNumber
  <2>1. (\E mm : Return(stack, mm)) \/ Reject("TYPE_NOT_MATCH") \/ Reject("OVERFLOW")
    BY <1>4 DEF DecodeNumber, Ignore, StoreValue
  <2> QED BY <2>1, ReturnIsNoRefusal, OtherFailure DEF Reject
<1>5. CASE OpenObject
  <2>1. pc' # "done"
    BY <1>5 DEF OpenObject
  <2> QED BY <2>1, NotRefused
<1>6. CASE OpenArray
  <2>1. (\E mm : Return(stack, mm)) \/ pc' # "done"
    BY <1>6 DEF OpenArray, EndArray
  <2> QED BY <2>1, ReturnIsNoRefusal, NotRefused
<1> QED BY <1>1, <1>2, <1>3, <1>4, <1>5, <1>6

\* The steps that refuse a token.
LEMMA RefuseTokenIsRight ==
  ASSUME IInv, Reading, "noroom" \notin lenient, RefuseToken
  PROVE  ~IsValuePrefix(read', FALSE)
<1>1. PICK tok \in Tokens :
        /\ pc = "value" /\ read' = Append(read, tok)
        /\ tok.type \in {"}", "]", ":", ","}
  BY DEF RefuseToken, Take, Read
<1>2. tok.type \notin ScalarTypes \cup {LeftBrace, LeftBracket}
  BY <1>1 DEF ScalarTypes, LeftBrace, LeftBracket
<1>3. pc \notin Stopped /\ Refuses(pc, Last(stack).kind, tok.type)
  BY <1>1, <1>2 DEF Refuses, Stopped
<1> QED BY <1>1, <1>3, RefusalStep

LEMMA ObjectKeyIsRight ==
  ASSUME IInv, Reading, "noroom" \notin lenient, ObjectKey, Refused'
  PROVE  ~IsValuePrefix(read', FALSE)
<1>1. PICK tok \in Tokens :
        /\ pc = "key" /\ read' = Append(read, tok)
        /\ pc' = "colon" \/ tok.type # "s"
  BY DEF ObjectKey, Read, Expected
<1>2. pc \notin Stopped /\ Refuses(pc, Last(stack).kind, tok.type)
  BY <1>1 DEF Refuses, Stopped, Refused
<1> QED BY <1>1, <1>2, RefusalStep

LEMMA ObjectColonIsRight ==
  ASSUME IInv, Reading, "noroom" \notin lenient, ObjectColon, Refused'
  PROVE  ~IsValuePrefix(read', FALSE)
<1>1. PICK tok \in Tokens :
        /\ pc = "colon" /\ read' = Append(read, tok)
        /\ pc' \in {"undefined", "value"} \/ tok.type # NameSeparator
  BY DEF ObjectColon, LookUp, Astray, Read, Expected, NameSeparator
<1>2. pc \notin Stopped /\ Refuses(pc, Last(stack).kind, tok.type)
  BY <1>1 DEF Refuses, Stopped, Refused
<1> QED BY <1>1, <1>2, RefusalStep

LEMMA ObjectNextIsRight ==
  ASSUME IInv, Reading, "noroom" \notin lenient, ObjectNext, Refused'
  PROVE  ~IsValuePrefix(read', FALSE)
<1>1. PICK tok \in Tokens :
        /\ read' = Append(read, tok)
        /\ \/ pc' = "key"
           \/ Return(Front(stack), mem)
           \/ tok.type # ValueSeparator /\ tok.type # RightBrace
  BY DEF ObjectNext, Read, ValueSeparator, RightBrace
<1>2. pc = "next" /\ Last(stack).kind = "object" /\ Closing("object") = RightBrace
  BY DEF ObjectNext, Closing
<1>3. tok.type # ValueSeparator /\ tok.type # RightBrace
  BY <1>1, ReturnIsNoRefusal DEF Refused
<1>4. pc \notin Stopped /\ Refuses(pc, Last(stack).kind, tok.type)
  BY <1>2, <1>3 DEF Refuses, Stopped
<1> QED BY <1>1, <1>4, RefusalStep

LEMMA ArrayNextIsRight ==
  ASSUME IInv, Reading, "noroom" \notin lenient, ArrayNext, Refused'
  PROVE  ~IsValuePrefix(read', FALSE)
<1>1. PICK tok \in Tokens :
        \/ pc' = "value"
        \/ \E f : EndArray(Front(stack), f, f.count)
        \/ /\ tok.type # ValueSeparator /\ tok.type # RightBracket
           /\ read' = Append(read, tok)
  BY Zenon DEF ArrayNext, ValueSeparator, RightBracket
<1>2. pc = "next" /\ Last(stack).kind = "array" /\ Closing("array") = RightBracket
  BY DEF ArrayNext, Closing
<1>3. ~(\E f : EndArray(Front(stack), f, f.count))
  BY ReturnIsNoRefusal DEF EndArray
<1>4. /\ tok.type # ValueSeparator /\ tok.type # RightBracket
      /\ read' = Append(read, tok)
  BY <1>1, <1>3 DEF Refused
<1>5. pc \notin Stopped /\ Refuses(pc, Last(stack).kind, tok.type)
  BY <1>2, <1>4 DEF Refuses, Stopped
<1> QED BY <1>4, <1>5, RefusalStep

\* An error of the lexer is its own affair.
LEMMA LexErrorIsNoRefusal ==
  ASSUME IInv, LexError PROVE ~Refused'
<1>1. PICK fault \in Faults : consumed' = Append(consumed, fault)
  BY DEF LexError
<1>2. Last(consumed') = fault /\ consumed' # << >>
  BY <1>1, TakenLast DEF IInv
<1> QED BY <1>2 DEF Refused, Faulty

LEMMA NextRefusal ==
  IInv /\ Verdicts /\ RefusedIsMalformed /\ [Next]_vars => RefusedIsMalformed'
<1> SUFFICES ASSUME IInv, Verdicts, RefusedIsMalformed, [Next]_vars, Refused'
             PROVE  ~IsValuePrefix(read', FALSE)
  BY DEF RefusedIsMalformed
<1>0. CASE UNCHANGED vars
  BY <1>0 DEF vars, RefusedIsMalformed, Refused, Faulty
<1>1. CASE DecodeNull \/ DecodeBool \/ DecodeString \/ DecodeNumber
           \/ OpenObject \/ OpenArray
  BY <1>1, ValueIsNoRefusal
<1>2. CASE LexError
  BY <1>2, LexErrorIsNoRefusal
<1>3. "noroom" \notin lenient'
  BY DEF Refused
<1>4. CASE RefuseToken
  BY <1>3, <1>4, RefuseTokenIsRight DEF RefuseToken, Verdicts
<1>5. CASE ObjectKey
  BY <1>3, <1>5, ObjectKeyIsRight DEF ObjectKey, Verdicts
<1>6. CASE ObjectColon
  BY <1>3, <1>6, ObjectColonIsRight DEF ObjectColon, Verdicts
<1>7. CASE ObjectNext
  BY <1>3, <1>7, ObjectNextIsRight DEF ObjectNext, Verdicts
<1>8. CASE ArrayNext
  BY <1>3, <1>8, ArrayNextIsRight DEF ArrayNext, Verdicts
<1>9. CASE Terminated
  BY <1>0, <1>9 DEF Terminated
<1> QED BY <1>0, <1>1, <1>2, <1>4, <1>5, <1>6, <1>7, <1>8, <1>9 DEF Next

\* When bo_json_decode refuses a token for where it stands, no JSON text without
\* empty objects and arrays begins with what it has read, whatever the depth:
\* these two are all that it refuses of the grammar.
THEOREM RefusedIsNoPrefix == Spec => []RefusedIsMalformed
<1>1. Init => RefusedIsMalformed
  BY DEF Init, RefusedIsMalformed, Refused
<1>2. IInv /\ Verdicts /\ RefusedIsMalformed /\ [Next]_vars => RefusedIsMalformed'
  BY NextRefusal
<1> QED BY <1>1, <1>2, Invariance, VerdictsInvariance, PTL DEF Spec
=============================================================================
