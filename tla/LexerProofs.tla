---------------------------- MODULE LexerProofs ----------------------------
(***************************************************************************)
(* The lexer on texts of every length: only the input counts, and a cut is *)
(* noticed.                                                                *)
(*                                                                         *)
(* Both compare two runs of the lexer, on memories with the same input     *)
(* (Same...) and on a shorter and a longer input (...Stands).  The loops   *)
(* of the lexer are minima of sets of positions (Skip) and one recursion   *)
(* (NextString); ScanRule is the body of that recursion, and StringRule    *)
(* shows that it computes what its equation says, by induction over the    *)
(* distance from the end of the input.                                     *)
(***************************************************************************)
EXTENDS IncrementalLexer, Induction

-----------------------------------------------------------------------------
(* Positions.                                                              *)

\* Where Skip stops: at the first byte that is not in the set.
LEMMA SkipFacts ==
  ASSUME NEW m, NEW n \in Nat, NEW p \in Nat, NEW set
  PROVE  /\ Skip(m, n, p, set) \in Nat /\ Skip(m, n, p, set) <= n + 1
         /\ \/ Skip(m, n, p, set) = n + 1
            \/ Skip(m, n, p, set) >= p /\ m[Skip(m, n, p, set)] \notin set
         /\ \A r \in p .. n : m[r] \notin set => Skip(m, n, p, set) <= r
<1> DEFINE S == {q \in p .. n : m[q] \notin set} \cup {n + 1}
<1>1. S \subseteq Nat /\ S # {} /\ n + 1 \in S
  OBVIOUS
<1>2. \A x \in S : x = n + 1 \/ (x \in p .. n /\ m[x] \notin set)
  OBVIOUS
<1>3. \A r \in p .. n : m[r] \notin set => r \in S
  OBVIOUS
<1>4. Skip(m, n, p, set) = CHOOSE x \in S : \A y \in S : x <= y
  BY DEF Skip, Min
<1> HIDE DEF S
<1>5. \E x \in S : \A y \in S : x <= y
  BY <1>1, LeastElement
<1>6. Skip(m, n, p, set) \in S /\ \A y \in S : Skip(m, n, p, set) <= y
  BY <1>4, <1>5
<1> DEFINE s == Skip(m, n, p, set)
<1> HIDE DEF s
<1>7. s \in S /\ \A y \in S : s <= y
  BY <1>6 DEF s
<1>8. s \in Nat /\ s <= n + 1
  BY <1>1, <1>7
<1>9. s = n + 1 \/ (s >= p /\ m[s] \notin set)
  BY <1>2, <1>7
<1>10. \A r \in p .. n : m[r] \notin set => s <= r
  BY <1>3, <1>7
<1> QED BY <1>8, <1>9, <1>10 DEF s

\* No other position is like that.
LEMMA SkipUnique ==
  ASSUME NEW m, NEW n \in Nat, NEW p \in Nat, NEW set, NEW q \in p .. n,
         m[q] \notin set, \A r \in p .. q - 1 : m[r] \in set
  PROVE  Skip(m, n, p, set) = q
<1> DEFINE s == Skip(m, n, p, set)
<1>1. /\ s \in Nat /\ s <= n + 1
      /\ s = n + 1 \/ (s >= p /\ m[s] \notin set)
      /\ \A r \in p .. n : m[r] \notin set => s <= r
  BY SkipFacts
<1> HIDE DEF s
<1>2. s <= q
  BY <1>1
<1>3. ~(s < q)
  BY <1>1, <1>2
<1> QED BY <1>1, <1>2, <1>3 DEF s

-----------------------------------------------------------------------------
(* Strings.                                                                *)

\* One turn of the loop over a string.
ScanRule(m, n, p, scan, q) ==
  LET cut == Fault("end", "PARTIAL", p + 1)
      bad == Fault("escape", "TYPE_NOT_MATCH", p + 1)
  IN IF q > n THEN cut
     ELSE IF m[q] = "\"" THEN Token("s", p + 1, q, q + 1)
     ELSE IF m[q] # "\\" THEN scan[q + 1]
     ELSE IF q + 1 > n THEN cut
     ELSE IF m[q + 1] \in EscapeLetters THEN scan[q + 2]
     ELSE IF m[q + 1] # "u" \/ NoHexDigit(m, n, q) # {} THEN bad
     ELSE IF q + 5 > n THEN cut
     ELSE scan[q + 6]

Scans(m, n, p, f) == \A q \in Nat : f[q] = ScanRule(m, n, p, f, q)

SameFrom(m, w, n, q) == \A i \in q .. n : m[i] = w[i]
SameBehind(f, g, n, q) ==
  q <= n => f[q + 1] = g[q + 1] /\ f[q + 2] = g[q + 2] /\ f[q + 6] = g[q + 6]

\* A turn looks at the input, and at what the loop finds behind q.
LEMMA ScanRuleLocal ==
  ASSUME NEW m, NEW w, NEW n \in Nat, NEW p, NEW q \in Nat, NEW f, NEW g,
         SameFrom(m, w, n, q), SameBehind(f, g, n, q)
  PROVE  ScanRule(m, n, p, f, q) = ScanRule(w, n, p, g, q)
<1>1. NoHexDigit(m, n, q) = NoHexDigit(w, n, q)
  <2>1. \A i \in q + 2 .. q + 5 : i <= n => m[i] = w[i]
    BY DEF SameFrom
  <2> QED BY <2>1 DEF NoHexDigit
<1>2. CASE q <= n
  <2>1. m[q] = w[q]
    BY <1>2 DEF SameFrom
  <2>2. q + 1 > n \/ m[q + 1] = w[q + 1]
    BY <1>2 DEF SameFrom
  <2>3. f[q + 1] = g[q + 1] /\ f[q + 2] = g[q + 2] /\ f[q + 6] = g[q + 6]
    BY <1>2 DEF SameBehind
  <2> QED BY <1>1, <1>2, <2>1, <2>2, <2>3, Zenon DEF ScanRule
<1>3. CASE q > n
  BY <1>3, Zenon DEF ScanRule
<1> QED BY <1>2, <1>3

LEMMA ScanHasSolution ==
  ASSUME NEW m, NEW n \in Nat, NEW p
  PROVE  \E f : f = [q \in Nat |-> ScanRule(m, n, p, f, q)]
<1> DEFINE Rule(f, q) == ScanRule(m, n, p, f, q)
           Solves(f, k) == \A q \in Nat : q + k > n => f[q] = Rule(f, q)
           S == {k \in Nat : \E f : Solves(f, k)}
<1> HIDE DEF S, Solves, Rule
<1>1. ASSUME NEW q \in Nat, NEW f, NEW g, \A r \in Nat : r > q => f[r] = g[r]
      PROVE  Rule(f, q) = Rule(g, q)
  <2>1. q + 1 \in Nat /\ q + 2 \in Nat /\ q + 6 \in Nat /\ q + 1 > q /\ q + 2 > q /\ q + 6 > q
    OBVIOUS
  <2>2. f[q + 1] = g[q + 1] /\ f[q + 2] = g[q + 2] /\ f[q + 6] = g[q + 6]
    BY <1>1, <2>1
  <2>3. SameFrom(m, m, n, q) /\ SameBehind(f, g, n, q)
    BY <2>2 DEF SameFrom, SameBehind
  <2> QED BY <2>3, ScanRuleLocal DEF Rule
<1>2. ASSUME NEW f, NEW q \in Nat, q > n PROVE Rule(f, q) = Fault("end", "PARTIAL", p + 1)
  BY <1>2 DEF Rule, ScanRule
<1>3. 0 \in S
  <2> DEFINE f == [q \in Nat |-> Fault("end", "PARTIAL", p + 1)]
  <2>1. \A q \in Nat : f[q] = Fault("end", "PARTIAL", p + 1)
    OBVIOUS
  <2> HIDE DEF f
  <2>2. Solves(f, 0)
    BY <1>2, <2>1 DEF Solves
  <2> QED BY <2>2 DEF S
<1>4. ASSUME NEW k \in Nat, k \in S PROVE k + 1 \in S
  <2>1. PICK f : Solves(f, k)
    BY <1>4 DEF S
  <2> DEFINE g == [q \in Nat |-> IF q + k > n THEN f[q] ELSE Rule(f, q)]
  <2>2. \A q \in Nat : g[q] = IF q + k > n THEN f[q] ELSE Rule(f, q)
    OBVIOUS
  <2> HIDE DEF g
  <2>3. ASSUME NEW q \in Nat, q + (k + 1) > n PROVE g[q] = Rule(g, q)
    <3>1. \A r \in Nat : r > q => g[r] = f[r]
      BY <2>2, <2>3
    <3>2. Rule(f, q) = Rule(g, q)
      BY <1>1, <3>1
    <3>3. g[q] = Rule(f, q)
      BY <2>1, <2>2 DEF Solves
    <3> QED BY <3>2, <3>3
  <2>4. Solves(g, k + 1)
    BY <2>3 DEF Solves
  <2> QED BY <2>4 DEF S
<1>5. n + 1 \in S
  BY <1>3, <1>4, SetInduction
<1>6. PICK f : Solves(f, n + 1)
  BY <1>5 DEF S
<1> DEFINE e == [q \in Nat |-> Rule(f, q)]
<1>7. \A q \in Nat : e[q] = f[q] /\ e[q] = Rule(f, q)
  <2>1. \A q \in Nat : q + (n + 1) > n
    OBVIOUS
  <2> QED BY <1>6, <2>1 DEF Solves
<1>8. \A q \in Nat : Rule(f, q) = Rule(e, q)
  <2> HIDE DEF e
  <2> QED BY <1>1, <1>7
<1>9. e = [q \in Nat |-> Rule(e, q)]
  BY <1>8
<1> QED BY <1>9 DEF Rule

\* The loop does what its body says, at every position.
LEMMA StringRule ==
  ASSUME NEW m, NEW n \in Nat, NEW p
  PROVE  \E f : Scans(m, n, p, f) /\ NextString(m, n, p) = f[p + 1]
<1> DEFINE Solution(f) == f = [q \in Nat |-> ScanRule(m, n, p, f, q)]
<1>1. \E f : Solution(f)
  BY ScanHasSolution
<1>2. NextString(m, n, p) = (CHOOSE f : Solution(f))[p + 1]
  BY Zenon DEF NextString, ScanRule
<1> DEFINE scan == CHOOSE f : Solution(f)
<1> HIDE DEF Solution
<1>3. Solution(scan)
  BY <1>1
<1> HIDE DEF scan
<1>4. \A q \in Nat : scan[q] = ScanRule(m, n, p, scan, q)
  BY <1>3 DEF Solution
<1>5. NextString(m, n, p) = scan[p + 1]
  BY <1>2 DEF scan
<1> QED BY <1>4, <1>5 DEF Scans
-----------------------------------------------------------------------------
(* Only the input counts.                                                  *)

SameInput(m, w, n) == \A i \in 1 .. n : m[i] = w[i]

LEMMA SameSkip ==
  ASSUME NEW m, NEW w, NEW n \in Nat, SameInput(m, w, n), NEW p \in Nat \ {0}, NEW set
  PROVE  Skip(m, n, p, set) = Skip(w, n, p, set)
<1>1. \A q \in p .. n : m[q] = w[q]
  BY DEF SameInput
<1>2. {q \in p .. n : m[q] \notin set} = {q \in p .. n : w[q] \notin set}
  BY <1>1
<1> QED BY <1>2, Zenon DEF Skip

LEMMA SameHas ==
  ASSUME NEW m, NEW w, NEW n \in Nat, SameInput(m, w, n), NEW p \in Nat \ {0}, NEW set
  PROVE  Has(m, n, p, set) = Has(w, n, p, set)
BY DEF Has, SameInput

LEMMA SameString ==
  ASSUME NEW m, NEW w, NEW n \in Nat, SameInput(m, w, n), NEW p \in Nat
  PROVE  NextString(m, n, p) = NextString(w, n, p)
<1>1. PICK f : Scans(m, n, p, f) /\ NextString(m, n, p) = f[p + 1]
  BY StringRule
<1>2. PICK g : Scans(w, n, p, g) /\ NextString(w, n, p) = g[p + 1]
  BY StringRule
<1> DEFINE Same(k) == \A q \in Nat : q >= 1 /\ q + k > n => f[q] = g[q]
           S == {k \in Nat : Same(k)}
<1>3. ASSUME NEW q \in Nat, q >= 1,
             q <= n => f[q + 1] = g[q + 1] /\ f[q + 2] = g[q + 2] /\ f[q + 6] = g[q + 6]
      PROVE  f[q] = g[q]
  <2>1. SameFrom(m, w, n, q) /\ SameBehind(f, g, n, q)
    BY <1>3 DEF SameInput, SameFrom, SameBehind
  <2>2. ScanRule(m, n, p, f, q) = ScanRule(w, n, p, g, q)
    BY <2>1, ScanRuleLocal
  <2>3. f[q] = ScanRule(m, n, p, f, q) /\ g[q] = ScanRule(w, n, p, g, q)
    BY <1>1, <1>2 DEF Scans
  <2> QED BY <2>2, <2>3
<1>4. 0 \in S
  <2>1. Same(0)
    BY <1>3
  <2> QED BY <2>1
<1>5. ASSUME NEW k \in Nat, k \in S PROVE k + 1 \in S
  <2>1. \A r \in Nat : r >= 1 /\ r + k > n => f[r] = g[r]
    BY <1>5
  <2>2. ASSUME NEW q \in Nat, q >= 1, q + (k + 1) > n PROVE f[q] = g[q]
    <3>1. f[q + 1] = g[q + 1]
      BY <2>1, <2>2
    <3>2. f[q + 2] = g[q + 2]
      BY <2>1, <2>2
    <3>3. f[q + 6] = g[q + 6]
      BY <2>1, <2>2
    <3> QED BY <2>2, <3>1, <3>2, <3>3, <1>3
  <2>3. Same(k + 1)
    BY <2>2
  <2> QED BY <2>3
<1> HIDE DEF S
<1>6. n \in S
  BY <1>4, <1>5, SetInduction
<1>7. f[p + 1] = g[p + 1]
  BY <1>6 DEF S
<1> QED BY <1>1, <1>2, <1>7

LEMMA SameKeyword ==
  ASSUME NEW m, NEW w, NEW n \in Nat, SameInput(m, w, n), NEW p \in 1 .. n,
         NEW rest, Len(rest) \in Nat
  PROVE  NextKeyword(m, n, p, rest) = NextKeyword(w, n, p, rest)
<1>1. \A i \in 1 .. Len(rest) : Has(m, n, p + i, {rest[i]}) = Has(w, n, p + i, {rest[i]})
  BY SameHas
<1>2. {i \in 1 .. Len(rest) : ~Has(m, n, p + i, {rest[i]})}
        = {i \in 1 .. Len(rest) : ~Has(w, n, p + i, {rest[i]})}
  BY <1>1
<1>3. m[p] = w[p]
  BY DEF SameInput
<1> QED BY <1>2, <1>3, Zenon DEF NextKeyword

-----------------------------------------------------------------------------
(* Numbers: every part ends at a position within the input or right behind *)
(* it, or with a fault.                                                    *)

Part(v, n) == v.pos \in 1 .. n + 1 /\ (v = Reached(v.pos) \/ v.err # "NONE")

LEMMA ReachedPart ==
  ASSUME NEW n \in Nat, NEW p \in 1 .. n + 1
  PROVE  Part(Reached(p), n) /\ Reached(p).pos = p /\ Reached(p).err = "NONE"
           /\ Reached(p).type = "0"
BY DEF Part, Reached, Token

LEMMA FaultPart ==
  ASSUME NEW n \in Nat, NEW p \in 1 .. n + 1, NEW type, NEW err, err # "NONE"
  PROVE  Part(Fault(type, err, p), n) /\ Fault(type, err, p).type = type
           /\ Fault(type, err, p).err = err
BY DEF Part, Fault

LEMMA DigitsPart ==
  ASSUME NEW m, NEW n \in Nat, NEW p \in 1 .. n + 1
  PROVE  Part(NeedDigits(m, n, p), n)
<1> DEFINE s == Skip(m, n, p, Digit)
<1>1. CASE p > n
  BY <1>1, FaultPart DEF NeedDigits
<1>2. CASE p <= n /\ m[p] \notin Digit
  BY <1>2, FaultPart DEF NeedDigits
<1>3. CASE p <= n /\ m[p] \in Digit
  <2>1. p \in Nat
    OBVIOUS
  <2>2. s \in Nat /\ s <= n + 1 /\ (s = n + 1 \/ s >= p)
    BY <2>1, SkipFacts
  <2> HIDE DEF s
  <2>3. s \in 1 .. n + 1
    BY <2>2
  <2>4. NeedDigits(m, n, p) = Reached(s)
    BY <1>3 DEF NeedDigits, s
  <2> QED BY <2>3, <2>4, ReachedPart
<1> QED BY <1>1, <1>2, <1>3

LEMMA IntegerIsPart ==
  ASSUME NEW m, NEW n \in Nat, NEW p \in 1 .. n
  PROVE  Part(IntegerPart(m, n, p), n)
<1> DEFINE q == IF Has(m, n, p, {"-"}) THEN p + 1 ELSE p
<1>1. q \in 1 .. n + 1
  OBVIOUS
<1> HIDE DEF q
<1>2. CASE ~Has(m, n, q, {"0"})
  <2>1. IntegerPart(m, n, p) = NeedDigits(m, n, q)
    BY <1>2 DEF IntegerPart, q
  <2> QED BY <1>1, <2>1, DigitsPart
<1>3. CASE Has(m, n, q, {"0"})
  <2>1. q + 1 \in 1 .. n + 1
    BY <1>1, <1>3 DEF Has
  <2>2. IntegerPart(m, n, p) \in {Fault("spelling", "INVALID_JSON", q + 1), Reached(q + 1)}
    BY <1>3 DEF IntegerPart, q
  <2> QED BY <2>1, <2>2, ReachedPart, FaultPart
<1> QED BY <1>2, <1>3

LEMMA FractionIsPart ==
  ASSUME NEW m, NEW n \in Nat, NEW p \in 1 .. n + 1
  PROVE  Part(FractionPart(m, n, p), n)
<1>1. CASE Has(m, n, p, {"."})
  <2>1. p + 1 \in 1 .. n + 1
    BY <1>1 DEF Has
  <2> QED BY <1>1, <2>1, DigitsPart DEF FractionPart
<1>2. CASE ~Has(m, n, p, {"."})
  BY <1>2, ReachedPart DEF FractionPart
<1> QED BY <1>1, <1>2

LEMMA ExponentIsPart ==
  ASSUME NEW m, NEW n \in Nat, NEW p \in 1 .. n + 1
  PROVE  Part(ExponentPart(m, n, p), n)
<1>1. CASE Has(m, n, p, {"e", "E"})
  <2> DEFINE q == IF Has(m, n, p + 1, {"+", "-"}) THEN p + 2 ELSE p + 1
  <2>1. q \in 1 .. n + 1
    BY <1>1 DEF Has
  <2>2. ExponentPart(m, n, p) = NeedDigits(m, n, q)
    BY <1>1 DEF ExponentPart
  <2> HIDE DEF q
  <2> QED BY <2>1, <2>2, DigitsPart
<1>2. CASE ~Has(m, n, p, {"e", "E"})
  BY <1>2, ReachedPart DEF ExponentPart
<1> QED BY <1>1, <1>2

\* The parts of a number, one behind the other.
Fraction(m, n, integer) ==
  IF integer.err # "NONE" THEN integer ELSE FractionPart(m, n, integer.pos)
Exponent(m, n, fraction) ==
  IF fraction.err # "NONE" THEN fraction ELSE ExponentPart(m, n, fraction.pos)
Number(p, exponent) ==
  IF exponent.err # "NONE" THEN exponent
  ELSE Token("0", p, exponent.pos, exponent.pos)

LEMMA NumberParts ==
  ASSUME NEW m, NEW n, NEW p
  PROVE  NextNumber(m, n, p)
           = Number(p, Exponent(m, n, Fraction(m, n, IntegerPart(m, n, p))))
BY Zenon DEF NextNumber, Number, Exponent, Fraction

LEMMA PartsOfNumber ==
  ASSUME NEW m, NEW n \in Nat, NEW v, Part(v, n)
  PROVE  Part(Fraction(m, n, v), n) /\ Part(Exponent(m, n, v), n)
<1>1. v.pos \in 1 .. n + 1
  BY DEF Part
<1> DEFINE p == v.pos
<1> HIDE DEF p
<1>2. p \in 1 .. n + 1
  BY <1>1 DEF p
<1>3. Part(FractionPart(m, n, p), n) /\ Part(ExponentPart(m, n, p), n)
  BY <1>2, FractionIsPart, ExponentIsPart
<1> QED BY <1>3 DEF Fraction, Exponent, p

LEMMA SameDigits ==
  ASSUME NEW m, NEW w, NEW n \in Nat, SameInput(m, w, n), NEW p \in Nat \ {0}
  PROVE  NeedDigits(m, n, p) = NeedDigits(w, n, p)
<1>1. CASE p > n
  BY <1>1 DEF NeedDigits
<1>2. CASE p <= n
  <2>1. m[p] = w[p]
    BY <1>2 DEF SameInput
  <2>2. Skip(m, n, p, Digit) = Skip(w, n, p, Digit)
    BY SameSkip
  <2> QED BY <2>1, <2>2, Zenon DEF NeedDigits
<1> QED BY <1>1, <1>2

LEMMA SameInteger ==
  ASSUME NEW m, NEW w, NEW n \in Nat, SameInput(m, w, n), NEW p \in 1 .. n
  PROVE  IntegerPart(m, n, p) = IntegerPart(w, n, p)
<1> DEFINE q == IF Has(m, n, p, {"-"}) THEN p + 1 ELSE p
<1>1. q \in Nat \ {0} /\ q + 1 \in Nat \ {0}
  OBVIOUS
<1>2. q = IF Has(w, n, p, {"-"}) THEN p + 1 ELSE p
  BY SameHas
<1> HIDE DEF q
<1>3. /\ Has(m, n, q, {"0"}) = Has(w, n, q, {"0"})
      /\ Has(m, n, q + 1, Digit) = Has(w, n, q + 1, Digit)
  BY <1>1, SameHas
<1>4. NeedDigits(m, n, q) = NeedDigits(w, n, q)
  BY <1>1, SameDigits
<1> DEFINE Behind(x, d) == IF ~Has(x, n, q, {"0"}) THEN d
                    ELSE IF Has(x, n, q + 1, Digit) THEN Fault("spelling", "INVALID_JSON", q + 1)
                    ELSE Reached(q + 1)
<1>5. IntegerPart(m, n, p) = Behind(m, NeedDigits(m, n, q))
  BY Zenon DEF IntegerPart, q
<1>6. IntegerPart(w, n, p) = Behind(w, NeedDigits(w, n, q))
  BY <1>2, Zenon DEF IntegerPart
<1> QED BY <1>3, <1>4, <1>5, <1>6

LEMMA SameFraction ==
  ASSUME NEW m, NEW w, NEW n \in Nat, SameInput(m, w, n), NEW p \in 1 .. n + 1
  PROVE  FractionPart(m, n, p) = FractionPart(w, n, p)
<1>1. Has(m, n, p, {"."}) = Has(w, n, p, {"."})
  BY SameHas
<1>2. NeedDigits(m, n, p + 1) = NeedDigits(w, n, p + 1)
  BY SameDigits
<1> QED BY <1>1, <1>2, Zenon DEF FractionPart

LEMMA SameExponent ==
  ASSUME NEW m, NEW w, NEW n \in Nat, SameInput(m, w, n), NEW p \in 1 .. n + 1
  PROVE  ExponentPart(m, n, p) = ExponentPart(w, n, p)
<1>1. /\ Has(m, n, p, {"e", "E"}) = Has(w, n, p, {"e", "E"})
      /\ Has(m, n, p + 1, {"+", "-"}) = Has(w, n, p + 1, {"+", "-"})
  BY SameHas
<1>2. /\ NeedDigits(m, n, p + 1) = NeedDigits(w, n, p + 1)
      /\ NeedDigits(m, n, p + 2) = NeedDigits(w, n, p + 2)
  BY SameDigits
<1> QED BY <1>1, <1>2 DEF ExponentPart

LEMMA SameNumber ==
  ASSUME NEW m, NEW w, NEW n \in Nat, SameInput(m, w, n), NEW p \in 1 .. n
  PROVE  NextNumber(m, n, p) = NextNumber(w, n, p)
<1> DEFINE i == IntegerPart(m, n, p)
           f == Fraction(m, n, i)
<1>1. Part(i, n) /\ IntegerPart(w, n, p) = i
  BY IntegerIsPart, SameInteger
<1> HIDE DEF i
<1>2. Part(f, n)
  BY <1>1, PartsOfNumber
<1>3. FractionPart(m, n, i.pos) = FractionPart(w, n, i.pos)
  BY <1>1, SameFraction DEF Part
<1>4. Fraction(w, n, i) = f
  BY <1>3, Zenon DEF Fraction
<1> HIDE DEF f
<1>5. ExponentPart(m, n, f.pos) = ExponentPart(w, n, f.pos)
  BY <1>2, SameExponent DEF Part
<1>6. Exponent(m, n, f) = Exponent(w, n, f)
  BY <1>5, Zenon DEF Exponent
<1>7. NextNumber(m, n, p) = Number(p, Exponent(m, n, f))
  BY NumberParts DEF i, f
<1>8. NextNumber(w, n, p) = Number(p, Exponent(w, n, f))
  BY <1>1, <1>4, NumberParts
<1> QED BY <1>6, <1>7, <1>8

-----------------------------------------------------------------------------
(* lexer_next: the character decides.                                      *)

\* The keywords behind their first character.
OfTrue == <<"r", "u", "e">>
OfFalse == <<"a", "l", "s", "e">>
OfNull == <<"u", "l", "l">>

\* What lexer_next finds at q, where no blank is.
TokenAt(m, n, q) ==
  CASE m[q] \in Symbols        -> NextSymbol(m, q)
    [] m[q] = "\""             -> NextString(m, n, q)
    [] m[q] = "t"              -> NextKeyword(m, n, q, OfTrue)
    [] m[q] = "f"              -> NextKeyword(m, n, q, OfFalse)
    [] m[q] = "n"              -> NextKeyword(m, n, q, OfNull)
    [] m[q] \in Digit \cup {"-"} -> NextNumber(m, n, q)
    [] OTHER                   -> Fault("character", "PARTIAL", q)

LEMMA LexNextRule ==
  ASSUME NEW m, NEW n, NEW p
  PROVE  LexNext(m, n, p)
           = IF Skip(m, n, p, Blanks) > n THEN Fault("end", "PARTIAL", Skip(m, n, p, Blanks))
             ELSE TokenAt(m, n, Skip(m, n, p, Blanks))
BY Zenon DEF LexNext, TokenAt, OfTrue, OfFalse, OfNull

\* The same with tests that exclude each other.
OtherBegins == {"\"", "t", "f", "n"}

LEMMA TokenAtRule ==
  ASSUME NEW m, NEW n, NEW q
  PROVE  /\ m[q] \in Symbols => TokenAt(m, n, q) = NextSymbol(m, q)
         /\ m[q] = "\"" => TokenAt(m, n, q) = NextString(m, n, q)
         /\ m[q] = "t" => TokenAt(m, n, q) = NextKeyword(m, n, q, OfTrue)
         /\ m[q] = "f" => TokenAt(m, n, q) = NextKeyword(m, n, q, OfFalse)
         /\ m[q] = "n" => TokenAt(m, n, q) = NextKeyword(m, n, q, OfNull)
         /\ m[q] \in Digit \cup {"-"} => TokenAt(m, n, q) = NextNumber(m, n, q)
         /\ m[q] \notin Symbols \cup OtherBegins \cup Digit \cup {"-"} =>
              TokenAt(m, n, q) = Fault("character", "PARTIAL", q)
<1> DEFINE c == m[q]
<1>1. c \in Symbols => c \notin OtherBegins \cup Digit \cup {"-"}
  BY DEF Symbols, OtherBegins, Digit
<1>2. c \in Digit \cup {"-"} => c \notin OtherBegins
  BY DEF OtherBegins, Digit
<1>3. CASE c \in Symbols
  BY <1>3, <1>1, Zenon DEF TokenAt, OtherBegins
<1>4. CASE c = "\""
  BY <1>4, <1>1, <1>2, Zenon DEF TokenAt, OtherBegins
<1>5. CASE c = "t"
  BY <1>5, <1>1, <1>2, Zenon DEF TokenAt, OtherBegins
<1>6. CASE c = "f"
  BY <1>6, <1>1, <1>2, Zenon DEF TokenAt, OtherBegins
<1>7. CASE c = "n"
  BY <1>7, <1>1, <1>2, Zenon DEF TokenAt, OtherBegins
<1>8. CASE c \in Digit \cup {"-"}
  BY <1>8, <1>1, <1>2, Zenon DEF TokenAt, OtherBegins
<1>9. CASE c \notin Symbols \cup OtherBegins \cup Digit \cup {"-"}
  BY <1>9, Zenon DEF TokenAt, OtherBegins
<1> QED BY <1>3, <1>4, <1>5, <1>6, <1>7, <1>8, <1>9, Zenon DEF OtherBegins

LEMMA KeywordLengths ==
  Len(OfTrue) \in Nat /\ Len(OfFalse) \in Nat /\ Len(OfNull) \in Nat
BY DEF OfTrue, OfFalse, OfNull

LEMMA SameTokenAt ==
  ASSUME NEW m, NEW w, NEW n \in Nat, SameInput(m, w, n), NEW q \in 1 .. n
  PROVE  TokenAt(m, n, q) = TokenAt(w, n, q)
<1>1. m[q] = w[q]
  BY DEF SameInput
<1>2. NextSymbol(m, q) = NextSymbol(w, q)
  BY <1>1, Zenon DEF NextSymbol
<1>3. NextString(m, n, q) = NextString(w, n, q)
  BY SameString
<1>4. /\ NextKeyword(m, n, q, OfTrue) = NextKeyword(w, n, q, OfTrue)
      /\ NextKeyword(m, n, q, OfFalse) = NextKeyword(w, n, q, OfFalse)
      /\ NextKeyword(m, n, q, OfNull) = NextKeyword(w, n, q, OfNull)
  BY SameKeyword, KeywordLengths
<1>5. NextNumber(m, n, q) = NextNumber(w, n, q)
  BY SameNumber
<1> QED BY <1>1, <1>2, <1>3, <1>4, <1>5, Zenon DEF TokenAt

LEMMA SameToken ==
  ASSUME NEW m, NEW w, NEW n \in Nat, SameInput(m, w, n), NEW p \in Nat \ {0}
  PROVE  LexNext(m, n, p) = LexNext(w, n, p)
<1> DEFINE q == Skip(m, n, p, Blanks)
<1>1. Skip(w, n, p, Blanks) = q
  BY SameSkip
<1>2. /\ LexNext(m, n, p) = IF q > n THEN Fault("end", "PARTIAL", q) ELSE TokenAt(m, n, q)
      /\ LexNext(w, n, p) = IF q > n THEN Fault("end", "PARTIAL", q) ELSE TokenAt(w, n, q)
  BY <1>1, LexNextRule
<1>3. q \in Nat /\ (q = n + 1 \/ q >= p)
  BY SkipFacts
<1> HIDE DEF q
<1>4. q <= n => q \in 1 .. n
  BY <1>3
<1>5. q <= n => TokenAt(m, n, q) = TokenAt(w, n, q)
  BY <1>4, SameTokenAt
<1>6. CASE q > n
  BY <1>2, <1>6
<1>7. CASE ~(q > n)
  <2>1. TokenAt(m, n, q) = TokenAt(w, n, q)
    BY <1>3, <1>5, <1>7
  <2> QED BY <1>2, <1>7, <2>1
<1> QED BY <1>6, <1>7

-----------------------------------------------------------------------------
(* A longer input.                                                         *)

\* What a verdict on k bytes says of the verdict on more: nothing when it is
\* that the input ended; otherwise it stays, unless a number went up to k.
Stands(v, u, k) ==
  v.type = "end" \/ v = u \/ (v.type = "0" /\ v.pos = k + 1)

LEMMA SkipStands ==
  ASSUME NEW m, NEW k \in Nat, NEW n \in Nat, k <= n, NEW p \in Nat, NEW set,
         Skip(m, k, p, set) <= k
  PROVE  Skip(m, n, p, set) = Skip(m, k, p, set)
<1> DEFINE s == Skip(m, k, p, set)
<1>1. /\ s \in Nat
      /\ s = k + 1 \/ (s >= p /\ m[s] \notin set)
      /\ \A r \in p .. k : m[r] \notin set => s <= r
  BY SkipFacts
<1>2. s <= k
  OBVIOUS
<1> HIDE DEF s
<1>3. s \in p .. n /\ m[s] \notin set
  BY <1>1, <1>2
<1>4. \A r \in p .. s - 1 : m[r] \in set
  BY <1>1, <1>2
<1>5. Skip(m, n, p, set) = s
  BY <1>3, <1>4, SkipUnique
<1> QED BY <1>5 DEF s

LEMMA HasStands ==
  ASSUME NEW m, NEW k \in Nat, NEW n \in Nat, k <= n, NEW p \in 1 .. k, NEW set
  PROVE  Has(m, n, p, set) = Has(m, k, p, set)
BY DEF Has

\* Strings: behind every position, the rest of the string is found or cut.
LEMMA StringStands ==
  ASSUME NEW m, NEW k \in Nat, NEW n \in Nat, k <= n, NEW p \in Nat
  PROVE  NextString(m, k, p).type = "end" \/ NextString(m, k, p) = NextString(m, n, p)
<1>1. PICK f : Scans(m, k, p, f) /\ NextString(m, k, p) = f[p + 1]
  BY StringRule
<1>2. PICK g : Scans(m, n, p, g) /\ NextString(m, n, p) = g[p + 1]
  BY StringRule
<1> DEFINE Good(q) == f[q].type = "end" \/ f[q] = g[q]
           Behind(d) == \A q \in Nat : q + d > k => Good(q)
           S == {d \in Nat : Behind(d)}
<1>3. Fault("end", "PARTIAL", p + 1).type = "end"
  BY DEF Fault
<1>4. ASSUME NEW q \in Nat, q <= k => Good(q + 1) /\ Good(q + 2) /\ Good(q + 6)
      PROVE  Good(q)
  <2>1. f[q] = ScanRule(m, k, p, f, q) /\ g[q] = ScanRule(m, n, p, g, q)
    BY <1>1, <1>2 DEF Scans
  <2>2. CASE q > k
    <3>1. f[q] = Fault("end", "PARTIAL", p + 1)
      BY <2>1, <2>2, Zenon DEF ScanRule
    <3> QED BY <3>1, <1>3
  <2>3. CASE q <= k
    <3>1. ~(q > k) /\ ~(q > n)
      BY <2>3
    <3>2. CASE m[q] = "\""
      <4>1. f[q] = Token("s", p + 1, q, q + 1)
        BY <2>1, <3>1, <3>2, Zenon DEF ScanRule
      <4>2. g[q] = Token("s", p + 1, q, q + 1)
        BY <2>1, <3>1, <3>2, Zenon DEF ScanRule
      <4> QED BY <4>1, <4>2
    <3>3. CASE m[q] # "\"" /\ m[q] # "\\"
      <4>1. f[q] = f[q + 1]
        BY <2>1, <3>1, <3>3, Zenon DEF ScanRule
      <4>2. g[q] = g[q + 1]
        BY <2>1, <3>1, <3>3, Zenon DEF ScanRule
      <4> QED BY <4>1, <4>2, <1>4, <2>3
    <3>4. CASE m[q] # "\"" /\ m[q] = "\\" /\ q + 1 > k
      <4>1. f[q] = Fault("end", "PARTIAL", p + 1)
        BY <2>1, <3>1, <3>4, Zenon DEF ScanRule
      <4> QED BY <4>1, <1>3
    <3>5. CASE m[q] # "\"" /\ m[q] = "\\" /\ q + 1 <= k
      <4>1. ~(q + 1 > k) /\ ~(q + 1 > n)
        BY <3>5
      <4>2. CASE m[q + 1] \in EscapeLetters
        <5>1. f[q] = f[q + 2]
          BY <2>1, <3>1, <3>5, <4>1, <4>2, Zenon DEF ScanRule
        <5>2. g[q] = g[q + 2]
          BY <2>1, <3>1, <3>5, <4>1, <4>2, Zenon DEF ScanRule
        <5> QED BY <5>1, <5>2, <1>4, <2>3
      <4>3. CASE m[q + 1] \notin EscapeLetters
                 /\ (m[q + 1] # "u" \/ NoHexDigit(m, k, q) # {})
        <5>1. f[q] = Fault("escape", "TYPE_NOT_MATCH", p + 1)
          BY <2>1, <3>1, <3>5, <4>1, <4>3, Zenon DEF ScanRule
        <5>2. NoHexDigit(m, k, q) \subseteq NoHexDigit(m, n, q)
          BY DEF NoHexDigit
        <5>3. m[q + 1] # "u" \/ NoHexDigit(m, n, q) # {}
          BY <4>3, <5>2
        <5>4. g[q] = Fault("escape", "TYPE_NOT_MATCH", p + 1)
          BY <2>1, <3>1, <3>5, <4>1, <4>3, <5>3, Zenon DEF ScanRule
        <5> QED BY <5>1, <5>4
      <4>4. CASE m[q + 1] \notin EscapeLetters /\ m[q + 1] = "u"
                 /\ NoHexDigit(m, k, q) = {} /\ q + 5 > k
        <5>1. f[q] = Fault("end", "PARTIAL", p + 1)
          BY <2>1, <3>1, <3>5, <4>1, <4>4, Zenon DEF ScanRule
        <5> QED BY <5>1, <1>3
      <4>5. CASE m[q + 1] \notin EscapeLetters /\ m[q + 1] = "u"
                 /\ NoHexDigit(m, k, q) = {} /\ q + 5 <= k
        <5>1. NoHexDigit(m, n, q) = NoHexDigit(m, k, q)
          BY <4>5 DEF NoHexDigit
        <5>2. ~(q + 5 > k) /\ ~(q + 5 > n)
          BY <4>5
        <5>3. f[q] = f[q + 6]
          BY <2>1, <3>1, <3>5, <4>1, <4>5, <5>2, Zenon DEF ScanRule
        <5>4. g[q] = g[q + 6]
          BY <2>1, <3>1, <3>5, <4>1, <4>5, <5>1, <5>2, Zenon DEF ScanRule
        <5> QED BY <5>3, <5>4, <1>4, <2>3
      <4>6. q + 5 > k \/ q + 5 <= k
        OBVIOUS
      <4> QED BY <4>2, <4>3, <4>4, <4>5, <4>6, Zenon
    <3>6. q + 1 > k \/ q + 1 <= k
      OBVIOUS
    <3> QED BY <3>2, <3>3, <3>4, <3>5, <3>6, Zenon
  <2>4. q > k \/ q <= k
    OBVIOUS
  <2> QED BY <2>2, <2>3, <2>4
<1> HIDE DEF Good
<1>5. 0 \in S
  <2>1. Behind(0)
    BY <1>4
  <2> QED BY <2>1
<1>6. ASSUME NEW d \in Nat, d \in S PROVE d + 1 \in S
  <2>1. \A r \in Nat : r + d > k => Good(r)
    BY <1>6
  <2>2. ASSUME NEW q \in Nat, q + (d + 1) > k PROVE Good(q)
    <3>1. Good(q + 1)
      BY <2>1, <2>2
    <3>2. Good(q + 2)
      BY <2>1, <2>2
    <3>3. Good(q + 6)
      BY <2>1, <2>2
    <3> QED BY <3>1, <3>2, <3>3, <1>4
  <2>3. Behind(d + 1)
    BY <2>2
  <2> QED BY <2>3
<1> HIDE DEF S
<1>7. k \in S
  BY <1>5, <1>6, SetInduction
<1>8. Good(p + 1)
  BY <1>7 DEF S
<1> QED BY <1>1, <1>2, <1>8 DEF Good

LEMMA KeywordStands ==
  ASSUME NEW m, NEW k \in Nat, NEW n \in Nat, k <= n, NEW p \in 1 .. k,
         NEW rest, Len(rest) \in Nat
  PROVE  \/ NextKeyword(m, k, p, rest).type = "end"
         \/ NextKeyword(m, k, p, rest) = NextKeyword(m, n, p, rest)
<1> DEFINE B(j) == {i \in 1 .. Len(rest) : ~Has(m, j, p + i, {rest[i]})}
           At(b, j) == IF b = {} THEN Token(m[p], p, p + 1 + Len(rest), p + 1 + Len(rest))
                       ELSE IF p + Min(b) > j THEN Fault("end", "PARTIAL", p + Min(b))
                       ELSE Fault("spelling", "INVALID_JSON", p + Min(b))
<1>1. NextKeyword(m, k, p, rest) = At(B(k), k) /\ NextKeyword(m, n, p, rest) = At(B(n), n)
  BY Zenon DEF NextKeyword
<1>2. B(n) \subseteq B(k) /\ B(k) \subseteq 1 .. Len(rest)
  BY DEF Has
<1>3. ASSUME NEW i \in B(k), p + i <= k PROVE i \in B(n)
  BY <1>3 DEF Has
<1> DEFINE b == B(k)
           c == B(n)
<1> HIDE DEF B
<1>4. CASE b = {}
  <2>1. c = {}
    BY <1>2, <1>4
  <2> QED BY <1>1, <1>4, <2>1, Zenon
<1>5. CASE b # {}
  <2>1. b \subseteq Nat
    BY <1>2
  <2>2. PICK i \in b : \A j \in b : i <= j
    BY <1>5, <2>1, LeastElement
  <2>3. Min(b) = i
    <3>1. \A x \in b : (\A y \in b : x <= y) => x = i
      BY <2>1, <2>2
    <3> QED BY <2>2, <3>1 DEF Min
  <2>4. i \in Nat
    BY <2>1
  <2>5. CASE p + i > k
    <3>1. NextKeyword(m, k, p, rest) = Fault("end", "PARTIAL", p + i)
      BY <1>1, <1>5, <2>3, <2>5, Zenon
    <3> QED BY <3>1 DEF Fault
  <2>6. CASE p + i <= k
    <3>1. i \in c
      BY <1>3, <2>6
    <3>2. Min(c) = i
      <4>1. c \subseteq b
        BY <1>2
      <4>2. \A y \in c : i <= y
        BY <2>2, <4>1
      <4>3. \A x \in c : (\A y \in c : x <= y) => x = i
        BY <2>1, <3>1, <4>1, <4>2
      <4> QED BY <3>1, <4>2, <4>3 DEF Min
    <3>3. ~(p + i > k) /\ ~(p + i > n)
      BY <2>4, <2>6
    <3>4. c # {}
      BY <3>1
    <3>5. NextKeyword(m, k, p, rest) = Fault("spelling", "INVALID_JSON", p + i)
      BY <1>1, <1>5, <2>3, <3>3, Zenon
    <3>6. NextKeyword(m, n, p, rest) = Fault("spelling", "INVALID_JSON", p + i)
      BY <1>1, <3>2, <3>3, <3>4, Zenon
    <3> QED BY <3>5, <3>6
  <2> QED BY <2>4, <2>5, <2>6
<1> QED BY <1>4, <1>5

\* The parts of a number.
PartStands(v, u, k) == (v.type = "end" /\ v.err # "NONE") \/ v = u \/ v = Reached(k + 1)

LEMMA EndStands ==
  ASSUME NEW p, NEW u, NEW k
  PROVE  PartStands(Fault("end", "PARTIAL", p), u, k)
BY DEF PartStands, Fault

LEMMA DigitsStand ==
  ASSUME NEW m, NEW k \in Nat, NEW n \in Nat, k <= n, NEW p \in 1 .. k + 1
  PROVE  PartStands(NeedDigits(m, k, p), NeedDigits(m, n, p), k)
<1>1. CASE p > k
  <2>1. NeedDigits(m, k, p) = Fault("end", "PARTIAL", p)
    BY <1>1, Zenon DEF NeedDigits
  <2> QED BY <2>1, EndStands
<1>2. CASE p <= k
  <2>1. ~(p > k) /\ ~(p > n)
    BY <1>2
  <2>2. CASE m[p] \notin Digit
    <3>1. NeedDigits(m, k, p) = NeedDigits(m, n, p)
      BY <2>1, <2>2, Zenon DEF NeedDigits
    <3> QED BY <3>1 DEF PartStands
  <2>3. CASE m[p] \in Digit
    <3>1. NeedDigits(m, k, p) = Reached(Skip(m, k, p, Digit))
      BY <2>1, <2>3, Zenon DEF NeedDigits
    <3>2. NeedDigits(m, n, p) = Reached(Skip(m, n, p, Digit))
      BY <2>1, <2>3, Zenon DEF NeedDigits
    <3>3. p \in Nat
      OBVIOUS
    <3>4. Skip(m, k, p, Digit) \in Nat /\ Skip(m, k, p, Digit) <= k + 1
      BY <3>3, SkipFacts
    <3>5. CASE Skip(m, k, p, Digit) <= k
      <4>1. Skip(m, n, p, Digit) = Skip(m, k, p, Digit)
        BY <3>3, <3>5, SkipStands
      <4> QED BY <3>1, <3>2, <4>1 DEF PartStands
    <3>6. CASE Skip(m, k, p, Digit) = k + 1
      BY <3>1, <3>6 DEF PartStands
    <3> QED BY <3>4, <3>5, <3>6
  <2> QED BY <2>2, <2>3
<1> QED BY <1>1, <1>2

LEMMA IntegerStands ==
  ASSUME NEW m, NEW k \in Nat, NEW n \in Nat, k <= n, NEW p \in 1 .. k
  PROVE  PartStands(IntegerPart(m, k, p), IntegerPart(m, n, p), k)
<1> DEFINE q == IF Has(m, k, p, {"-"}) THEN p + 1 ELSE p
           Behind(j, d) == IF ~Has(m, j, q, {"0"}) THEN d
                     ELSE IF Has(m, j, q + 1, Digit) THEN Fault("spelling", "INVALID_JSON", q + 1)
                     ELSE Reached(q + 1)
<1>1. q \in 1 .. k + 1
  OBVIOUS
<1>2. q = IF Has(m, n, p, {"-"}) THEN p + 1 ELSE p
  BY HasStands
<1>3. IntegerPart(m, k, p) = Behind(k, NeedDigits(m, k, q))
  BY Zenon DEF IntegerPart
<1>4. IntegerPart(m, n, p) = Behind(n, NeedDigits(m, n, q))
  BY <1>2, Zenon DEF IntegerPart
<1> HIDE DEF q
<1>5. PartStands(NeedDigits(m, k, q), NeedDigits(m, n, q), k)
  BY <1>1, DigitsStand
<1>6. CASE q = k + 1
  <2>1. ~Has(m, k, q, {"0"}) /\ q > k
    BY <1>6 DEF Has
  <2>2. IntegerPart(m, k, p) = Fault("end", "PARTIAL", q)
    BY <1>3, <2>1, Zenon DEF NeedDigits
  <2> QED BY <2>2, EndStands
<1>7. CASE q <= k
  <2>1. q \in 1 .. k
    BY <1>1, <1>7
  <2>2. Has(m, n, q, {"0"}) = Has(m, k, q, {"0"})
    BY <2>1, HasStands
  <2>3. CASE ~Has(m, k, q, {"0"})
    <3>1. IntegerPart(m, k, p) = NeedDigits(m, k, q)
      BY <1>3, <2>3, Zenon
    <3>2. IntegerPart(m, n, p) = NeedDigits(m, n, q)
      BY <1>4, <2>2, <2>3, Zenon
    <3> QED BY <3>1, <3>2, <1>5
  <2>4. CASE Has(m, k, q, {"0"}) /\ q = k
    <3>1. ~Has(m, k, q + 1, Digit)
      BY <2>1, <2>4 DEF Has
    <3>2. IntegerPart(m, k, p) = Reached(q + 1)
      BY <1>3, <2>4, <3>1, Zenon
    <3> QED BY <3>2, <2>4 DEF PartStands
  <2>5. CASE Has(m, k, q, {"0"}) /\ q + 1 \in 1 .. k
    <3>1. Has(m, n, q + 1, Digit) = Has(m, k, q + 1, Digit)
      BY <2>5, HasStands
    <3>2. CASE Has(m, k, q + 1, Digit)
      BY <1>3, <1>4, <2>2, <2>5, <3>1, <3>2 DEF PartStands
    <3>3. CASE ~Has(m, k, q + 1, Digit)
      BY <1>3, <1>4, <2>2, <2>5, <3>1, <3>3 DEF PartStands
    <3> QED BY <3>2, <3>3
  <2> QED BY <2>1, <2>3, <2>4, <2>5
<1> QED BY <1>1, <1>6, <1>7

LEMMA FractionStands ==
  ASSUME NEW m, NEW k \in Nat, NEW n \in Nat, k <= n, NEW p \in 1 .. k + 1
  PROVE  PartStands(FractionPart(m, k, p), FractionPart(m, n, p), k)
<1>1. CASE p = k + 1
  <2>1. ~Has(m, k, p, {"."})
    BY <1>1 DEF Has
  <2>2. FractionPart(m, k, p) = Reached(p)
    BY <2>1, Zenon DEF FractionPart
  <2> QED BY <1>1, <2>2 DEF PartStands
<1>2. CASE p \in 1 .. k
  <2>1. Has(m, n, p, {"."}) = Has(m, k, p, {"."})
    BY <1>2, HasStands
  <2>2. CASE Has(m, k, p, {"."})
    <3>1. p + 1 \in 1 .. k + 1
      BY <1>2
    <3>2. PartStands(NeedDigits(m, k, p + 1), NeedDigits(m, n, p + 1), k)
      BY <3>1, DigitsStand
    <3> QED BY <2>1, <2>2, <3>2 DEF FractionPart
  <2>3. CASE ~Has(m, k, p, {"."})
    BY <2>1, <2>3 DEF FractionPart, PartStands
  <2> QED BY <2>2, <2>3
<1> QED BY <1>1, <1>2

LEMMA ExponentStands ==
  ASSUME NEW m, NEW k \in Nat, NEW n \in Nat, k <= n, NEW p \in 1 .. k + 1
  PROVE  PartStands(ExponentPart(m, k, p), ExponentPart(m, n, p), k)
<1> DEFINE E(j) == Has(m, j, p, {"e", "E"})
           Sign(j) == Has(m, j, p + 1, {"+", "-"})
           Q(j) == IF Sign(j) THEN p + 2 ELSE p + 1
<1>1. ASSUME NEW j, E(j) PROVE ExponentPart(m, j, p) = NeedDigits(m, j, Q(j))
  BY <1>1, Zenon DEF ExponentPart
<1>2. ASSUME NEW j, ~E(j) PROVE ExponentPart(m, j, p) = Reached(p)
  BY <1>2, Zenon DEF ExponentPart
<1>3. CASE ~E(k) /\ p = k + 1
  <2>1. ExponentPart(m, k, p) = Reached(k + 1)
    BY <1>2, <1>3
  <2> QED BY <2>1 DEF PartStands
<1>4. CASE ~E(k) /\ p \in 1 .. k
  <2>1. E(n) = E(k)
    BY <1>4, HasStands
  <2>2. ExponentPart(m, k, p) = Reached(p) /\ ExponentPart(m, n, p) = Reached(p)
    BY <1>2, <1>4, <2>1
  <2> QED BY <2>2 DEF PartStands
<1>5. CASE E(k)
  <2>1. p \in 1 .. k
    BY <1>5 DEF Has
  <2>2. E(n)
    BY <1>5, <2>1, HasStands
  <2>3. ExponentPart(m, k, p) = NeedDigits(m, k, Q(k))
    BY <1>1, <1>5, Zenon
  <2>4. ExponentPart(m, n, p) = NeedDigits(m, n, Q(n))
    BY <1>1, <2>2, Zenon
  <2>5. CASE p = k
    <3>1. ~Sign(k) /\ p + 1 > k
      BY <2>5 DEF Has
    <3>2. ExponentPart(m, k, p) = Fault("end", "PARTIAL", p + 1)
      BY <2>3, <3>1, Zenon DEF NeedDigits
    <3> QED BY <3>2, EndStands
  <2>6. CASE p + 1 \in 1 .. k
    <3>1. Sign(n) = Sign(k)
      BY <2>6, HasStands
    <3>2. Q(n) = Q(k)
      BY <3>1, Zenon
    <3> DEFINE q == Q(k)
    <3>3. q \in 1 .. k + 1
      BY <2>6
    <3> HIDE DEF q
    <3>4. PartStands(NeedDigits(m, k, q), NeedDigits(m, n, q), k)
      BY <3>3, DigitsStand
    <3> QED BY <2>3, <2>4, <3>2, <3>4 DEF q
  <2> QED BY <2>1, <2>5, <2>6
<1> QED BY <1>3, <1>4, <1>5 DEF Has

LEMMA NumberStands ==
  ASSUME NEW m, NEW k \in Nat, NEW n \in Nat, k <= n, NEW p \in 1 .. k
  PROVE  Stands(NextNumber(m, k, p), NextNumber(m, n, p), k)
<1> DEFINE i(j) == IntegerPart(m, j, p)
           f(j) == Fraction(m, j, i(j))
           e(j) == Exponent(m, j, f(j))
<1>1. NextNumber(m, k, p) = Number(p, e(k)) /\ NextNumber(m, n, p) = Number(p, e(n))
  BY NumberParts
<1>2. /\ Part(i(k), k) /\ Part(f(k), k) /\ Part(e(k), k)
      /\ PartStands(i(k), i(n), k)
  BY IntegerIsPart, PartsOfNumber, IntegerStands
<1> HIDE DEF i
<1>3. PartStands(f(k), f(n), k)
  <2>1. CASE i(k).err # "NONE"
    <3>1. f(k) = i(k)
      BY <2>1, Zenon DEF Fraction
    <3>2. i(k) # Reached(k + 1)
      BY <2>1 DEF Reached, Token
    <3>3. CASE i(k) = i(n)
      BY <2>1, <3>1, <3>3 DEF Fraction, PartStands
    <3> QED BY <1>2, <3>1, <3>2, <3>3 DEF PartStands
  <2>2. CASE i(k).err = "NONE" /\ i(k) = i(n)
    <3> DEFINE q == i(k).pos
    <3>1. q \in 1 .. k + 1
      BY <1>2 DEF Part
    <3>2. f(k) = FractionPart(m, k, q) /\ f(n) = FractionPart(m, n, q)
      BY <2>2, Zenon DEF Fraction
    <3> HIDE DEF q
    <3> QED BY <3>1, <3>2, FractionStands
  <2>3. CASE i(k) = Reached(k + 1)
    <3>1. i(k).err = "NONE" /\ i(k).pos = k + 1
      BY <2>3 DEF Reached, Token
    <3>2. f(k) = FractionPart(m, k, k + 1)
      BY <3>1, Zenon DEF Fraction
    <3>3. ~Has(m, k, k + 1, {"."})
      BY DEF Has
    <3>4. f(k) = Reached(k + 1)
      BY <3>2, <3>3, Zenon DEF FractionPart
    <3> QED BY <3>4 DEF PartStands
  <2> QED BY <1>2, <2>1, <2>2, <2>3 DEF PartStands
<1> HIDE DEF f
<1>4. PartStands(e(k), e(n), k)
  <2>1. CASE f(k).err # "NONE"
    <3>1. e(k) = f(k)
      BY <2>1, Zenon DEF Exponent
    <3>2. f(k) # Reached(k + 1)
      BY <2>1 DEF Reached, Token
    <3>3. CASE f(k) = f(n)
      BY <2>1, <3>1, <3>3 DEF Exponent, PartStands
    <3> QED BY <1>3, <3>1, <3>2, <3>3 DEF PartStands
  <2>2. CASE f(k).err = "NONE" /\ f(k) = f(n)
    <3> DEFINE q == f(k).pos
    <3>1. q \in 1 .. k + 1
      BY <1>2 DEF Part
    <3>2. e(k) = ExponentPart(m, k, q) /\ e(n) = ExponentPart(m, n, q)
      BY <2>2, Zenon DEF Exponent
    <3> HIDE DEF q
    <3> QED BY <3>1, <3>2, ExponentStands
  <2>3. CASE f(k) = Reached(k + 1)
    <3>1. f(k).err = "NONE" /\ f(k).pos = k + 1
      BY <2>3 DEF Reached, Token
    <3>2. e(k) = ExponentPart(m, k, k + 1)
      BY <3>1, Zenon DEF Exponent
    <3>3. ~Has(m, k, k + 1, {"e", "E"})
      BY DEF Has
    <3>4. e(k) = Reached(k + 1)
      BY <3>2, <3>3, Zenon DEF ExponentPart
    <3> QED BY <3>4 DEF PartStands
  <2> QED BY <1>3, <2>1, <2>2, <2>3 DEF PartStands
<1> HIDE DEF e
<1>5. CASE e(k).err # "NONE"
  <2>1. Number(p, e(k)) = e(k)
    BY <1>5, Zenon DEF Number
  <2>2. e(k) # Reached(k + 1)
    BY <1>5 DEF Reached, Token
  <2> QED BY <1>1, <1>4, <2>1, <2>2 DEF PartStands, Stands
<1>6. CASE e(k).err = "NONE" /\ e(k) = e(n)
  BY <1>1, <1>6 DEF Stands
<1>7. CASE e(k) = Reached(k + 1)
  <2>1. e(k).err = "NONE" /\ e(k).pos = k + 1
    BY <1>7 DEF Reached, Token
  <2>2. Number(p, e(k)) = Token("0", p, k + 1, k + 1)
    BY <2>1, Zenon DEF Number
  <2> QED BY <1>1, <2>2 DEF Stands, Token
<1> QED BY <1>4, <1>5, <1>6, <1>7 DEF PartStands

LEMMA TokenAtStands ==
  ASSUME NEW m, NEW k \in Nat, NEW n \in Nat, k <= n, NEW q \in 1 .. k
  PROVE  Stands(TokenAt(m, k, q), TokenAt(m, n, q), k)
<1>1. CASE m[q] \in Symbols
  <2>1. TokenAt(m, k, q) = TokenAt(m, n, q)
    BY <1>1, TokenAtRule
  <2> QED BY <2>1 DEF Stands
<1>2. CASE m[q] = "\""
  <2>1. TokenAt(m, k, q) = NextString(m, k, q) /\ TokenAt(m, n, q) = NextString(m, n, q)
    BY <1>2, TokenAtRule
  <2>2. NextString(m, k, q).type = "end" \/ NextString(m, k, q) = NextString(m, n, q)
    BY StringStands
  <2> QED BY <2>1, <2>2 DEF Stands
<1>3. ASSUME NEW rest, Len(rest) \in Nat,
             TokenAt(m, k, q) = NextKeyword(m, k, q, rest),
             TokenAt(m, n, q) = NextKeyword(m, n, q, rest)
      PROVE  Stands(TokenAt(m, k, q), TokenAt(m, n, q), k)
  BY <1>3, KeywordStands DEF Stands
<1>4. CASE m[q] = "t"
  BY <1>3, <1>4, TokenAtRule, KeywordLengths
<1>5. CASE m[q] = "f"
  BY <1>3, <1>5, TokenAtRule, KeywordLengths
<1>6. CASE m[q] = "n"
  BY <1>3, <1>6, TokenAtRule, KeywordLengths
<1>7. CASE m[q] \in Digit \cup {"-"}
  <2>1. TokenAt(m, k, q) = NextNumber(m, k, q) /\ TokenAt(m, n, q) = NextNumber(m, n, q)
    BY <1>7, TokenAtRule
  <2> QED BY <2>1, NumberStands
<1>8. CASE m[q] \notin Symbols \cup OtherBegins \cup Digit \cup {"-"}
  <2>1. TokenAt(m, k, q) = TokenAt(m, n, q)
    BY <1>8, TokenAtRule
  <2> QED BY <2>1 DEF Stands
<1> QED BY <1>1, <1>2, <1>4, <1>5, <1>6, <1>7, <1>8, Zenon DEF OtherBegins

LEMMA VerdictStands ==
  ASSUME NEW m, NEW k \in Nat, NEW n \in Nat, k <= n
  PROVE  Stands(LexNext(m, k, 1), LexNext(m, n, 1), k)
<1> DEFINE q == Skip(m, k, 1, Blanks)
<1>1. q \in Nat /\ (q = k + 1 \/ q >= 1) /\ q <= k + 1
  BY SkipFacts
<1>2. CASE q > k
  <2>1. LexNext(m, k, 1) = Fault("end", "PARTIAL", q)
    BY <1>2, LexNextRule
  <2> QED BY <2>1 DEF Stands, Fault
<1>3. CASE q <= k
  <2>1. Skip(m, n, 1, Blanks) = q
    BY <1>3, SkipStands
  <2>2. ~(q > k) /\ ~(q > n) /\ q \in 1 .. k
    BY <1>1, <1>3
  <2>3. LexNext(m, k, 1) = TokenAt(m, k, q)
    BY <2>2, LexNextRule
  <2>4. LexNext(m, n, 1) = TokenAt(m, n, q)
    BY <2>1, <2>2, LexNextRule
  <2> HIDE DEF q
  <2> QED BY <2>2, <2>3, <2>4, TokenAtStands
<1> QED BY <1>1, <1>2, <1>3

-----------------------------------------------------------------------------
(* A text that arrives piece by piece.                                     *)

TextOK == alphabet \in Alphabets /\ text \in Seq(Bytes)

LEMMA TextIsBytes == Spec => []TextOK
<1>1. Init => TextOK
  BY DEF Init, TextOK
<1>2. TextOK /\ [Next]_vars => TextOK'
  <2> SUFFICES ASSUME TextOK, [Next]_vars PROVE TextOK'
    OBVIOUS
  <2>1. CASE Receive
    <3>1. PICK piece \in alphabet.pieces : text' = text \o piece
      BY <2>1 DEF Receive
    <3>2. piece \in Seq(Bytes)
      BY AlphabetAssumption DEF TextOK
    <3>3. text' \in Seq(Bytes)
      BY <3>1, <3>2 DEF TextOK
    <3> QED BY <2>1, <3>3 DEF Receive, TextOK
  <2>2. CASE Settled \/ UNCHANGED vars
    BY <2>2 DEF Settled, vars, TextOK
  <2> QED BY <2>1, <2>2 DEF Next
<1> QED BY <1>1, <1>2, PTL DEF Spec

\* The lexer never looks behind the input (the comparisons with lexer->end in
\* front of every read), whatever the text is and wherever it is cut.
THEOREM ReadsOnlyTheInput == Spec => []InputOnly
<1>1. TextOK => InputOnly
  <2> SUFFICES ASSUME TextOK, NEW k \in 0 .. Len(text) - 1
               PROVE  Verdict(k) = LexNext(SubSeq(text, 1, k), k, 1)
    BY DEF InputOnly
  <2> DEFINE w == SubSeq(text, 1, k)
  <2>1. text \in Seq(Bytes) /\ Len(text) \in Nat /\ k \in Nat /\ k <= Len(text)
    BY DEF TextOK
  <2>2. \A i \in 1 .. k : w[i] = text[i]
    BY <2>1
  <2> HIDE DEF w
  <2>3. SameInput(text, w, k)
    BY <2>2 DEF SameInput
  <2>4. LexNext(text, k, 1) = LexNext(w, k, 1)
    BY <2>1, <2>3, SameToken
  <2> QED BY <2>4 DEF w, Verdict
<1> QED BY <1>1, TextIsBytes, PTL

\* What the lexer finds in a part of a text is what it finds in the whole of
\* it, but for a number up to the end of the part: PARTIAL for a cut token is
\* never replaced by a token or by another error, wherever the cut is.
THEOREM CutsAreNoticed == Spec => []CutIsNoticed
<1>1. TextOK => CutIsNoticed
  <2> SUFFICES ASSUME TextOK, NEW k \in 0 .. Len(text) - 1
               PROVE  Stands(Verdict(k), Whole, k)
    BY DEF CutIsNoticed, Stands
  <2>1. Len(text) \in Nat
    BY DEF TextOK
  <2> DEFINE n == Len(text)
  <2>2. n \in Nat /\ k \in Nat /\ k <= n
    BY <2>1
  <2> HIDE DEF n
  <2>3. Stands(LexNext(text, k, 1), LexNext(text, n, 1), k)
    BY <2>2, VerdictStands
  <2> QED BY <2>3 DEF Verdict, Whole, n
<1> QED BY <1>1, TextIsBytes, PTL
=============================================================================
