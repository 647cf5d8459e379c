---------------------------- MODULE EncoderText ----------------------------
(***************************************************************************)
(* What bo_json_encode leaves in the buffer: the text of the structure,    *)
(* defined by recursion on the descriptors and without the machinery of    *)
(* the encoder, and what its verdict says about it.                        *)
(***************************************************************************)
EXTENDS EncoderMemory

\* In front of a part: a comma unless it is the first, and the name of a member.
Comma(m, d, o, i) ==
  IF \E j \in 1 .. i - 1 : Present(m, d, o, j) THEN <<",">> ELSE << >>

Label(d, i) ==
  IF Desc[d].type = "OBJECT"
    THEN Quote \o Desc[d].attr_descs[i].name \o Quote \o <<":">> ELSE << >>

\* The text of every part, given that of every place.
PartTexts(m, text, d, o) ==
  [i \in 1 .. PartCount(m, d, o) |->
     IF Present(m, d, o, i)
       THEN Comma(m, d, o, i) \o Label(d, i) \o text[PartAt(d, o, i)] ELSE << >>]

\* The concatenation of the first k sequences of s, for every k.
Joined(s) ==
  LET upto[k \in {0} \cup DOMAIN s] == IF k = 0 THEN << >> ELSE upto[k - 1] \o s[k]
  IN upto

TextOf(m, text, d, o) ==
  LET parts == Joined(PartTexts(m, text, d, o))[PartCount(m, d, o)]
      type == Desc[d].type
      writes == ScalarWrites(type, m[o + Desc[d].value_offset].val)
  IN CASE type = "OBJECT" -> <<"{">> \o parts \o <<"}">>
       [] type = "ARRAY"  -> <<"[">> \o parts \o <<"]">>
       [] type = "NULL"   -> << >>
       [] OTHER -> Joined(writes)[Len(writes)]

\* The JSON text of every place of a structure.
JsonText(m) ==
  LET text[p \in PlacesOf(m)] == TextOf(m, text, p[1], p[2]) IN text

\* Whether nothing at a place is described as null, given that of its parts;
\* and of every place of a structure.
NothingNull(m, ok, d, o) ==
  /\ Desc[d].type # "NULL"
  /\ HasParts(d) =>
       \A i \in 1 .. PartCount(m, d, o) : Present(m, d, o, i) => ok[PartAt(d, o, i)]

Encodable(m) ==
  LET ok[p \in PlacesOf(m)] == NothingNull(m, ok, p[1], p[2]) IN ok

Output == JsonText(in)[<<Root, 0>>]

-----------------------------------------------------------------------------
\* Wherever the encoder is or was stopped, the buffer holds the beginning of
\* the text of the structure: every comma, bracket and quote in its place.
TextIsOutput == IsPrefix(Text, Output)

\* The verdict: the encoder succeeds exactly when the structure can be encoded
\* and all of its text fits the buffer, to the last byte, and then the buffer
\* holds all of it.
VerdictIsRight ==
  pc = "done" =>
    /\ result = "NONE" <=> Encodable(in)[<<Root, 0>>] /\ Len(Output) <= cap
    /\ result = "NONE" => Text = Output

\* What the encoder can write at once: punctuation, names of members, and what
\* scalars are written as.
Punctuation == {"{", "}", "[", "]", ",", ":"}

Names == UNION {{a.name : a \in Range(Desc[d].attr_descs)} : d \in Descs}

CellValues(kind) ==
  {x.val : x \in {y \in UNION {Range(m) : m \in Inputs} : y.kind = kind}}

ScalarTexts ==
  UNION {UNION {Range(ScalarWrites(Desc[d].type, v)) :
                  v \in CellValues(ScalarCell[Desc[d].type])} :
           d \in {e \in Descs : Desc[e].type \in DOMAIN ScalarCell}}

Writes == {<<c>> : c \in Punctuation} \cup {Quote} \cup Names \cup ScalarTexts

\* Lost is told from every text.
ASSUME LostAssumption == NULL \notin Seq(STRING)

\* The simple writer implements the contract of a writer: a write is taken as
\* a whole or not at all.
Contract ==
  INSTANCE Writer WITH text <- Text, Lost <- NULL, Data <- Writes
WriterContract == Contract!Spec

\* Whatever the structure, the encoder returns.
Termination == <>(pc = "done")
=============================================================================
