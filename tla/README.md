# Verification of Boring JSON

TLA+ models of Boring JSON, a C11 library that decodes JSON text into C
structures and encodes C structures as JSON text, both directed by constant
tables of descriptors. The modules are checked with TLC on small instances;
every safety property of decoder, lexer, string codec, encoder and writers is also
proved with TLAPS for every instance.

## The system

| Part | Source | State | Operations | Works with |
|---|---|---|---|---|
| Decoder | `src/boring_json_decode.c` | the C call stack (`decode_object`, `decode_array`), the structure behind `out` | `bo_json_decode` and the `decode_*` functions | asks the lexer for tokens, reads descriptors, stores into the caller's structure |
| Lexer | same file, lines 13-330 | position in the input | `lexer_next`, `lexer_expect_next` | called by the decoder; its error is the decoder's |
| String codec | `decode_string`, `encode_cstr` | none | unescape with a capacity, escape | |
| Descriptors | `include/boring_json.h`, `src/boring_json.c` | constant tables | the macros that build them | read by decoder and encoder |
| Encoder | `src/boring_json_encode.c` | the C call stack | `bo_json_encode` and the `encode_*` functions | writes through the function pointer of a writer |
| Simple writer | `src/boring_json_simple_writer.c` | `buf`, `cap`, `len` | init, write | called by the encoder |
| Memory writer | `src/boring_json_mem_writer.c` | `buf`, `cap`, `len`, `increase_bytes`, `max_cap`, the heap | init, write, cleanup | called by the encoder; calls `realloc` and `free` |
| errno mapping | `src/boring_json.c` | none | `bo_json_error_to_errno` | |
| Debug output | `include/boring_json_debug.h` | none | | |

Nothing in the library is concurrent or persistent. What is hard is of another
kind:

- mutual recursion over nested input that is not known in advance, with errors
  that may come at any token and leave the structure half written;
- bookkeeping kept apart from the values (exist flags, null flags, element
  counts), which must agree with them on every path, failures and repeated
  keys included;
- descriptors in a C union that is read without looking at its tag;
- arrays and strings at their capacity;
- verdicts that callers act on: `PARTIAL` is `-EAGAIN`, and a caller that reads on
  decodes from the start again, into a structure a failed attempt has half filled;
- hand-written scanning loops that may meet the end of the input at every byte;
- writers that can fail at every call, and a buffer that moves, fails to grow,
  is lost and is used again.

What makes each part correct:

- decoder: as long as the input meets descriptors of its kind it stays inside the
  structure, keeps the C type of every cell, never flags or counts what is not there
  and leaves no trace of what it skips; on success the tokens it took are exactly one
  JSON text (what follows them in the input it does not look at), and its verdict
  fits the input;
- lexer: it finds the tokens of RFC 8259 (letting control characters pass in
  strings), reads nothing behind the input, and says the same wherever the input is
  cut, or says that it is cut;
- string codec: what is stored is the UTF-8 form of the string, and what is written
  for it reads back the same (the first fails for surrogate pairs, see below);
- all together: what was encoded is what is decoded, in however many attempts;
- encoder: whatever is in the buffer is the beginning of the text of the
  structure, and success means all of it;
- writers: a write is taken as a whole or not at all, within the limits, and
  the heap block has exactly one owner.

`PROJECT.json` lists the hazards with their lines and the properties aimed at
them.

## The modules

| Module | Models |
|---|---|
| `Descriptors` | the `*_EXT` macros as constructors of descriptor records |
| `StructMacros` | the `BO_JSON_VALUE_STRUCT_*` and `BO_JSON_OBJECT_ATTR_*` macros: the descriptors they build from a C structure, and what they check at compile time |
| `Characters` | names for bytes, their codes and digits |
| `Lexer` | `lexer_next` and the functions it calls, byte by byte |
| `StringCodec` | the copy loop of `decode_string`, the writes of `encode_cstr` |
| `JsonTokens` | the tokens of RFC 8259 and the meaning of strings, independent of the two |
| `IncrementalLexer` | lexer and string codec on a text that arrives in pieces, and their properties |
| `LexerProofs` | proofs that only the input counts and that a cut is noticed, and lemmas on the lexer's loops |
| `TokenProofs` | proofs that tokens and faults are those of `JsonTokens` |
| `StringProofs` | proofs that strings are stored as `JsonTokens` means them, and survive encoding and decoding |
| `Decoder` | `bo_json_decode` as a stack machine over tokens |
| `JsonGrammar` | the grammar of RFC 8259 over token types, independent of the decoder |
| `DecoderMemory` | a memory layout, when descriptors fit it, and the decoder's properties against layout and grammar |
| `DecoderProofs`, `VerdictProofs` | the inductive invariants of the decoder and the proofs: memory; flags and counts; verdicts, with lemmas on what the recursive functions of `JsonGrammar` compute |
| `Induction` | induction over natural numbers, for sets, and recursion on a measure |
| `Writer` | the abstract contract of a writer |
| `SimpleWriter` | the writer into a fixed buffer |
| `MemWriter` | the writer into a growing heap buffer |
| `Encoder` | `bo_json_encode` as a stack machine over write calls, on a simple writer |
| `EncoderMemory` | extends `Encoder`: the places of a structure and their parts, when it holds what its flags and counts promise, and what the encoder reads of it |
| `EncoderText` | extends `EncoderMemory`: the text of every place by recursion on descriptors, and the encoder's properties |
| `WriterProofs`, `EncoderProofs` | the invariants of the memory writer, and of encoder and simple writer, and their proofs |
| `Session` | a writer and a reader of one structure: encoder, simple writer, lexer, string codec, decoder and errno mapping together, with a caller that retries |
| `MCStruct`, `MCDecoder`, `MCEncoder`, `MCMemWriter`, `MCLexer`, `MCSession` | the instances TLC checks |

Operators whose comment begins with "Mutant" are deliberate mistakes. No
specification uses them; they document, for each property, a bug it catches.

### Decoder

The C call stack is the variable `stack`: a frame per active `decode_object`
(`key`, the attribute being decoded) or `decode_array` (`count`). `pc` says what
the next token is for: a `value` (`decode_value`), a `key`, a `colon`, or what
comes `next` after a member or element. An action is one C path between two
calls of `lexer_next`: it takes the token, does everything the code does with
it, including the returns through callers up to the point where the next token
is needed (`Return` sets the exist flag, counts the element; `EndArray` stores
the count). `Fail` drops the whole stack, as the chain of `return err` does.

Descriptors are identifiers in a table, as in C they are addresses. Offsets
count cells; a cell is a scalar member, an exist flag, a null flag or a count.
`mem` maps the cells written by this call to values tagged with their C type.
The parts of the union that a macro does not name are zero
(`ZeroFilled`): descriptor tables have static storage. This is what an array
under a scalar or object descriptor meets (capacity 0, its zero count goes to the
base of the structure), and an object under a scalar one (no attributes). The count
is a whole `size_t`: where none is declared it may reach over several smaller cells,
and past the end of a small structure. `Overlaid` says over which (`Span`).

An object under an *array* descriptor is the worst case: `decode_object_key_value`
takes the element size for the number of attributes and the element descriptor for
their table (`Garbage`). From the first key on the model allows what the code may do
(`ObjectColon`): no name there matches and the member is skipped (`LookUp`), or
reading the names traps, or one of them happens to match and a value is stored at an
offset found there, any of the stores in `Wild` (`Astray`). After the latter two the
behaviour of a C program is undefined, and so is the state (`pc = "undefined"`). No
property promises anything about it but `TypeOK` and those of the stack; the run
`decoder_lookup` shows that it is reached.

The input is not a constant. Each step chooses the next token, so that one
state stands for all inputs with the same prefix. Instead of a token there may be a
fault of the lexer, with the error code `lexer_next` gives it: the input ends behind
a token (`end`) or inside one (`cut`), a character starts no token, a keyword or
number is misspelt, a string has a bad escape. White space is left out. The text of a
string token is a sequence of letters as `decode_string` would produce it; a number
has a leading integer part (what `strtol` reads), a value in tenths (what `strtod`
reads) and a flag for 64 characters or more. `IntMax` and `LongMax` stand for
`INT_MAX` and `LONG_MAX`; saturation and the narrowing cast are modelled.

Two variables are history. `lenient` records that an object or array was let in under
a descriptor of another type (`mistyped`) or that an array had no room for any element
(`noroom`); properties that such input rightly spoils name it. `read` has the tokens
as the decoder understands them: an array that is full leaves its loop at a comma,
which stands for the closing bracket, and one without room right after its opening
bracket, as if it were empty. What comes next in the input is then read by the
caller. So `{"l":[1,2,}` is accepted when `l` has two elements (and `[1,2,` by
itself), while `{"l":[1,2,"k":5}` is refused, since the object expects a comma or
its brace where `"k"` stands. `OkIsOneValue` says that this is all: the tokens as
understood are one JSON value. Without arrays that are cut off `read` is the input up
to where the decoder stopped.

`PARTIAL` has three meanings for a caller that would read on. Between tokens it is
justified (`PartialCanBeCompleted`). For a byte that begins no token it is not
(`decoder_partial`). For a token that is cut it may be too early to tell: for `{t` the
code answers `PARTIAL`, although no key begins with `t`, and refuses the input only when
`true` is complete. `FaultIsRight` says that a cut token can be completed, which is
what keeps such a caller from waiting for ever; no property says that the token may
stand there.

### Lexer and string codec

The lexer keeps nothing but a position, so `Lexer` has no variables: each function
of the code is an operator on the memory `m`, the length `n` of the input and a
position, and returns a token or a fault with the position where the code goes on
or reports. `m` may be longer than `n`: that is how a read behind the input would
show (`InputOnly`). The four loops over digits are one operator, `NeedDigits`.

`StringCodec.DecodeCstr` is the loop of `decode_string` with the capacity check in
front of every store; its result has the bytes stored also when it fails.
`CstrWrites` is what `encode_cstr` gives the writer, call by call.

`IncrementalLexer` lets a text grow piece by piece as long as the lexer's answer may
still change, and states everything of the whole text and of all its prefixes.
`JsonTokens` is the reference: tokens are sets of byte sequences written from the
grammar of RFC 8259 by cutting a text in every possible way, UTF-8 is read back
from bytes instead of built. It takes one licence, which the code takes too: a
control character may stand inside a string (RFC 8259 lets a parser accept more). The
meaning of a string has two steps: its chars are UTF-16 code units (`Units`), and a high
and a low surrogate together are one code point (`Points`). `Utf8At` is the UTF-8 of
RFC 3629, which has no form for a surrogate. The code encodes code units one by one;
where there are no surrogates the two agree (`DecodedIsMeant`), for a pair they do not
(`lexer_surrogates`).

### Macros

The attribute macros are 72 spellings of a product: kind of member, nullable or
not, with or without a name, with or without an exist field. `StructMacros` has one
operator per choice. A C structure is a function from member names to offset and
type; the checks (`_Generic` on the member, its address for arrays) are predicates
on it. `MCStruct` and `MCSession` build their tables this way, so the descriptors
TLC runs are those the header makes. `MCSession` asserts that the uses in its table
compile and that the misuses of `test/test_macro_compile_fail.c` do not.

### Session

`Session` composes the other modules by `INSTANCE`. A structure is encoded into a
buffer (`Encode`, the steps of `Encoder`); if that succeeds its bytes arrive
at a reader, cut anywhere. The reader calls `bo_json_decode` on what it has. Each
`Decode` step runs the lexer on the bytes received, hands the token to the decoder
(`Given`: keys as they stand, strings through `DecodeCstr`, numbers through what
`strtol` and `strtod` make of the digits) and takes the decoder's step for exactly
that token. That no run deadlocks also shows that what the lexer finds is among the
tokens and faults `Decoder` is checked with. After the call the cells it has stored are
in the reader's structure, whatever it returned; on `-EAGAIN` the reader waits for
more and calls again, from the first byte, into that structure. The reader's table
lacks one member of the writer's, as after an upgrade of one side.

### Writers and encoder

`Writer` is what the encoder may rely on: a write is taken as a whole or
refused; a writer may lose its text when it runs out of memory and promises
nothing from then on until it is cleaned up. `MemWriter` and `SimpleWriter` are
shown to implement it by a refinement mapping (`WriterContract`): the abstract
text is the first `len` bytes of the buffer.

`MemWriter` has `size_t` arithmetic modulo `WordSize`, and a heap where `realloc`
may fail at any time, may move the block, and leaves added bytes
uninitialized (`Junk`). When `realloc` fails, `_mem_write` frees the buffer and
keeps `cap` and `len`. The next write may then copy to a null buffer: the model
answers `undefined`, and the contract states that this happens to no writer but
one that has reported the loss and was not cleaned up since. Whether callers
stop writing after an error is up to them: `bo_json_encode` does.

The encoder has frames for `encode_object` and `encode_array` with their loop
index and count, a list `todo` of writes a function does before it decides
again, and `pc`: `value` (`encode_value` is called), `write` (the next write
call, which may fail), `loop` (the function on top goes on) and `return`
(`encode_value` has returned OK). An array writes its comma after an element, when
more follow (`MoreFollow`); an object writes it before a member, when one was written.
The structure to encode is chosen at the start. A string in it is a sequence of
characters; a double has one decimal.

What the buffer should hold is defined without any of this. A *place* is a
descriptor with an address; `PartAt` gives the parts of the place of an object or
array, `Present` says which of them are there. `JsonText` is the function from the
places of a structure to their texts, by recursion on the parts; `Encodable` says
where nothing is described as null, which `encode_null` refuses.

## What the runs check

| Run | Checks | Shows |
|---|---|---|
| `decoder_struct` | `TypeOK`, `ArrayBound`, `CellsKeepTheirType`, `ExistMeansStored`, `CountCoversElements`, `SkipIsSilent` | every input over 18 tokens, up to 17 tokens long, decoded into a structure with every kind of member (scalars, a nullable, a string, an array of objects, an object with an array, a NULL descriptor) keeps memory, flags and counts right, whether decoding succeeds or fails; what mistyped input still does to memory is named in the properties |
| `decoder_verdict` | `OkIsOneValue`, `PartialCanBeCompleted`, `RefusedIsMalformed` | success means that the tokens taken, as the decoder understands them, are one well-formed JSON value; `PARTIAL` at the end of an input of whole tokens can be completed; a token refused could stand there in no JSON text without empty containers |
| `mem_writer` | `TypeOK`, `WithinBounds`, `OwnsItsBlock`, `WriterContract` | bounds, ownership of the block and the contract, through growth, refusals, failures, wrap-around, cleanup and reuse |
| `encode` | `TypeOK`, `BufferKept`, `ReadsTheStructure`, `TextIsOutput`, `VerdictIsRight`, `WriterContract`, `Termination` | the buffer always holds a beginning of the right text, all of it on success; the encoder succeeds exactly when the text fits, and looks at no member that does not exist and at no element past the count |
| `lexer` | `TokenIsRight`, `FaultIsRight`, `InputOnly`, `CutIsNoticed`, `DecodedIsMeant`, `StringsSurvive` | tokens are those of RFC 8259, with control characters let pass in strings, and as long as can be; an error has a reason; nothing behind the input matters; a cut is noticed, except in a number; strings without surrogates are stored as UTF-8, all within their capacity, and survive encoding and decoding up to their first NUL |
| `session` | `TypeOK`, `PrefixAsksForMore`, `Restored`, `OldOrSent`, `Delivered` | wherever the text is cut the caller is told to wait; what the writer had is restored and nothing else is touched, null flags included; after a failed attempt at most one cell, a number cut behind a digit, is neither old nor sent; the exchange ends, and succeeds exactly when the text fits and has no `{}` or `[]` |

`Restored` also fixes what becomes of null flags: the decoder never clears one and
the encoder never reads one, so a member flagged null travels with its value.
`CutIsNoticed` and `OldOrSent` name what every user of the library should know: `12`
may be the beginning of `123`. Inside an object the missing bracket still makes
the call `PARTIAL`, but the number is in the structure already; a number alone,
outside of any object or array, is accepted as it is.

Six runs show where the code does not do what its documentation says:

| Run | Property | What happens |
|---|---|---|
| `decoder_empty` | `EveryTextIsAccepted` | `{}` and `[]` are refused; `README.md:13` claims RFC 8259 |
| `decoder_partial` | `PartialIsEndOfInput` | `PARTIAL` also for a character that starts no token; `boring_json_decode.c:287` says "if end of input" |
| `decoder_key` | `KeyNamesItsMember` | a key that is a prefix of a name matches it (`strncmp` with the key's length) |
| `decoder_mistyped` | `MembersHaveTheirType` | an array for a scalar member (`{"n":[`) is let in: the member is marked as existing without a value, and a zero count is put over the start of the structure; `boring_json.h:757` says the descriptor defines the expected types |
| `decoder_lookup` | `KeysMeetATable` | in an object for an array member (`{"p":{"p":`) keys are looked up in what is no table of attributes: reads, and possibly a store, anywhere |
| `lexer_surrogates` | `PairsAreDecoded` | `"\uD83D\uDE00"` is stored as six bytes that are not UTF-8; `README.md:13` claims full support for escapes |

Two more such places are in the models without a run. `strtol` and `strtoll` stop at a
point or an exponent (`Number` takes `num`), so `1e1` is stored as 1 in an `int64_t`,
though `README.md:167` speaks of a conversion. And nothing terminates the encoder's text
in a buffer, which `README.md:160` prints as a string.

### Bounds

- Decoder: `MaxTokens` bounds the input. 17 tokens fill both arrays past their
  capacity inside nested objects, repeat keys, skip nested values and still
  leave room to fail afterwards (a full `{"p":[{"b":t},{"b":t},` is 16). 13
  tokens for the verdicts cover two levels of nesting with two members each; the
  alphabet there is smaller since only token types and whether a key matches
  matter. `IntMax = 3`, `LongMax = 15` make the number 9 wrap in an `int`. `Overlaid`
  lets a size_t at each place without one reach over its smaller neighbours; `Wild`
  has a store inside the structure and one behind it.
- `decoder_struct` uses the view `MCView`: of the input consumed only its length
  is kept, and of a string stored in the structure not its text. The next steps, and
  the properties of that run except for the types of `consumed`, `read` and the texts,
  depend on nothing else of the two.
- Memory writer: a 4-bit `size_t`, so the largest block has 7 bytes; writes of 0,
  1, 2 and 4 bytes; increases of 0, 1, 3 and 15 (which wraps); limits of 0, 1, 4,
  7 and 15 (beyond the largest block); two heap addresses, which is what a move
  needs. The capacities are finite, so the state space is complete.
- Lexer: seven alphabets, each for one kind of token with characters that do not
  belong to it: seven bytes of number characters (both signs, point and exponent
  with a digit in every place), keywords with wrong and missing letters, strings of
  up to eight bytes with `\u` cut at every digit, every short escape, and `\uXXXX`
  at 0x7F, 0x80, 0x7FF, 0x800, 0xD7FF, 0xE000, 0xFFFF, a surrogate and 0, in buffers of 0 to 8
  bytes. The loops look at one byte and the next few, so longer texts add nothing.
- Session: `MaxAttempts = 2`, the first on every non-empty part of the text, the
  second on all of it. An attempt begins at the first byte and depends on earlier ones
  by the structure alone; two structures to start from (empty; another record with
  flags set) stand for what other attempts leave. Nine structures have each
  member present in some and missing in others, the escapes, negative numbers, decimals,
  and the empty containers; a buffer of 20 bytes is too small for most.
- Encoder: every combination of the six outer exist flags, element counts 0 to 2
  in both arrays, present and absent members of the elements, and buffers of 0, 9,
  30, 58 and 120 bytes, of which the last holds every output; the others stop it
  in the middle, in different places for different structures. `MCPlacesOf` has the
  places the root leads to and no others, so that a read anywhere else shows.

### Fairness

`bo_json_decode` and `bo_json_encode` are sequential calls that nothing
interrupts: `WF_vars(Next)`, the call goes on as long as it can, is what running
a C function means. It assumes nothing about the input or the buffer. `Termination` of
the encoder uses it. `Decoder` states no fairness: each of its steps takes a token of a
bounded input, so that it ends would say nothing of the code; that decoding ends is part
of `Delivered`. `Session` has the same fairness for its two
programs; that the whole text is there at the last attempt is an assumption about the
channel, and `Delivered` rests on both. The memory writer has no liveness property and
no fairness: its caller may stop at any time.

## What is proved

Every theorem is about all values of the constants; `PROJECT.json` lists them. The
constants have to satisfy the assumptions named below, which state what the C types or
the caller's contract give, and which TLC evaluates on the instances it checks.

### Memory safety of the decoder (`DecoderProofs`)

For every descriptor table, layout, token set, input length and integer width:
`TypeOK`, `ArrayBound`, `CellsKeepTheirType` and the action property `SkipIsSilent`.
`CellsKeepTheirType` is memory safety as far as the code has it, and that is not for
all input: it speaks of the states in which no key was looked up in the descriptor of
an array, and it lets pass the zero count that an array leaves where none is described,
as far as a `size_t` reaches.

Assumptions: the table is well-typed (`DescAssumption`), its unnamed parts are
zero (`ZeroFilled`), the tokens are well-formed (`InputAssumption`), and the
descriptors fit the structure (`LayoutAssumption`; where a count is declared a
`size_t` reaches over no other cell). `ReachAssumption` types `Overlaid` and `Wild`, which
are otherwise arbitrary. `LayoutAssumption` is the contract
that `README.md` of the library leaves to the caller ("They still do not prove
that `obj_attrs_`, `elem_desc_`, or `capacity_` are semantically correct").

None of these is inductive. `IInv` adds, for every active call:

- `FrameOK`: a call that has a descriptor was given it together with an address
  that the layout has it at, its attribute index is in its table, and an array
  that is active has room for at least one element. Without it nothing is known
  of the address a value is stored at. That the pending call is placed as well
  (`CallPlaced`) is where the layout is used: the members of an object at its
  base, the elements of an array at `i * elem_size` for `i` below the capacity,
  which is why `ArrayBound` is needed for memory safety.
- `SkipClosed` and `Linked`: what is called inside a skipped value is skipped,
  and the value of an attribute is not. They tie the exist flag that `Return`
  sets to a caller that has a descriptor, and make skipping silent when the
  inner calls return.
- `Shape`: which function is on top at each `pc`.

`ReplaceTop`, `Push` and `Pop` say how these survive the three ways the stack
changes; `ReturnStep`, `StoreStep` and `EndArrayStep` do the steps that store;
there is one lemma for each action, and `Invariance` puts them together.

### Flags and counts (`DecoderProofs`)

`ExistMeansStored` and `CountCoversElements`, on top of the above. One more
assumption is needed, `SharingAssumption`: attributes with the same exist flag are
the same member, and arrays with the same count the same array. The header checks
no such thing; without it a flag set for one member would vouch for another.

What a flag or a count will vouch for is known to the active calls before it is
stored. `Stores` says how far each has come (`Halfway`: the elements below the
loop's count are decoded) and that each call works on what its caller waits for
(`Nested`); then a call that returns OK has stored its value, and its caller may
say so. That it stays true is where `CellsKeepTheirType` is used: no later store puts
a cell of another kind there (`Extends`).

### Verdicts (`VerdictProofs`)

`OkIsOneValue`, `PartialCanBeCompleted` and `RefusedIsMalformed` for inputs of every
length and depth, arrays cut off at their capacity and mistyped members included. All
three are about `read`.

The invariant `Progress` says where `read` stands between its brackets: every
active call began at an opening bracket of its kind, and what was read from there
to the next one is what the grammar has before a value; what was read after the
last is what it has before the token that `pc` waits for. The grammar is recursive
on spans of the text. `DerivesRule` and `OpensRule` show that its functions satisfy
their equations, by induction over the size of spans; the lists, which the grammar
takes apart at the front and the decoder builds at the back, are joined by
`MembersGrow` and `ElementsGrow`.

It is carried for JSON with empty containers and for JSON without (`Langs`); the latter is
given up once an array had no room, which is understood as `[]`.

Acceptance and completion need one reading of the input. A refusal needs all of
them: `RefusedIsMalformed` says that *no* JSON text without `{}` and `[]` begins with
what was read. `SpansSplit` shows that such texts can be read in one way: behind a
complete member or element the list goes on with a comma or ends. With it, a
refused token leaves the call on top with no way to go on (`Stuck`), and a call that
is stuck leaves the value it is part of without any (`Dead`), down to the whole text.

### The lexer (`LexerProofs`)

`InputOnly` and `CutIsNoticed` for texts of every length, over every alphabet
(`AlphabetAssumption`), cut at every byte. The two are about pairs of runs of the
lexer: on memories that agree on the input, and on a shorter and a longer input. For
the string loop, which is a recursion, both are proved by induction over the distance
from the end of the input (`StringRule` gives the equation of one turn); keywords,
digits and blanks end at minima of sets, which a longer input does not move once
they are inside (`SkipStands`, `KeywordStands`); the parts of a number are related
one by one (`PartStands`).

### Tokens and faults (`TokenProofs`)

`TokenIsRight` and `FaultIsRight`, for the same texts: what the lexer returns is the
longest token of RFC 8259 that stands there, and a fault has the reason its error
names.

The reference says of a whole sequence whether it is a token; the lexer goes from byte
to byte. Both are brought to positions in the text: `NumberInside` and `StringInside`
say where the parts of a number and the chars of a string begin when a part of the
text is a token, `NumberCut` and `ScanCases` what the loops find. Then one half of the
comparison, `TokenLexed`, shows that a token of the reference which stands in the text
is found to its end, or, for a number, that the lexer goes on behind it; the other,
`TokenFound`, that what the lexer finds is a token, and no longer one begins there.

A fault at the end of the input has a completion: what is missing of a keyword, a digit
(`NumberGoesOn`), a quote behind the rest of an escape (`StringCompleted`). A fault
inside has none: the lexer, which looks at one byte after the other, would have found
the token that a completion makes, and by `CutIsNoticed`'s lemmas finds the same fault
whatever follows (`TokenAtStands`, `WrongBegins`). `CompletionsAreTexts` says that the
completions written out in `JsonTokens` are texts: the provers know no characters.

### Strings (`StringProofs`)

`DecodedIsMeant` and `StringsSurvive`, for strings and buffers of every size.

`decode_string` has its own switch over escapes behind the one of the lexer. `CharUnit`
sets the two and the reference side by side: where a char of the string stands, as
`StringInside` found it, the copy loop takes exactly that char and has no error, and
the bytes it makes are the UTF-8 form of the code unit the reference means, unless that
is a surrogate (`ReadsAs`; `Utf8Facts` has the boundaries of one, two and three
bytes). Induction
from the end of the string to its start gives the rest: `CharsAreCopied`, that a
string which the lexer let pass is stored without a fault when there is room, and
`CharsAreRead`, that the stored bytes, which lie one behind the other (`Utf8Stands`),
are read back as the code units of the chars, which without surrogates are the code
points. A smaller buffer is compared with a
large one turn by turn (`CopiesCompared`): the same result, or a refusal with
the beginning of it and the last byte left alone.

What the reference means is claimed of strings written in ASCII (`IsAscii`) that name no
surrogate (`NoSurrogate`), escapes to every other code point up to U+FFFF included:
bytes from 0x80 on are copied as they are, and neither
the lexer nor `decode_string` asks whether they are UTF-8. The other parts of
`DecodedIsMeant` are about all strings.

For the way back `WrittenIsLaid` says where in the written text the bytes for each
character stand; the lexer goes from one such place to the next and so does the copy
loop (`EscapedStands`), which puts back each character in turn. It is so for every
sequence of bytes, control characters included.

Two more facts that the provers, who know no characters, cannot find are
assumptions: `NamesDiffer`, no two bytes have the same name, and `EscapesAreAscii`, the
letters of the escapes are ASCII bytes.

### The memory writer (`WriterProofs`)

`WriterProofs` has, for every width of `size_t`, every increase and limit, and every
choice `realloc` makes, the memory writer's `TypeOK`, `WithinBounds`, `OwnsItsBlock` and
`WriterContract`: every step is one of `Writer`, or invisible to it. The invariant needs
`Grown`: the capacity is that of a block which exists or existed, so that `len`
plus a length that fits in memory does not wrap (`NeededIsTheSum`); what
`cap + increase_bytes` wraps to does not matter, it is checked against the limit
afterwards. `MarkAssumption`: the marks for uninitialized bytes and for no text are
neither bytes nor texts.

### Memory and text of the encoder (`EncoderProofs`)

For every descriptor table (`EncoderAssumption`), buffer size and width of `size_t`
(`CapacityAssumption`), and every structure that holds what its flags and counts
promise (`ReadableAssumption`, the caller's contract): `TypeOK` with the ranges of
the loops, `BufferKept`, `ReadsTheStructure`, `WriterContract`, `TextIsOutput` and
`VerdictIsRight`. `JunkAssumption`, `LostAssumption`, `BytesAreStrings` and
`LiteralsAreStrings` keep marks and texts apart as above.

The invariant `IInv` is enough for the first four. `EncoderOK` places every call in
the structure and says that a loop is at a part which exists as long as writes for
that part are to be done; `WriterOK` is about the buffer alone.

The last two need to know where each active call started: `TextInv` says that there
is such a list of texts (`Starts`), in which every call begins where its caller has
come to with the punctuation in front of the part it is at (`LinkedAt`, `Led`), and
that what is written, followed by what is left to write, is where the call on top
has come to (`SoFar`). The text of the part a call is at, put behind where it starts,
begins the text of the whole (`FrameSound`, `PartSound`), so every state's text does
(`SoFarBegins`). A write refused shows that text and all of that write do not fit,
and they begin the output: the output does not fit either (`WriteText`). For the
comma `FrameSound` relates `count`, a number of members written, to whether a member
before the loop exists; a loop that goes on over missing members keeps this
(`LoopSkips`). That nothing left behind is described as null makes a success mean
`Encodable`, and a refusal of a null its negation (`NullText`).

`JsonText` and `Encodable` are recursive functions. That they satisfy their equations
(`TextRule`, `EncodableRule`) follows from `Recursion` in `Induction`, a theorem on
rules that look at smaller places only, with `DepthAssumption`: what a descriptor
describes is nested less deep than itself, as no C structure contains itself. The
same lemma serves the concatenation of many texts (`JoinedRule`) and the digits of
a number (`DigitsRule`).

### Only model-checked

- The session: its invariants relate the places of one structure under two tables, the
  encoder's text, the lexer and the decoder. The theorems about the parts are about
  the same modules; that they fit together is checked on the instance.
- `Termination` and `Delivered`: liveness under fairness is out of the proof system's
  reach.

## What is not modelled

- In `Decoder` on its own, strings are sequences of decoded characters and white
  space is left out; both are in `Lexer`, `StringCodec` and `Session`. A string cut
  short by its capacity keeps `capacity - 1` characters there; with UTF-8 it may be
  up to two fewer (`DecodedIsMeant` has the exact bytes).
- `isxdigit` of a negative `char` (undefined in C): the byte is taken for what it is.
- Encoding a string without a NUL, or an array with a count above its capacity:
  the structures to encode keep the caller's contract.
- The depth of recursion: the C stack is unbounded in the model (the library's
  README names the limitation).
- Infinities and NaN in a double, control characters without a short escape, and
  member names that need escapes, in the encoder.
- `bo_json_error.pos` and `.desc` beyond the lexer's position, and debug output.
  `bo_json_null_desc` is declared in the header and defined nowhere.
- Bytes and paddings of C types: a member is one cell. Of a store that reaches over
  several cells (`Span`) the model says which hold parts of it, not which bits.
- What a program does after a trap or a wild store, beyond that one store: the state
  is `undefined` and has no successor.

## Plan

1. *Done*: decoder, descriptors, grammar, memory properties, proofs of its
   safety; writers, their contract, the encoder.
2. *Done*: lexer, string codec, macros, and the session of encoder, lexer and
   decoder with a retrying caller and the errno mapping.
3. *Done*: proofs about the decoder's flags, counts and verdicts, the writers, the
   encoder's memory, text and verdict, and the lexer's use of its input.
4. *Done*: the lexer's tokens and faults against the reference.
5. *Done*: the string codec against the reference.
