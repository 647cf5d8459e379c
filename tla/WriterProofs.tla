---------------------------- MODULE WriterProofs ----------------------------
(***************************************************************************)
(* Proofs about the memory writer, for every width of a size_t, every      *)
(* increase and limit, every choice of data and every behaviour of         *)
(* realloc: its invariants, and that it implements the contract of a       *)
(* writer.                                                                 *)
(***************************************************************************)
EXTENDS MemWriter, SequenceTheorems, TLAPS

\* Beside the invariants the runs check: the capacity is that of a block that
\* exists or existed, so no sum of len and the length of some data wraps
\* around; and a writer that has ever had a block has text to lose.
Grown ==
  /\ cap <= ObjectMax
  /\ cap > 0 => len > 0

IInv ==
  /\ TypeOK
  /\ WithinBounds
  /\ OwnsItsBlock
  /\ Grown

-----------------------------------------------------------------------------
(* Sizes.                                                                  *)

\* The length a write asks for is the true sum, not one modulo WordSize.
LEMMA NeededIsTheSum ==
  ASSUME IInv, NEW data \in Data
  PROVE  /\ Len(data) \in Nat /\ Needed(data) \in Nat
         /\ Needed(data) = len + Len(data)
<1>1. data \in Seq(STRING) /\ Len(data) \in Nat /\ Len(data) <= ObjectMax
  BY WriterAssumption
<1>2. len \in Nat /\ len <= ObjectMax
  BY WriterAssumption DEF IInv, TypeOK, WithinBounds, Grown, Words, ObjectMax
<1>3. len + Len(data) \in 0 .. WordSize - 1
  BY <1>1, <1>2, WriterAssumption DEF ObjectMax
<1>4. (len + Len(data)) % WordSize = len + Len(data)
  BY <1>3, WriterAssumption
<1> QED BY <1>1, <1>2, <1>4 DEF Needed

\* Whatever cap + increase_bytes wraps to, the new capacity is within the limit.
LEMMA NewCapIsAllowed ==
  ASSUME IInv, NEW data \in Data
  PROVE  NewCap(data) \in Words /\ NewCap(data) <= max_cap
<1>1. Len(data) \in Nat /\ Len(data) <= ObjectMax
  BY WriterAssumption
<1>2. Len(data) \in Words
  BY <1>1, WriterAssumption DEF Words, ObjectMax
<1>3. (cap + increase_bytes) % WordSize \in Words
  BY WriterAssumption DEF IInv, TypeOK, Words
<1> QED BY <1>2, <1>3 DEF NewCap, IInv, TypeOK, Words

-----------------------------------------------------------------------------
(* The heap.                                                               *)

\* The heap holds the block b, if b is one, and nothing else.
Holds(h, b) ==
  /\ b \in Blocks \cup {NULL}
  /\ DOMAIN h = {b} \ {NULL}
  /\ b # NULL => h[b] \in Seq(Bytes)

\* The writer's own heap is of this form.
LEMMA HoldsBuffer ==
  ASSUME IInv
  PROVE  Holds(heap, buf)
BY DEF IInv, TypeOK, OwnsItsBlock, Live, Holds

\* realloc leaves one block, of the size asked for, that begins with what the
\* old one held.
LEMMA ResizedBlock ==
  ASSUME NEW old, Holds(heap, old), NEW new \in Blocks, NEW size \in Nat
  PROVE  LET h == Resized(old, new, size) IN
         /\ Holds(h, new) /\ Len(h[new]) = size
         /\ \A i \in 1 .. size :
              h[new][i] = IF old # NULL /\ i <= Len(heap[old]) THEN heap[old][i] ELSE Junk
<1> DEFINE kept(i) == IF old # NULL /\ i <= Len(heap[old]) THEN heap[old][i] ELSE Junk
           h == Resized(old, new, size)
<1>1. new # NULL
  BY WriterAssumption
<1>2. \A i \in 1 .. size : kept(i) \in Bytes
  BY DEF Holds, Bytes
<1>3. Live \ {old} = {}
  BY DEF Holds, Live
<1>4. /\ DOMAIN h = {new}
      /\ h[new] = [i \in 1 .. size |-> kept(i)]
  BY <1>3 DEF Resized
<1>5. h[new] \in Seq(Bytes)
  <2> HIDE DEF kept
  <2>1. [i \in 1 .. size |-> kept(i)] \in Seq(Bytes)
    BY <1>2, IsASeq
  <2> QED BY <1>4, <2>1
<1>6. Len(h[new]) = size
  BY <1>4
<1>7. \A i \in 1 .. size : h[new][i] = kept(i)
  BY <1>4
<1> QED BY <1>1, <1>4, <1>5, <1>6, <1>7 DEF Holds

\* memcpy inside a block changes the bytes it is to change and no others.
LEMMA CopiedBlock ==
  ASSUME NEW h, NEW b \in Blocks, Holds(h, b), NEW at \in Nat,
         NEW data \in Seq(STRING), at + Len(data) <= Len(h[b])
  PROVE  LET g == Copied(h, b, at, data) IN
         /\ Holds(g, b) /\ Len(g[b]) = Len(h[b])
         /\ \A i \in 1 .. Len(h[b]) :
              g[b][i] = IF i \in at + 1 .. at + Len(data) THEN data[i - at] ELSE h[b][i]
<1> DEFINE n == Len(h[b])
           byte(i) == IF i \in at + 1 .. at + Len(data) THEN data[i - at] ELSE h[b][i]
           g == Copied(h, b, at, data)
<1>1. b # NULL /\ b \in DOMAIN h /\ h[b] \in Seq(Bytes)
  BY WriterAssumption DEF Holds
<1>2. n \in Nat /\ DOMAIN h[b] = 1 .. n
  BY <1>1
<1>3. DOMAIN g = DOMAIN h /\ g[b] = [i \in 1 .. n |-> byte(i)]
  BY <1>1, <1>2 DEF Copied
<1>4. \A i \in 1 .. n : byte(i) \in Bytes
  <2> SUFFICES ASSUME NEW i \in 1 .. n
               PROVE  byte(i) \in Bytes
    OBVIOUS
  <2>1. CASE i \in at + 1 .. at + Len(data)
    <3>1. i - at \in 1 .. Len(data)
      BY <2>1, <1>2
    <3>2. data[i - at] \in STRING
      BY <3>1
    <3> QED BY <2>1, <3>2 DEF Bytes
  <2>2. CASE i \notin at + 1 .. at + Len(data)
    BY <1>1, <1>2, <2>2
  <2> QED BY <2>1, <2>2
<1>5. g[b] \in Seq(Bytes)
  <2> HIDE DEF byte
  <2>1. [i \in 1 .. n |-> byte(i)] \in Seq(Bytes)
    BY <1>2, <1>4, IsASeq
  <2> QED BY <1>3, <2>1
<1>6. Len(g[b]) = n
  BY <1>2, <1>3
<1>7. \A i \in 1 .. n : g[b][i] = byte(i)
  BY <1>3
<1>8. Holds(g, b)
  BY <1>3, <1>5 DEF Holds
<1> QED BY <1>6, <1>7, <1>8

\* The copy of a write into a block with room for it, and into none at all.
LEMMA CopyStep ==
  ASSUME IInv, NEW data \in Data, NEW h, NEW b, Holds(h, b), CopyIn(h, b, data),
         b # NULL => len + Len(data) <= Len(h[b])
  PROVE  /\ Holds(heap', b)
         /\ b # NULL =>
              /\ Len(heap'[b]) = Len(h[b])
              /\ \A i \in 1 .. Len(h[b]) :
                   heap'[b][i] = IF i \in len + 1 .. len + Len(data)
                                   THEN data[i - len] ELSE h[b][i]
              /\ len' = len + Len(data) /\ reply' = "NONE"
         /\ b = NULL =>
              IF data = << >> THEN len' = len + Len(data) /\ reply' = "NONE"
                              ELSE len' = len /\ reply' = "undefined"
<1>1. /\ data \in Seq(STRING) /\ Len(data) \in Nat
      /\ Len(data) = 0 <=> data = << >>
      /\ len \in Nat /\ Needed(data) = len + Len(data)
  BY NeededIsTheSum, WriterAssumption DEF IInv, TypeOK, Words
<1>2. CASE b = NULL
  <2>1. InBlock(h, b, len, Len(data)) <=> data = << >>
    BY <1>1, <1>2 DEF InBlock, Holds
  <2> QED BY <1>1, <1>2, <2>1 DEF CopyIn
<1>3. CASE b # NULL
  <2>1. b \in Blocks /\ b \in DOMAIN h /\ h[b] \in Seq(Bytes)
    BY <1>3 DEF Holds
  <2>2. InBlock(h, b, len, Len(data))
    BY <1>3, <2>1 DEF InBlock
  <2>3. /\ heap' = IF data = << >> THEN h ELSE Copied(h, b, len, data)
        /\ len' = len + Len(data) /\ reply' = "NONE"
    BY <1>1, <2>2 DEF CopyIn
  <2>4. CASE data = << >>
    BY <1>1, <1>3, <2>1, <2>3, <2>4
  <2>5. CASE data # << >>
    BY <1>1, <1>3, <2>1, <2>3, <2>5, CopiedBlock
  <2> QED BY <2>4, <2>5
<1> QED BY <1>2, <1>3

-----------------------------------------------------------------------------
(* Every step keeps the invariant.                                         *)

\* What a step has to establish: one block, the buffer, of the size the writer
\* believes in, and the fields in their ranges.
LEMMA InvariantOf ==
  ASSUME UNCHANGED Parameters, IInv,
         Holds(heap', buf'), buf' # NULL => Len(heap'[buf']) = cap',
         cap' \in Nat, len' \in Nat, len' <= cap', cap' <= max_cap,
         cap' <= ObjectMax, cap' > 0 => len' > 0,
         reply' \in {"NONE", "INSUFFICIENT_SPACE", "undefined"}
  PROVE  IInv'
<1>1. max_cap' = max_cap /\ max_cap \in 0 .. WordSize - 1 /\ WordSize \in Nat
  BY WriterAssumption DEF Parameters, IInv, TypeOK, Words
<1>2. TypeOK'
  BY <1>1 DEF Parameters, IInv, TypeOK, Words, Holds, Live
<1>3. WithinBounds'
  BY <1>1 DEF WithinBounds, Holds, Live
<1>4. OwnsItsBlock'
  BY DEF OwnsItsBlock, Holds, Live
<1>5. Grown'
  BY DEF Grown, ObjectMax
<1> QED BY <1>2, <1>3, <1>4, <1>5 DEF IInv

LEMMA WriteInPlaceStep ==
  ASSUME IInv, NEW data \in Data, WriteInPlace(data)
  PROVE  IInv'
<1>1. /\ len \in Nat /\ cap \in Nat /\ Len(data) \in Nat
      /\ len + Len(data) <= cap /\ cap <= max_cap
      /\ buf # NULL => Len(heap[buf]) = cap
  BY NeededIsTheSum DEF WriteInPlace, IInv, TypeOK, WithinBounds, Words
<1>2. buf' = buf /\ cap' = cap /\ CopyIn(heap, buf, data)
  BY DEF WriteInPlace
<1>3. /\ Holds(heap', buf)
      /\ buf # NULL => Len(heap'[buf]) = cap
      /\ len' \in {len, len + Len(data)}
      /\ reply' \in {"NONE", "undefined"}
  BY <1>1, <1>2, HoldsBuffer, CopyStep
<1>4. len' \in Nat /\ len' <= cap' /\ len' >= len
  BY <1>1, <1>2, <1>3
<1>5. /\ cap' <= ObjectMax
      /\ cap' > 0 => len' > 0
  BY <1>1, <1>2, <1>4 DEF IInv, Grown
<1> QED BY <1>1, <1>2, <1>3, <1>4, <1>5, InvariantOf DEF WriteInPlace

LEMMA WriteGrowingStep ==
  ASSUME IInv, NEW data \in Data, WriteGrowing(data)
  PROVE  IInv'
<1>1. /\ len \in Nat /\ cap \in Nat /\ Len(data) \in Nat
      /\ NewCap(data) \in Nat /\ NewCap(data) <= max_cap
      /\ NewCap(data) <= ObjectMax
      /\ len + Len(data) > cap /\ len + Len(data) <= NewCap(data)
  BY NeededIsTheSum, NewCapIsAllowed DEF WriteGrowing, IInv, TypeOK, Words
<1>2. PICK new \in Blocks :
        /\ CopyIn(Resized(buf, new, NewCap(data)), new, data)
        /\ buf' = new
  BY DEF WriteGrowing
<1> DEFINE h == Resized(buf, new, NewCap(data))
<1>3. Holds(h, new) /\ Len(h[new]) = NewCap(data) /\ new # NULL
  BY <1>1, HoldsBuffer, ResizedBlock, WriterAssumption
<1> HIDE DEF h
<1>4. CopyIn(h, new, data)
  BY <1>2 DEF h
<1>5. /\ Holds(heap', new) /\ Len(heap'[new]) = NewCap(data)
      /\ len' = len + Len(data) /\ reply' = "NONE"
  BY <1>1, <1>3, <1>4, CopyStep
<1>6. cap' = NewCap(data) /\ UNCHANGED Parameters
  BY DEF WriteGrowing
<1> QED BY <1>1, <1>2, <1>5, <1>6, InvariantOf

\* Freeing the buffer leaves nothing on the heap.
LEMMA FreedBuffer ==
  ASSUME IInv, heap' = Freed(buf), buf' = NULL
  PROVE  Holds(heap', buf')
BY DEF IInv, OwnsItsBlock, Live, Freed, Holds

LEMMA WriteOutOfMemoryStep ==
  ASSUME IInv, NEW data \in Data, WriteOutOfMemory(data)
  PROVE  IInv'
BY FreedBuffer, InvariantOf
   DEF WriteOutOfMemory, IInv, TypeOK, WithinBounds, Grown, Words

LEMMA CleanupStep ==
  ASSUME IInv, Cleanup
  PROVE  IInv'
<1>1. 0 <= max_cap /\ 0 <= ObjectMax
  BY WriterAssumption DEF IInv, TypeOK, Words, ObjectMax
<1> QED BY <1>1, FreedBuffer, InvariantOf DEF Cleanup, IInv, TypeOK, Words

LEMMA WriteRefusedStep ==
  ASSUME IInv, NEW data \in Data, WriteRefused(data)
  PROVE  IInv'
BY HoldsBuffer, InvariantOf
   DEF WriteRefused, IInv, TypeOK, WithinBounds, Grown, Words

\* The invariant holds in every state of every behaviour.
THEOREM Invariance == Spec => []IInv
<1>1. Init => IInv
  <2> SUFFICES ASSUME Init
               PROVE  IInv
    OBVIOUS
  <2>1. 0 <= ObjectMax /\ 0 \in Words /\ 0 <= max_cap
    BY WriterAssumption DEF Init, Words, ObjectMax
  <2> QED BY <2>1, WriterAssumption
          DEF Init, IInv, TypeOK, WithinBounds, OwnsItsBlock, Grown, Live, Words
<1>2. IInv /\ [Next]_vars => IInv'
  <2> SUFFICES ASSUME IInv, [Next]_vars
               PROVE  IInv'
    OBVIOUS
  <2>1. ASSUME NEW data \in Data, WriteInPlace(data)
        PROVE  IInv'
    BY <2>1, WriteInPlaceStep
  <2>2. ASSUME NEW data \in Data, WriteRefused(data)
        PROVE  IInv'
    BY <2>2, WriteRefusedStep
  <2>3. ASSUME NEW data \in Data, WriteGrowing(data)
        PROVE  IInv'
    BY <2>3, WriteGrowingStep
  <2>4. ASSUME NEW data \in Data, WriteOutOfMemory(data)
        PROVE  IInv'
    BY <2>4, WriteOutOfMemoryStep
  <2>5. CASE Cleanup
    BY <2>5, CleanupStep
  <2>6. CASE Stuck \/ UNCHANGED vars
    BY <2>6 DEF Stuck, vars, IInv, TypeOK, WithinBounds, OwnsItsBlock, Grown, Live
  <2> QED BY <2>1, <2>2, <2>3, <2>4, <2>5, <2>6 DEF Next
<1> QED BY <1>1, <1>2, PTL DEF Spec

\* The fields of the writer are words and its buffer is a block address, in
\* every state: bo_json_mem_writer_init, _mem_write and
\* bo_json_mem_writer_cleanup leave nothing else behind.
THEOREM TypeCorrect == Spec => []TypeOK
BY Invariance, PTL DEF IInv

\* _mem_write never enlarges its buffer beyond max_cap, not even when
\* cap + increase_bytes wraps around, and cap is the size of the block it has.
THEOREM StaysWithinBounds == Spec => []WithinBounds
BY Invariance, PTL DEF IInv

\* realloc, a failed realloc and cleanup leave no block behind, and the writer
\* never keeps the address of one that was freed.
THEOREM NoLeak == Spec => []OwnsItsBlock
BY Invariance, PTL DEF IInv

-----------------------------------------------------------------------------
(* The text.                                                               *)

\* The bytes that len counts, or some of them, were freed with a buffer.
Gone ==
  /\ len > 0
  /\ buf = NULL \/ \E i \in 1 .. len : heap[buf][i] = Junk

\* The text is lost exactly when bytes are gone, and otherwise it is what the
\* buffer holds up to len.
TextIsBuffer ==
  /\ Gone => Text = NULL
  /\ ~Gone => /\ Text \in Seq(STRING) /\ Text # NULL /\ Len(Text) = len
              /\ \A i \in 1 .. len : Text[i] = heap[buf][i]

\* What the refinement mapping makes of the state of the writer.
LEMMA TextOfBuffer == IInv => TextIsBuffer
<1> SUFFICES ASSUME IInv
             PROVE  TextIsBuffer
  OBVIOUS
<1> USE DEF TextIsBuffer
<1>1. len \in Nat /\ (buf \in Live <=> buf # NULL)
  BY DEF IInv, TypeOK, OwnsItsBlock, Words
<1>2. CASE len = 0
  <2>1. Text = << >> /\ ~Gone
    BY <1>2 DEF Text, Gone
  <2>2. Text \in Seq(STRING) /\ Len(Text) = 0
    BY <2>1, EmptySeq
  <2>3. Text # NULL
    BY <2>2, MarkAssumption
  <2>4. \A i \in 1 .. len : FALSE
    BY <1>2
  <2> QED BY <1>2, <2>1, <2>2, <2>3, <2>4
<1>3. CASE len > 0 /\ buf = NULL
  BY <1>1, <1>3 DEF Text, Gone
<1>4. CASE len > 0 /\ buf # NULL
  <2> DEFINE written == SubSeq(heap[buf], 1, len)
  <2>1. heap[buf] \in Seq(Bytes) /\ len <= Len(heap[buf])
    BY <1>1, <1>4 DEF IInv, TypeOK, WithinBounds
  <2>2. /\ written \in Seq(Bytes) /\ Len(written) = len
        /\ \A i \in 1 .. len : written[i] = heap[buf][i]
    <3>1. \A i \in 1 .. len : heap[buf][i] \in Bytes
      BY <1>1, <2>1
    <3> QED BY <1>1, <3>1, SubSeqProperties
  <2> HIDE DEF written
  <2>3. Junk \in Range(written) <=> Gone
    BY <1>4, <2>2 DEF Gone, Range
  <2>4. Text = IF Gone THEN NULL ELSE written
    BY <1>1, <1>4, <2>3 DEF Text, written
  <2>5. CASE Gone
    BY <2>4, <2>5
  <2>6. CASE ~Gone
    <3>1. \A i \in 1 .. len : written[i] \in STRING
      BY <1>4, <2>2, <2>6 DEF Gone, Bytes
    <3>2. written \in Seq(STRING)
      BY <2>2, <3>1
    <3> QED BY <2>2, <2>4, <2>6, <3>2, MarkAssumption
  <2> QED BY <2>5, <2>6
<1> QED BY <1>1, <1>2, <1>3, <1>4

\* The same after a step.
LEMMA TextAfter == IInv' => TextIsBuffer'
BY TextOfBuffer, PTL

-----------------------------------------------------------------------------
(* The contract of a writer.                                               *)

\* A writer whose text is gone, and stays gone, may answer anything.
LEMMA StillGone ==
  ASSUME IInv, IInv', Gone, Gone'
  PROVE  Contract!AfterLoss
BY TextOfBuffer, TextAfter
   DEF TextIsBuffer, Contract!AfterLoss, Contract!Replies, IInv, TypeOK

\* A buffer that holds the old bytes and the data behind them holds the old
\* text and the data behind it.
LEMMA TextGrows ==
  ASSUME IInv, IInv', ~Gone, NEW data \in Data,
         len' = len + Len(data), len' > 0 => buf' # NULL, reply' = "NONE",
         \A i \in 1 .. len : heap'[buf'][i] = heap[buf][i],
         \A i \in len + 1 .. len + Len(data) : heap'[buf'][i] = data[i - len]
  PROVE  Contract!Accept
<1>1. /\ data \in Seq(STRING) /\ Len(data) \in Nat /\ len \in Nat
      /\ Text \in Seq(STRING) /\ Text # NULL /\ Len(Text) = len
      /\ \A i \in 1 .. len : Text[i] = heap[buf][i]
  BY TextOfBuffer, WriterAssumption DEF TextIsBuffer, IInv, TypeOK, Words
<1>2. \A i \in 1 .. len' : heap'[buf'][i] \in STRING
  <2> SUFFICES ASSUME NEW i \in 1 .. len + Len(data)
               PROVE  heap'[buf'][i] \in STRING
    OBVIOUS
  <2>1. CASE i <= len
    BY <1>1, <2>1
  <2>2. CASE i > len
    <3>1. i - len \in 1 .. Len(data)
      BY <1>1, <2>2
    <3>2. data[i - len] \in STRING
      BY <1>1, <3>1, ElementOfSeq
    <3> QED BY <1>1, <2>2, <3>2
  <2> QED BY <1>1, <2>1, <2>2
<1>3. ~Gone'
  BY <1>1, <1>2, MarkAssumption DEF Gone
<1>4. /\ Text' \in Seq(STRING) /\ Len(Text') = len + Len(data)
      /\ \A i \in 1 .. len + Len(data) : Text'[i] = heap'[buf'][i]
  BY <1>3, TextAfter DEF TextIsBuffer
<1>5. /\ Text \o data \in Seq(STRING)
      /\ Len(Text \o data) = len + Len(data)
      /\ \A i \in 1 .. len + Len(data) :
           (Text \o data)[i] = IF i <= len THEN Text[i] ELSE data[i - len]
  BY <1>1, ConcatProperties
<1>6. Text' = Text \o data
  <2>1. \A i \in 1 .. len + Len(data) : Text'[i] = (Text \o data)[i]
    <3> SUFFICES ASSUME NEW i \in 1 .. len + Len(data)
                 PROVE  Text'[i] = (Text \o data)[i]
      OBVIOUS
    <3>1. CASE i \in 1 .. len
      BY <1>1, <1>4, <1>5, <3>1
    <3>2. CASE i \in len + 1 .. len + Len(data)
      BY <1>1, <1>4, <1>5, <3>2
    <3> QED BY <1>1, <3>1, <3>2
  <2> QED BY <1>4, <1>5, <2>1, SeqEqual
<1> QED BY <1>1, <1>6 DEF Contract!Accept

\* A step that leaves the text as it is, and reports that, is a write refused.
LEMMA TextKept ==
  ASSUME IInv, IInv', ~Gone, ~Gone', reply' = "INSUFFICIENT_SPACE",
         len' = len, len > 0 => heap'[buf'] = heap[buf]
  PROVE  Contract!Refuse
<1>1. /\ Text \in Seq(STRING) /\ Text # NULL /\ Len(Text) = len /\ len \in Nat
      /\ \A i \in 1 .. len : Text[i] = heap[buf][i]
  BY TextOfBuffer DEF TextIsBuffer, IInv, TypeOK, Words
<1>2. /\ Text' \in Seq(STRING) /\ Len(Text') = len
      /\ \A i \in 1 .. len : Text'[i] = heap'[buf'][i]
  BY TextAfter DEF TextIsBuffer
<1>3. \A i \in 1 .. len : Text'[i] = Text[i]
  BY <1>1, <1>2
<1>4. Text' = Text
  BY <1>1, <1>2, <1>3, SeqEqual
<1> QED BY <1>1, <1>4 DEF Contract!Refuse

LEMMA WriteInPlaceImplements ==
  ASSUME IInv, IInv', NEW data \in Data, WriteInPlace(data)
  PROVE  Contract!Next
<1>1. /\ len \in Nat /\ Len(data) \in Nat /\ len + Len(data) <= cap
      /\ data \in Seq(STRING)
      /\ buf # NULL => Len(heap[buf]) = cap
      /\ cap > 0 => len > 0
  BY NeededIsTheSum, WriterAssumption
     DEF WriteInPlace, IInv, TypeOK, WithinBounds, Grown, Words
<1>2. buf' = buf /\ CopyIn(heap, buf, data)
  BY DEF WriteInPlace
<1>3. CASE buf = NULL
  <2>1. CASE len > 0
    <3>1. len' >= len
      BY <1>1, <1>2, <1>3, HoldsBuffer, CopyStep
    <3>2. Gone /\ Gone'
      BY <1>1, <1>2, <1>3, <2>1, <3>1 DEF Gone, IInv, TypeOK, Words
    <3> QED BY <3>2, StillGone DEF Contract!Next
  <2>2. CASE len = 0
    <3>1. cap = 0
      BY <1>1, <2>2 DEF IInv, TypeOK, Words
    <3>2. Len(data) = 0 /\ data = << >>
      BY <1>1, <2>2, <3>1
    <3>3. len' = len + Len(data) /\ reply' = "NONE"
      BY <1>1, <1>2, <1>3, <3>2, HoldsBuffer, CopyStep
    <3>4. ~Gone
      BY <2>2 DEF Gone
    <3>5. ~(len' > 0)
      BY <2>2, <3>2, <3>3
    <3> QED BY <2>2, <3>2, <3>3, <3>4, <3>5, TextGrows DEF Contract!Next
  <2> QED BY <1>1, <2>1, <2>2
<1>4. CASE buf # NULL
  <2>1. /\ len' = len + Len(data) /\ reply' = "NONE"
        /\ \A i \in 1 .. cap :
             heap'[buf][i] = IF i \in len + 1 .. len + Len(data)
                               THEN data[i - len] ELSE heap[buf][i]
    <3>1. Holds(heap, buf) /\ len + Len(data) <= Len(heap[buf])
      BY <1>1, <1>4, HoldsBuffer
    <3>2. Len(heap[buf]) = cap
      BY <1>1, <1>4
    <3> QED BY <1>2, <1>4, <3>1, <3>2, CopyStep
  <2>2. /\ \A i \in 1 .. len : heap'[buf'][i] = heap[buf][i]
        /\ \A i \in len + 1 .. len + Len(data) : heap'[buf'][i] = data[i - len]
    BY <1>1, <1>2, <2>1 DEF IInv, TypeOK, Words
  <2>3. CASE Gone
    <3>1. PICK i \in 1 .. len : heap[buf][i] = Junk
      BY <1>4, <2>3 DEF Gone
    <3>2. heap'[buf'][i] = Junk
      BY <2>2, <3>1
    <3>3. i \in 1 .. len' /\ len' > 0
      BY <1>1, <2>1
    <3>4. Gone'
      BY <3>2, <3>3 DEF Gone
    <3> QED BY <2>3, <3>4, StillGone DEF Contract!Next
  <2>4. CASE ~Gone
    BY <1>2, <1>4, <2>1, <2>2, <2>4, TextGrows DEF Contract!Next
  <2> QED BY <2>3, <2>4
<1> QED BY <1>3, <1>4

LEMMA WriteGrowingImplements ==
  ASSUME IInv, IInv', NEW data \in Data, WriteGrowing(data)
  PROVE  Contract!Next
<1>1. /\ len \in Nat /\ Len(data) \in Nat
      /\ NewCap(data) \in Nat /\ len + Len(data) <= NewCap(data)
      /\ buf # NULL => len <= Len(heap[buf])
  BY NeededIsTheSum, NewCapIsAllowed
     DEF WriteGrowing, IInv, TypeOK, WithinBounds, Words
<1>2. PICK new \in Blocks :
        /\ CopyIn(Resized(buf, new, NewCap(data)), new, data)
        /\ buf' = new
  BY DEF WriteGrowing
<1> DEFINE h == Resized(buf, new, NewCap(data))
<1>3. /\ Holds(h, new) /\ Len(h[new]) = NewCap(data) /\ new # NULL
      /\ \A i \in 1 .. NewCap(data) :
           h[new][i] = IF buf # NULL /\ i <= Len(heap[buf]) THEN heap[buf][i] ELSE Junk
  BY <1>1, HoldsBuffer, ResizedBlock, WriterAssumption
<1> HIDE DEF h
<1>4. CopyIn(h, new, data)
  BY <1>2 DEF h
<1>5. /\ len' = len + Len(data) /\ reply' = "NONE"
      /\ \A i \in 1 .. NewCap(data) :
           heap'[new][i] = IF i \in len + 1 .. len + Len(data)
                             THEN data[i - len] ELSE h[new][i]
  BY <1>1, <1>3, <1>4, CopyStep
<1>6. /\ \A i \in 1 .. len : heap'[buf'][i] = h[new][i]
      /\ \A i \in len + 1 .. len + Len(data) : heap'[buf'][i] = data[i - len]
  BY <1>1, <1>2, <1>5
<1>7. CASE Gone
  <2>1. \E i \in 1 .. len : heap'[buf'][i] = Junk
    <3>1. CASE buf = NULL
      <4>1. 1 \in 1 .. len /\ 1 \in 1 .. NewCap(data)
        BY <1>1, <1>7 DEF Gone
      <4> QED BY <1>3, <1>6, <3>1, <4>1
    <3>2. CASE buf # NULL
      <4>1. PICK i \in 1 .. len : heap[buf][i] = Junk
        BY <1>7, <3>2 DEF Gone
      <4>2. i \in 1 .. NewCap(data)
        BY <1>1
      <4> QED BY <1>3, <1>6, <4>1, <4>2
    <3> QED BY <3>1, <3>2
  <2>2. Gone'
    BY <1>1, <1>5, <1>7, <2>1 DEF Gone
  <2> QED BY <1>7, <2>2, StillGone DEF Contract!Next
<1>8. CASE ~Gone
  <2>1. \A i \in 1 .. len : heap'[buf'][i] = heap[buf][i]
    <3> SUFFICES ASSUME NEW i \in 1 .. len
                 PROVE  heap'[buf'][i] = heap[buf][i]
      OBVIOUS
    <3>1. buf # NULL /\ i <= Len(heap[buf]) /\ i \in 1 .. NewCap(data)
      BY <1>1, <1>8 DEF Gone, IInv, TypeOK, OwnsItsBlock
    <3> QED BY <1>3, <1>6, <3>1
  <2> QED BY <1>2, <1>3, <1>5, <1>6, <1>8, <2>1, TextGrows DEF Contract!Next
<1> QED BY <1>7, <1>8

LEMMA WriteRefusedImplements ==
  ASSUME IInv, IInv', NEW data \in Data, WriteRefused(data)
  PROVE  Contract!Next
<1>1. CASE Gone
  <2>1. Gone'
    BY <1>1 DEF WriteRefused, Gone
  <2> QED BY <1>1, <2>1, StillGone DEF Contract!Next
<1>2. CASE ~Gone
  <2>1. ~Gone'
    BY <1>2 DEF WriteRefused, Gone
  <2> QED BY <1>2, <2>1, TextKept DEF WriteRefused, Contract!Next
<1> QED BY <1>1, <1>2

LEMMA WriteOutOfMemoryImplements ==
  ASSUME IInv, IInv', NEW data \in Data, WriteOutOfMemory(data)
  PROVE  Contract!Next
<1>1. buf' = NULL /\ len' = len /\ reply' = "INSUFFICIENT_SPACE" /\ len \in Nat
  BY DEF WriteOutOfMemory, IInv, TypeOK, Words
<1>2. CASE len = 0
  <2>1. ~Gone /\ ~Gone'
    BY <1>1, <1>2 DEF Gone
  <2> QED BY <1>1, <1>2, <2>1, TextKept DEF Contract!Next
<1>3. CASE len > 0
  <2>1. Gone'
    BY <1>1, <1>3 DEF Gone
  <2>2. Text' = NULL
    BY <2>1, TextAfter DEF TextIsBuffer
  <2> QED BY <1>1, <2>2 DEF Contract!Lose, Contract!Next
<1> QED BY <1>1, <1>2, <1>3

LEMMA CleanupImplements ==
  ASSUME Cleanup
  PROVE  Contract!Next
BY DEF Cleanup, Defined, Text, Contract!Reset, Contract!Next

\* The memory writer implements the contract of a writer: a write either takes
\* all of its data behind all that was written before, wherever realloc moves
\* the block, or none of it and says so; and what is lost with a block is
\* reported at once and stays lost until the cleanup.
THEOREM ImplementsWriter == Spec => WriterContract
<1>1. Init => Contract!Init
  BY DEF Init, Text, Contract!Init
<1>2. IInv /\ IInv' /\ [Next]_vars => [Contract!Next]_(Contract!vars)
  <2> SUFFICES ASSUME IInv, IInv', [Next]_vars
               PROVE  Contract!Next \/ UNCHANGED Contract!vars
    OBVIOUS
  <2>1. ASSUME NEW data \in Data, WriteInPlace(data)
        PROVE  Contract!Next
    BY <2>1, WriteInPlaceImplements
  <2>2. ASSUME NEW data \in Data, WriteRefused(data)
        PROVE  Contract!Next
    BY <2>2, WriteRefusedImplements
  <2>3. ASSUME NEW data \in Data, WriteGrowing(data)
        PROVE  Contract!Next
    BY <2>3, WriteGrowingImplements
  <2>4. ASSUME NEW data \in Data, WriteOutOfMemory(data)
        PROVE  Contract!Next
    BY <2>4, WriteOutOfMemoryImplements
  <2>5. CASE Cleanup
    BY <2>5, CleanupImplements
  <2>6. CASE Stuck \/ UNCHANGED vars
    BY <2>6 DEF Stuck, vars, Text, Live, Contract!vars
  <2> QED BY <2>1, <2>2, <2>3, <2>4, <2>5, <2>6 DEF Next
<1> QED BY <1>1, <1>2, Invariance, PTL DEF Spec, WriterContract, Contract!Spec
=============================================================================
