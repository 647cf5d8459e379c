----------------------------- MODULE MemWriter -----------------------------
(***************************************************************************)
(* bo_json_mem_writer: a writer into a heap buffer that it enlarges.       *)
(*                                                                         *)
(* size_t arithmetic is modulo WordSize.  The heap is external: realloc    *)
(* may fail at any time, may move the block, and leaves what it adds       *)
(* uninitialized; no object is larger than half the address space          *)
(* (PTRDIFF_MAX), neither a block nor the data of one write.               *)
(***************************************************************************)
EXTENDS Integers, Sequences, Functions

CONSTANTS
  WordSize,     \* 2 to the number of bits of a size_t, scaled down
  Increases,    \* the increase_bytes a caller asks for
  Limits,       \* the max_cap a caller asks for
  Data,         \* what is written in one call: sequences of bytes
  Blocks,       \* addresses of heap blocks
  NULL,         \* the null pointer
  Junk          \* what an uninitialized byte holds

Words == 0 .. WordSize - 1
ObjectMax == WordSize \div 2 - 1

ASSUME WriterAssumption ==
  /\ WordSize \in Nat /\ WordSize >= 2
  /\ Increases \subseteq Words /\ Limits \subseteq Words
  /\ \A data \in Data : data \in Seq(STRING) /\ Len(data) <= ObjectMax
  /\ NULL \notin Blocks

\* Junk is told from every byte that can be written, NULL from every text.
ASSUME MarkAssumption == Junk \notin STRING /\ NULL \notin Seq(STRING)

VARIABLES
  increase_bytes, max_cap,      \* as given to bo_json_mem_writer_init
  buf, cap, len,                \* the fields of the writer
  heap,                         \* the live blocks: address -> bytes, from 1
  reply                         \* what the last write reported

vars == <<increase_bytes, max_cap, buf, cap, len, heap, reply>>

\* Mutant: buf is not set.
InitNoBuffer ==
  /\ increase_bytes \in Increases /\ max_cap \in Limits
  /\ buf = Junk /\ cap = 0 /\ len = 0
  /\ heap = [b \in {} |-> << >>]
  /\ reply = "NONE"

\* bo_json_mem_writer_init.
Init ==
  /\ increase_bytes \in Increases /\ max_cap \in Limits
  /\ buf = NULL /\ cap = 0 /\ len = 0
  /\ heap = [b \in {} |-> << >>]
  /\ reply = "NONE"

Parameters == <<increase_bytes, max_cap>>

-----------------------------------------------------------------------------
(* The heap (external).                                                    *)

Live == DOMAIN heap

\* realloc succeeds: the block may move, its first bytes are preserved.
Resized(old, new, size) ==
  LET kept(i) == IF old # NULL /\ i <= Len(heap[old]) THEN heap[old][i] ELSE Junk
  IN [b \in (Live \ {old}) \cup {new} |->
        IF b = new THEN [i \in 1 .. size |-> kept(i)] ELSE heap[b]]

CanMoveTo(old, new) == new \in Blocks /\ (new = old \/ new \notin Live)

\* free(NULL) does nothing.
Freed(b) == [a \in Live \ {b} |-> heap[a]]

\* memcpy(dest + at, data, n): h with the bytes in place.
Copied(h, dest, at, data) ==
  [h EXCEPT ![dest] = [i \in DOMAIN @ |->
     IF i \in at + 1 .. at + Len(data) THEN data[i - at] ELSE @[i]]]

\* Whether that memcpy stays inside a live block.
InBlock(h, dest, at, n) == n = 0 \/ (dest \in DOMAIN h /\ at + n <= Len(h[dest]))

-----------------------------------------------------------------------------
(* _mem_write.                                                             *)

Defined == reply # "undefined"

Needed(data) == (len + Len(data)) % WordSize

\* Mutant: new_cap is not cut down to max_cap.
NewCapUnlimited(data) ==
  IF cap = 0 THEN Len(data) ELSE (cap + increase_bytes) % WordSize

\* The first block is as large as the first write; then one increase at most.
NewCap(data) ==
  LET wanted == IF cap = 0 THEN Len(data) ELSE (cap + increase_bytes) % WordSize
  IN IF wanted > max_cap THEN max_cap ELSE wanted

\* The copy and the new length; h and b are the heap and the buffer it goes
\* to.  A copy outside of every block has no defined behaviour.
CopyIn(h, b, data) ==
  \/ /\ InBlock(h, b, len, Len(data))
     /\ heap' = IF data = << >> THEN h ELSE Copied(h, b, len, data)
     /\ len' = Needed(data)
     /\ reply' = "NONE"
  \/ /\ ~InBlock(h, b, len, Len(data))
     /\ heap' = h
     /\ reply' = "undefined"
     /\ UNCHANGED len

WriteInPlace(data) ==
  /\ Defined
  /\ Needed(data) <= cap
  /\ CopyIn(heap, buf, data)
  /\ UNCHANGED <<buf, cap, Parameters>>

WriteRefused(data) ==
  /\ Defined
  /\ Needed(data) > cap
  /\ Needed(data) > NewCap(data)
  /\ reply' = "INSUFFICIENT_SPACE"
  /\ UNCHANGED <<buf, cap, len, heap, Parameters>>

WriteGrowing(data) ==
  /\ Defined
  /\ Needed(data) > cap
  /\ Needed(data) <= NewCap(data)
  /\ NewCap(data) <= ObjectMax
  /\ \E new \in Blocks :
       /\ CanMoveTo(buf, new)
       /\ CopyIn(Resized(buf, new, NewCap(data)), new, data)
       /\ buf' = new
  /\ cap' = NewCap(data)
  /\ UNCHANGED Parameters

\* Mutant: the old block is not freed when realloc fails.
WriteOutOfMemoryLeaks(data) ==
  /\ Defined
  /\ Needed(data) > cap
  /\ Needed(data) <= NewCap(data)
  /\ buf' = NULL
  /\ reply' = "INSUFFICIENT_SPACE"
  /\ UNCHANGED <<cap, len, heap, Parameters>>

\* realloc fails: the buffer is freed, but cap and len keep their values.
WriteOutOfMemory(data) ==
  /\ Defined
  /\ Needed(data) > cap
  /\ Needed(data) <= NewCap(data)
  /\ heap' = Freed(buf)
  /\ buf' = NULL
  /\ reply' = "INSUFFICIENT_SPACE"
  /\ UNCHANGED <<cap, len, Parameters>>

\* Mutant: the capacity survives the buffer.
CleanupKeepsCap ==
  /\ Defined
  /\ heap' = Freed(buf)
  /\ buf' = NULL /\ len' = 0
  /\ UNCHANGED <<cap, reply, Parameters>>

\* bo_json_mem_writer_cleanup; the writer can be used again.
Cleanup ==
  /\ Defined
  /\ heap' = Freed(buf)
  /\ buf' = NULL /\ cap' = 0 /\ len' = 0
  /\ UNCHANGED <<reply, Parameters>>

Stuck == ~Defined /\ UNCHANGED vars

Next ==
  \/ \E data \in Data : \/ WriteInPlace(data) \/ WriteRefused(data)
                        \/ WriteGrowing(data) \/ WriteOutOfMemory(data)
  \/ Cleanup
  \/ Stuck

Spec == Init /\ [][Next]_vars

-----------------------------------------------------------------------------
Bytes == STRING \cup {Junk}

\* The fields of the writer are words, its buffer is a block address.
TypeOK ==
  /\ increase_bytes \in Words /\ max_cap \in Words
  /\ buf \in Blocks \cup {NULL} /\ cap \in Words /\ len \in Words
  /\ Live \subseteq Blocks /\ \A b \in Live : heap[b] \in Seq(Bytes)
  /\ reply \in {"NONE", "INSUFFICIENT_SPACE", "undefined"}

\* The writer never takes more than it was allowed, and what it believes about
\* its buffer is true of the block, through every growth, failure and reuse,
\* also when cap + increase_bytes wraps around.
WithinBounds ==
  /\ len <= cap /\ cap <= max_cap
  /\ buf # NULL => buf \in Live /\ Len(heap[buf]) = cap

\* No leak, no dangling pointer, nothing to free twice: at every moment the
\* live blocks are exactly the buffer.
OwnsItsBlock == Live = {buf} \ {NULL}

\* The bytes taken so far; NULL when they are gone: freed with the buffer when
\* realloc failed, although len still counts them.
Text ==
  LET written == IF buf \in Live THEN SubSeq(heap[buf], 1, len) ELSE << >> IN
  IF len = 0 THEN << >>
  ELSE IF buf \notin Live \/ Junk \in Range(written) THEN NULL
  ELSE written

\* The writer implements the contract: a write reported as done has appended
\* exactly its data behind all that was written before, wherever the block has
\* moved; and only a writer that has reported the loss of its buffer, and was
\* not cleaned up since, writes where it must not.
Contract == INSTANCE Writer WITH text <- Text, Lost <- NULL
WriterContract == Contract!Spec
=============================================================================
