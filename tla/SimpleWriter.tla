---------------------------- MODULE SimpleWriter ----------------------------
(***************************************************************************)
(* bo_json_simple_writer: a writer into a buffer of fixed size that        *)
(* belongs to the caller.                                                  *)
(***************************************************************************)
EXTENDS Integers, Sequences, Functions

CONSTANTS
  WordSize,     \* 2 to the number of bits of a size_t, scaled down
  Capacities,   \* the sizes of the buffers a caller provides
  Junk          \* what a byte of the buffer holds that was never written

ASSUME CapacityAssumption == WordSize \in Nat /\ Capacities \subseteq 0 .. WordSize - 1

VARIABLES
  buf,          \* the bytes of the caller's buffer
  cap, len,     \* the fields of the writer
  reply         \* what the last write reported

writer == <<buf, cap, len, reply>>

\* bo_json_simple_writer_init: cap is the size of the buffer.
WriterInit ==
  /\ cap \in Capacities
  /\ buf = [i \in 1 .. cap |-> Junk]
  /\ len = 0
  /\ reply = "NONE"

\* Mutant: what is already written is not taken into account.
RoomOfAll == cap

Room == (cap - len) % WordSize

\* memcpy into the buffer at len; bytes past its end fall on memory that is
\* not the writer's.
Taken(data) ==
  /\ Room >= Len(data)
  /\ buf' = [i \in DOMAIN buf |->
               IF i \in len + 1 .. len + Len(data) THEN data[i - len] ELSE buf[i]]
  /\ len' = len + Len(data)
  /\ reply' = "NONE"
  /\ UNCHANGED cap

\* Mutant: data that fills the buffer to the last byte is refused.
RefusedExactFit(data) ==
  /\ Room <= Len(data)
  /\ reply' = "INSUFFICIENT_SPACE"
  /\ UNCHANGED <<buf, cap, len>>

\* Mutant: what there is room for is taken.
RefusedPartly(data) ==
  /\ Room < Len(data)
  /\ reply' = "INSUFFICIENT_SPACE"
  /\ buf' = [i \in DOMAIN buf |-> IF i > len THEN data[i - len] ELSE buf[i]]
  /\ len' = cap
  /\ UNCHANGED cap

Refused(data) ==
  /\ Room < Len(data)
  /\ reply' = "INSUFFICIENT_SPACE"
  /\ UNCHANGED <<buf, cap, len>>

\* The bytes taken so far.
Text == SubSeq(buf, 1, len)

-----------------------------------------------------------------------------
\* The buffer is never overrun, and behind the text it is as the caller left
\* it: a write that does not fit leaves no part of itself.
BufferKept ==
  /\ len <= cap /\ Len(buf) = cap
  /\ \A i \in len + 1 .. cap : buf[i] = Junk
  /\ Junk \notin Range(Text)
=============================================================================
