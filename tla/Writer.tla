------------------------------- MODULE Writer -------------------------------
(***************************************************************************)
(* What a bo_json_writer promises the encoder, whichever writer it is: a   *)
(* write takes all of its data or reports an error and takes none of it.   *)
(* A writer may also lose what it has, when it runs out of memory; from    *)
(* then on it promises nothing until it is cleaned up.                     *)
(***************************************************************************)
EXTENDS Sequences

CONSTANTS
  Data,         \* what can be written in one call: sequences of bytes
  Lost          \* no sequence of bytes

VARIABLES
  text,         \* the bytes taken since the start, or Lost
  reply         \* what the last call reported

vars == <<text, reply>>

Replies == {"NONE", "INSUFFICIENT_SPACE", "undefined"}

Init == text = << >> /\ reply = "NONE"

Accept ==
  /\ text # Lost
  /\ \E data \in Data : text' = text \o data
  /\ reply' = "NONE"

Refuse ==
  /\ text # Lost
  /\ text' = text
  /\ reply' = "INSUFFICIENT_SPACE"

Lose ==
  /\ text' = Lost
  /\ reply' = "INSUFFICIENT_SPACE"

\* A write to a writer that has lost its text.
AfterLoss ==
  /\ text = Lost /\ text' = Lost
  /\ reply' \in Replies

Reset ==
  /\ reply # "undefined"
  /\ text' = << >>
  /\ UNCHANGED reply

Next == Accept \/ Refuse \/ Lose \/ AfterLoss \/ Reset

Spec == Init /\ [][Next]_vars
=============================================================================
