--------------------------- MODULE SectionReader ----------------------------
(***************************************************************************)
(* What decode_section promises of a section of entries, whatever the      *)
(* entries are: it reads a count, then as many entries, each of at least   *)
(* one byte, and accepts the section only when they take all of its bytes. *)
(***************************************************************************)
EXTENDS Integers

VARIABLES
  size,      \* the bytes of the section
  used,      \* how many of them the count and the entries have taken
  left,      \* the entries still to be read, or Unknown
  result     \* "reading", "accepted" or "refused"

Unknown == -1

Init ==
  /\ size \in Nat
  /\ used = 0
  /\ left = Unknown
  /\ result = "reading"

ReadCount ==
  /\ left = Unknown
  /\ left' \in Nat
  /\ used' \in used + 1 .. size
  /\ UNCHANGED <<size, result>>

ReadEntry ==
  /\ left > 0
  /\ left' = left - 1
  /\ used' \in used + 1 .. size
  /\ UNCHANGED <<size, result>>

Accept ==
  /\ left = 0 /\ used = size
  /\ result' = "accepted"
  /\ UNCHANGED <<size, used, left>>

(* A part of an entry may have been read before it is refused.             *)
Refuse ==
  /\ result' = "refused"
  /\ used' \in used .. size
  /\ UNCHANGED <<size, left>>

Next == result = "reading" /\ (ReadCount \/ ReadEntry \/ Accept \/ Refuse)

Spec == Init /\ [][Next]_<<size, used, left, result>>

=============================================================================
