------------------------- MODULE DecoderRefinement --------------------------
(***************************************************************************)
(* The decoder implements SectionReader on the sections that consist of    *)
(* entries.  The entry under way still counts as one to be read, and none  *)
(* of its bytes as taken.                                                  *)
(***************************************************************************)
EXTENDS Decoder

LastVector == todo[Len(todo) - 1]

CountUnread == Len(todo) = 2 /\ LastVector[1] = "vec"
AmongEntries == Len(todo) = 2 /\ LastVector[1] = "elems"
WithinEntry == Len(todo) > 2

EntryStart == IF entry # <<>> THEN entry[1].from ELSE Len(data) - number.i

EntriesLeft ==
  CASE CountUnread  -> -1
    [] AmongEntries -> LastVector[3]
    [] WithinEntry  -> LastVector[3] + 1
    [] OTHER        -> 0

BytesTaken ==
  CASE CountUnread -> 0
    [] WithinEntry -> EntryStart
    [] OTHER       -> Len(data)

Result ==
  CASE outcome = "reading" -> "reading"
    [] outcome = "decoded" -> "accepted"
    [] OTHER               -> "refused"

OfEntries == section.kind \in EntryKinds

SR == INSTANCE SectionReader WITH
  size   <- readers[1].end,
  used   <- IF OfEntries THEN BytesTaken ELSE 0,
  left   <- IF OfEntries THEN EntriesLeft ELSE -1,
  result <- IF OfEntries THEN Result ELSE "reading"

(* decode_section accepts a section only after as many entries as it       *)
(* declares, each of a byte or more, that together fill it.                *)
ImplementsSectionReader == SR!Spec

=============================================================================
