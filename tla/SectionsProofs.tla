--------------------------- MODULE SectionsProofs ---------------------------
(***************************************************************************)
(* For every set of sections and files of any length: decoding keeps its   *)
(* types, declares nothing twice, and what it accepts is consistent across *)
(* sections.                                                               *)
(*                                                                         *)
(* SInv says what decode_bytes knows when the checks across sections run:  *)
(* it has read the whole file (Reading), known sections come once (Once),  *)
(* and module holds the place of each one decoded and no other (Placed).   *)
(***************************************************************************)
EXTENDS Sections, TLAPS

Reading ==
  /\ Len(toc) <= Len(file)
  /\ \A k \in 1 .. Len(toc) : toc[k] = file[k]
  /\ phase \in {"decode", "accepted"} => Len(toc) = Len(file)
  /\ phase = "toc" => next = 1

Once ==
  \A j, k \in 1 .. Len(toc) :
    toc[j].id = toc[k].id /\ toc[j].id # "Custom" => j = k

Placed ==
  /\ \A id \in KnownIds :
       module[id] # Absent => module[id] < next /\ toc[module[id]].id = id
  /\ \A k \in 1 .. next - 1 : toc[k].id # "Custom" => module[toc[k].id] = k

Checked == phase = "accepted" => next > Len(toc) /\ Consistent

SInv == TypeOK /\ Reading /\ Once /\ Placed /\ Checked

-----------------------------------------------------------------------------
(* A section read is one with an id: a known one, or custom.               *)
LEMMA SectionTyped ==
  ASSUME TypeOK, NEW k \in 1 .. Len(toc)
  PROVE  /\ toc[k] \in Section
         /\ toc[k].id # "Custom" => toc[k].id \in KnownIds
<1>1. toc[k] \in Section
  BY DEF TypeOK
<1>2. toc[k].id \in KnownIds \cup {"Custom"}
  BY <1>1 DEF Section, SectionId
<1> QED
  BY <1>1, <1>2

LEMMA StartInv ==
  ASSUME Init
  PROVE  SInv
<1>1. file \in Seq(Section)
  BY FileAssumption, BoundAssumption DEF Init
<1>2. TypeOK
  BY <1>1 DEF Init, TypeOK, Absent
<1>3. Len(toc) = 0 /\ Len(file) \in Nat
  BY <1>1 DEF Init
<1> QED
  BY <1>2, <1>3 DEF Init, SInv, Reading, Once, Placed, Checked

(* Reading on: a known section is appended only when it is the first one.  *)
LEMMA ReadHeaderStep ==
  ASSUME SInv, ReadHeader
  PROVE  SInv'
<1> USE DEF SInv
<1>1. /\ phase = "toc" /\ Len(toc) < Len(file) /\ toc \in Seq(Section)
      /\ file \in Seq(Section) /\ UNCHANGED <<file, phase, next, module>>
  BY DEF ReadHeader, MoreToRead, TypeOK
<1>2. Upcoming \in Section /\ Upcoming = file[Len(toc) + 1]
  BY <1>1 DEF Upcoming
<1>3. toc' = Append(toc, Upcoming)
  BY DEF ReadHeader
<1>4. /\ toc' \in Seq(Section) /\ Len(toc') = Len(toc) + 1
      /\ \A k \in 1 .. Len(toc) : toc'[k] = toc[k]
      /\ toc'[Len(toc) + 1] = Upcoming
  BY <1>1, <1>2, <1>3
<1>5. TypeOK'
  BY <1>1, <1>4 DEF TypeOK
<1>6. Reading'
  BY <1>1, <1>2, <1>4 DEF Reading
<1>7. Once'
  <2>1. \A k \in 1 .. Len(toc) : Upcoming.id # "Custom" => toc[k].id # Upcoming.id
    BY <1>1 DEF ReadHeader, Duplicate, Seen
  <2> QED
    BY <1>1, <1>4, <2>1 DEF Once
<1>8. Placed'
  BY <1>1, <1>4 DEF Placed, Reading, TypeOK, Absent
<1>9. Checked'
  BY <1>1 DEF Checked
<1> QED
  BY <1>5, <1>6, <1>7, <1>8, <1>9

LEMMA EndOfFileStep ==
  ASSUME SInv, EndOfFile
  PROVE  SInv'
  BY DEF SInv, EndOfFile, TypeOK, Reading, Once, Placed, Checked

LEMMA RejectStep ==
  ASSUME SInv, Reject
  PROVE  SInv'
  BY DEF SInv, Reject, TypeOK, Reading, Once, Placed, Checked

(* The section decoded has a place of its own: it was absent before.       *)
LEMMA FirstOfItsKind ==
  ASSUME SInv, Decoding, toc[next].id # "Custom"
  PROVE  module[toc[next].id] = Absent
<1>1. next \in 1 .. Len(toc)
  BY DEF SInv, TypeOK, Decoding
<1>2. toc[next].id \in KnownIds
  BY <1>1, SectionTyped DEF SInv
<1>3. ASSUME module[toc[next].id] # Absent PROVE FALSE
  <2> DEFINE p == module[toc[next].id]
  <2>1. p \in 1 .. Len(toc)
    BY <1>2, <1>3 DEF SInv, TypeOK, Absent
  <2>2. p < next /\ toc[p].id = toc[next].id
    BY <1>2, <1>3 DEF SInv, Placed
  <2> QED
    BY <1>1, <2>1, <2>2 DEF SInv, Once
<1> QED
  BY <1>3

LEMMA DecodeSectionStep ==
  ASSUME SInv, DecodeSection
  PROVE  SInv'
<1> USE DEF SInv
<1> DEFINE id == toc[next].id
<1>1. /\ next \in 1 .. Len(toc) /\ phase = "decode" /\ Len(toc) \in Nat
      /\ next' = next + 1 /\ UNCHANGED <<file, phase, toc>>
  BY DEF DecodeSection, Decoding, TypeOK
<1>2. module' = IF id = "Custom" THEN module ELSE [module EXCEPT ![id] = next]
  BY DEF DecodeSection
<1>3. module \in [KnownIds -> 0 .. Len(toc)]
  BY DEF TypeOK
<1>4. id # "Custom" => id \in KnownIds /\ module[id] = Absent
  BY <1>1, SectionTyped, FirstOfItsKind DEF DecodeSection
<1>5. TypeOK'
  BY <1>1, <1>2, <1>3, <1>4 DEF TypeOK
<1>6. Reading' /\ Once'
  BY <1>1 DEF Reading, Once
<1>7. Placed'
  <2>1. ASSUME NEW i \in KnownIds, module'[i] # Absent
        PROVE  module'[i] < next' /\ toc'[module'[i]].id = i
    <3>1. CASE i = id /\ id # "Custom"
      BY <1>1, <1>2, <1>3, <3>1
    <3>2. CASE ~(i = id /\ id # "Custom")
      <4>1. module'[i] = module[i]
        BY <1>2, <1>3, <3>2
      <4> QED
        BY <1>1, <1>3, <2>1, <4>1 DEF Placed
    <3> QED
      BY <3>1, <3>2
  <2>2. ASSUME NEW k \in 1 .. next' - 1, toc'[k].id # "Custom"
        PROVE  module'[toc'[k].id] = k
    <3>1. CASE k = next
      BY <1>1, <1>2, <1>3, <1>4, <2>2, <3>1
    <3>2. CASE k # next
      <4>1. k \in 1 .. next - 1 /\ k \in 1 .. Len(toc)
        BY <1>1, <3>2
      <4>2. module[toc[k].id] = k /\ toc[k].id \in KnownIds
        BY <1>1, <2>2, <4>1, SectionTyped DEF Placed
      <4>3. toc[k].id # id \/ id = "Custom"
        BY <1>1, <1>4, <4>1, <4>2 DEF Absent
      <4> QED
        BY <1>1, <1>2, <1>3, <2>2, <4>2, <4>3
    <3> QED
      BY <3>1, <3>2
  <2> QED
    BY <2>1, <2>2 DEF Placed
<1>8. Checked'
  BY <1>1 DEF Checked
<1> QED
  BY <1>5, <1>6, <1>7, <1>8

LEMMA FinishStep ==
  ASSUME SInv, Finish
  PROVE  SInv'
<1>1. UNCHANGED <<file, toc, next, module>> /\ phase = "decode" /\ next > Len(toc)
  BY DEF Finish
<1>2. TypeOK' /\ Reading' /\ Once' /\ Placed'
  BY <1>1 DEF SInv, TypeOK, Reading, Once, Placed, Finish
<1>3. Checked'
  <2>1. Consistent' = Consistent
    BY <1>1 DEF Consistent, Length, Has, Decoded
  <2> QED
    BY <1>1, <2>1 DEF Checked, Finish
<1> QED
  BY <1>2, <1>3 DEF SInv

LEMMA StepInv ==
  ASSUME SInv, [Next]_vars
  PROVE  SInv'
<1>1. CASE UNCHANGED vars
  <2>1. Consistent' = Consistent
    BY <1>1 DEF vars, Consistent, Length, Has, Decoded
  <2> QED
    BY <1>1, <2>1 DEF vars, SInv, TypeOK, Reading, Once, Placed, Checked
<1>2. CASE BadHeader \/ BadSection
  BY <1>2, RejectStep DEF BadHeader, BadSection
<1> QED
  BY <1>1, <1>2, ReadHeaderStep, EndOfFileStep, DecodeSectionStep, FinishStep
     DEF Next

(* Decoding keeps the invariant, whatever the file.                        *)
THEOREM SectionInvariant == Spec => []SInv
  BY StartInv, StepInv, PTL DEF Spec

(* Files, and what has been read and decoded of them, keep their types.    *)
THEOREM DecodingAlwaysTyped == Spec => []TypeOK
<1>1. SInv => TypeOK
  BY DEF SInv
<1> QED
  BY <1>1, SectionInvariant, PTL

-----------------------------------------------------------------------------
(* What decoding never does, and what it leaves.                           *)

(* Only an absent section is ever declared.                                *)
THEOREM NothingEverReplaced == Spec => NothingReplaced
<1>1. SInv /\ [Next]_vars =>
        [\A id \in KnownIds : Has(id) => UNCHANGED module[id]]_vars
  <2> SUFFICES ASSUME SInv, Next, NEW id \in KnownIds, Has(id)
               PROVE  module'[id] = module[id]
    OBVIOUS
  <2>1. CASE DecodeSection
    <3>1. module \in [KnownIds -> 0 .. Len(toc)]
      BY DEF SInv, TypeOK
    <3>2. toc[next].id # "Custom" => toc[next].id # id
      BY <2>1, FirstOfItsKind DEF DecodeSection, Has
    <3> QED
      BY <2>1, <3>1, <3>2 DEF DecodeSection
  <2>2. CASE ~DecodeSection
    BY <2>2 DEF Next, ReadHeader, BadHeader, EndOfFile, BadSection, Finish, Reject
  <2> QED
    BY <2>1, <2>2
<1> QED
  BY <1>1, SectionInvariant, PTL DEF Spec, NothingReplaced

LEMMA DataCountKnown == "DataCount" \in KnownIds
<1>1. 10 \in DOMAIN SectionOrder /\ SectionOrder[10] = "DataCount"
  BY DEF SectionOrder
<1> QED
  BY <1>1 DEF KnownIds

(* When a file is accepted each of its known sections has been decoded.    *)
LEMMA AllDecoded ==
  ASSUME SInv, phase = "accepted", NEW id, id # "Custom", NEW k \in Sections(id)
  PROVE  Has(id) /\ Decoded(id) = file[k] /\ Length(id) = file[k].count
<1>1. k \in 1 .. Len(toc) /\ toc[k] = file[k] /\ file[k].id = id
  BY DEF SInv, TypeOK, Reading, Sections
<1>2. k \in 1 .. next - 1
  BY <1>1 DEF SInv, TypeOK, Checked
<1>3. module[id] = k
  BY <1>1, <1>2 DEF SInv, Placed
<1> QED
  BY <1>1, <1>3 DEF Has, Decoded, Length, Absent

(* Conversely what has been decoded is a section of the file.              *)
LEMMA DecodedIsThere ==
  ASSUME SInv, NEW id \in KnownIds, Has(id)
  PROVE  module[id] \in Sections(id)
<1>1. module[id] \in 1 .. Len(toc) /\ toc[module[id]].id = id
  BY DEF SInv, TypeOK, Placed, Has, Absent
<1> QED
  BY <1>1 DEF SInv, TypeOK, Reading, Sections

(* What a decoded module says in two sections agrees, in whatever order    *)
(* and between whatever custom sections they come.                         *)
THEOREM AcceptedAlwaysConsistent == Spec => []AcceptedIsConsistent
<1>1. SInv => AcceptedIsConsistent
  <2> SUFFICES ASSUME SInv, phase = "accepted"
               PROVE  /\ Length("Function") = Length("Code")
                      /\ \A j \in Sections("DataCount"), k \in Sections("Data") :
                           file[j].count = file[k].count
                      /\ \A k \in Sections("Code") :
                           file[k].bulk => Sections("DataCount") # {}
    BY DEF AcceptedIsConsistent
  <2>1. Consistent
    BY DEF SInv, Checked
  <2>2. ASSUME NEW j \in Sections("DataCount"), NEW k \in Sections("Data")
        PROVE  file[j].count = file[k].count
    <3>1. Has("DataCount") /\ Decoded("DataCount") = file[j]
      BY AllDecoded
    <3>2. Length("Data") = file[k].count
      BY AllDecoded
    <3> QED
      BY <2>1, <3>1, <3>2 DEF Consistent
  <2>3. ASSUME NEW k \in Sections("Code"), file[k].bulk
        PROVE  Sections("DataCount") # {}
    <3>1. Has("Code") /\ Decoded("Code") = file[k]
      BY AllDecoded
    <3>2. Has("DataCount")
      BY <2>1, <2>3, <3>1 DEF Consistent
    <3> QED
      BY <3>2, DataCountKnown, DecodedIsThere
  <2> QED
    BY <2>1, <2>2, <2>3 DEF Consistent
<1> QED
  BY <1>1, SectionInvariant, PTL

=============================================================================
