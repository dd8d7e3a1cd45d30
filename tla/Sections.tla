------------------------------ MODULE Sections ------------------------------
(***************************************************************************)
(* Decoding the sections of a binary module: read_toc lists the sections   *)
(* of the file, then decode_bytes decodes them one after another and       *)
(* checks what they say about each other.  A file may hold any sections in *)
(* any order.                                                              *)
(*                                                                         *)
(* A section is a record                                                   *)
(*   id       its SectionId                                                *)
(*   fits     its size does not reach past the end of the file             *)
(*   count    the entry count it declares, or for Start and DataCount the  *)
(*            number it holds                                              *)
(*   entries  how many well-formed entries (for Start and DataCount:       *)
(*            numbers) its payload consists of                             *)
(*   bulk     for Code: some body has a memory.init or a data.drop         *)
(***************************************************************************)
EXTENDS Integers, Sequences

CONSTANTS
  FileSections,   \* the sections a file may hold
  MaxSections     \* bound: sections of a file

VARIABLES
  file,    \* the sections of the file
  phase,   \* what decode_bytes is doing, or its result
  toc,     \* Module.sections: how far the file has been read
  next,    \* the section to be decoded
  module   \* Module.types, .imports, ...: the place in toc of each

vars == <<file, phase, toc, next, module>>

(* The known sections, in the order a module has them (SectionId::order).  *)
SectionOrder ==
  <<"Type", "Import", "Function", "Table", "Memory", "Global", "Export",
    "Start", "Element", "DataCount", "Code", "Data">>

KnownIds == {SectionOrder[k] : k \in DOMAIN SectionOrder}
SectionId == KnownIds \cup {"Custom"}

Order(id) ==
  IF id = "Custom" THEN 0
  ELSE CHOOSE k \in DOMAIN SectionOrder : SectionOrder[k] = id

Section == [id : SectionId, fits : BOOLEAN, count : Nat, entries : Nat, bulk : BOOLEAN]

ASSUME FileAssumption == FileSections \subseteq Section
ASSUME BoundAssumption == MaxSections \in Nat

Absent == 0

Has(id) == module[id] # Absent
Decoded(id) == toc[module[id]]
Length(id) == IF Has(id) THEN Decoded(id).count ELSE 0

Reject == phase' = "rejected" /\ UNCHANGED <<file, toc, next, module>>

-----------------------------------------------------------------------------
(* read_toc.                                                               *)

Seen(id) == \E k \in DOMAIN toc : toc[k].id = id

(* Fault: the sections seen are not remembered.                            *)
DuplicateNever(s) == FALSE

Duplicate(s) == s.id # "Custom" /\ Seen(s.id)

(* Fault: a custom section has a place in the order.                       *)
OutOfOrderOfCustom(s) ==
  toc # <<>> /\ Order(s.id) < Order(toc[Len(toc)].id)

(* Only the section just before is compared with.                          *)
OutOfOrder(s) ==
  /\ toc # <<>>
  /\ s.id # "Custom" /\ toc[Len(toc)].id # "Custom"
  /\ Order(s.id) < Order(toc[Len(toc)].id)

MoreToRead == phase = "toc" /\ Len(toc) < Len(file)
Upcoming == file[Len(toc) + 1]

ReadHeader ==
  /\ MoreToRead
  /\ ~Duplicate(Upcoming) /\ Upcoming.fits /\ ~OutOfOrder(Upcoming)
  /\ toc' = Append(toc, Upcoming)
  /\ UNCHANGED <<file, phase, next, module>>

BadHeader ==
  /\ MoreToRead
  /\ Duplicate(Upcoming) \/ ~Upcoming.fits \/ OutOfOrder(Upcoming)
  /\ Reject

EndOfFile ==
  /\ phase = "toc" /\ Len(toc) = Len(file)
  /\ phase' = "decode"
  /\ UNCHANGED <<file, toc, next, module>>

-----------------------------------------------------------------------------
(* decode_bytes.                                                           *)

(* decode_custom_section reads a name and keeps the rest; Start and        *)
(* DataCount read one number; the others read their entries to the end.    *)
WellFormed(s) ==
  IF s.id \in {"Custom", "Start", "DataCount"} THEN s.entries > 0
  ELSE s.entries = s.count

(* The data section disagrees with the data count read before it.          *)
CountMismatch(s) ==
  s.id = "Data" /\ Has("DataCount") /\ s.count # Decoded("DataCount").count

Decoding == phase = "decode" /\ next <= Len(toc)

(* Fault: the section after a custom one is passed over with it.           *)
DecodeSectionPassesOver ==
  /\ Decoding
  /\ LET s == toc[next]
     IN  /\ WellFormed(s) /\ ~CountMismatch(s)
         /\ module' = IF s.id = "Custom" THEN module
                      ELSE [module EXCEPT ![s.id] = next]
         /\ next' = next + IF s.id = "Custom" THEN 2 ELSE 1
  /\ UNCHANGED <<file, phase, toc>>

DecodeSection ==
  /\ Decoding
  /\ LET s == toc[next]
     IN  /\ WellFormed(s) /\ ~CountMismatch(s)
         /\ module' = IF s.id = "Custom" THEN module
                      ELSE [module EXCEPT ![s.id] = next]
  /\ next' = next + 1
  /\ UNCHANGED <<file, phase, toc>>

BadSection ==
  /\ Decoding
  /\ ~WellFormed(toc[next]) \/ CountMismatch(toc[next])
  /\ Reject

(* The checks across sections.  Fault: the data section alone looks at the *)
(* data count.                                                             *)
ConsistentWhenPresent ==
  /\ Length("Function") = Length("Code")
  /\ ~Has("DataCount") => ~(Has("Code") /\ Decoded("Code").bulk)

Consistent ==
  /\ Length("Function") = Length("Code")
  /\ Has("DataCount") => Length("Data") = Decoded("DataCount").count
  /\ ~Has("DataCount") => ~(Has("Code") /\ Decoded("Code").bulk)

Finish ==
  /\ phase = "decode" /\ next > Len(toc)
  /\ phase' = IF Consistent THEN "accepted" ELSE "rejected"
  /\ UNCHANGED <<file, toc, next, module>>

-----------------------------------------------------------------------------
Init ==
  /\ \E n \in 0 .. MaxSections : file \in [1 .. n -> FileSections]
  /\ phase = "toc"
  /\ toc = <<>>
  /\ next = 1
  /\ module = [id \in KnownIds |-> Absent]

Next ==
  \/ ReadHeader \/ BadHeader \/ EndOfFile
  \/ DecodeSection \/ BadSection \/ Finish

(* decode_bytes runs until it returns.                                     *)
Spec == Init /\ [][Next]_vars /\ WF_vars(Next)

-----------------------------------------------------------------------------
(* Properties.                                                             *)

TypeOK ==
  /\ phase \in {"toc", "decode", "accepted", "rejected"}
  /\ file \in Seq(Section) /\ toc \in Seq(Section)
  /\ next \in 1 .. Len(toc) + 1
  /\ module \in [KnownIds -> 0 .. Len(toc)]

(* Decoding a section never replaces what an earlier section of the module *)
(* has declared: only custom sections come twice.                          *)
NothingReplaced ==
  [][\A id \in KnownIds : Has(id) => UNCHANGED module[id]]_vars

Sections(id) == {k \in DOMAIN file : file[k].id = id}

(* What the rest of the program takes for granted of a decoded module:     *)
(* every function has a body, the data count tells the truth whatever the  *)
(* order of the sections, and code that names data segments comes with     *)
(* one.                                                                    *)
AcceptedIsConsistent ==
  phase = "accepted" =>
    /\ Length("Function") = Length("Code")
    /\ \A j \in Sections("DataCount"), k \in Sections("Data") :
         file[j].count = file[k].count
    /\ \A k \in Sections("Code") : file[k].bulk => Sections("DataCount") # {}

(* The content of a section ends where the section does.                   *)
Filled(s) ==
  CASE s.id = "Custom" -> s.entries > 0
    [] s.id \in {"Start", "DataCount"} -> s.entries = 1
    [] OTHER -> s.entries = s.count

CountOf(id) ==
  IF Sections(id) = {} THEN 0 ELSE file[CHOOSE k \in Sections(id) : TRUE].count

InOrder ==
  \A j, k \in DOMAIN file :
    j < k /\ file[j].id # "Custom" /\ file[k].id # "Custom" =>
      Order(file[j].id) < Order(file[k].id)

WellFormedFile ==
  /\ InOrder
  /\ \A k \in DOMAIN file : file[k].fits /\ Filled(file[k])
  /\ CountOf("Function") = CountOf("Code")
  /\ Sections("DataCount") # {} => CountOf("Data") = CountOf("DataCount")
  /\ Sections("DataCount") = {} => \A k \in Sections("Code") : ~file[k].bulk

(* A file whose known sections come in order and once, whose payloads end  *)
(* where their sections do and whose counts agree is accepted.             *)
WellFormedAccepted == WellFormedFile ~> phase = "accepted"

(* "section out of order" (module.rs:82): known sections come in order.    *)
AcceptedInOrder == phase = "accepted" => InOrder

(* "section size mismatch" (sections.rs:201): a section's content ends     *)
(* where the section does.                                                 *)
AcceptedFilled == phase = "accepted" => \A k \in DOMAIN file : Filled(file[k])

=============================================================================
