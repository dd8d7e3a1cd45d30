----------------------------- MODULE MCSections -----------------------------
(***************************************************************************)
(* Files of up to MaxSections sections: counts 0 and 1, payloads one entry *)
(* too short or too long, a size past the end of the file.                 *)
(***************************************************************************)
EXTENDS Sections

S(id, count, entries) ==
  [id |-> id, fits |-> TRUE, count |-> count, entries |-> entries, bulk |-> FALSE]

MCFileSections ==
  {S("Custom", 0, 1), S("Custom", 0, 0), S("Type", 0, 0), S("Import", 0, 0),
   S("Function", 1, 1), S("Function", 1, 0), S("Code", 1, 1), S("Code", 1, 2),
   [S("Code", 1, 1) EXCEPT !.bulk = TRUE], [S("Data", 1, 1) EXCEPT !.fits = FALSE],
   S("Data", 1, 1), S("Data", 0, 0), S("DataCount", 1, 1), S("DataCount", 1, 2)}

=============================================================================
