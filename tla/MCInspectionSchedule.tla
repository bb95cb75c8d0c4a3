------------------------- MODULE MCInspectionSchedule -------------------------
(* An instance of InspectionSchedule: as many names of runs as the state can     *)
(* mention, and one more. Edits that overlap (several editors) are left to the   *)
(* theorems of InspectionScheduleProofs, which hold for any number of them.      *)
EXTENDS InspectionSchedule
=============================================================================
