--------------------------- MODULE MCReportSummary ---------------------------
(* Model-checking instance of ReportSummary: two count groups, two        *)
(* applications and one library.  Every class holds up to two profile     *)
(* sets, each with at most one file of its own and one dependent image,   *)
(* and a file holds one or two samples, so applications tie and differ   *)
(* in group 0, an application may have no files of its own, one group may *)
(* be empty, and an application and its library appear in both groups.    *)
EXTENDS ReportSummary

CONSTANTS appA, appB, libL

MCImages == {appA, appB}
MCImageOrder == <<appA, appB>>
=============================================================================
