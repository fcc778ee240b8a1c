--------------------------- MODULE MCTraceExport ---------------------------
(***************************************************************************)
(* Instances of TraceExport for TLC: a family and the legacy experiment,   *)
(* pages of two, four traces at first and up to seven in all.              *)
(***************************************************************************)
EXTENDS TraceExport

OneFamily == <<"web">>

=============================================================================
