---------------------------- MODULE MCReportWriter ----------------------------
(* Two calls that refuse and one that replaces; one shares a process with the *)
(* replacing one, the other has a process whose temporary names are the same. *)
(* The name that is planted lies where the third call can still go past it.   *)
EXTENDS ReportWriter

WritersMC == {"w1", "w2", "w3"}

ProcessesMC == {"p1", "p2"}

ProcessOfMC == [w1 |-> "p1", w2 |-> "p1", w3 |-> "p2"]

OverwriteMC == [w1 |-> "ErrorIfExists", w2 |-> "Replace", w3 |-> "ErrorIfExists"]

NamesMC == 0 .. 3

PlantedMC == {2}

=============================================================================
