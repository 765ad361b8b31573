------------------------------- MODULE Report -------------------------------
(***************************************************************************)
(* What a run of jcut promises about its report, without processes, pipes  *)
(* or expressions: the verdicts of the tests are recorded one by one, in   *)
(* the order the tests appear in the file; a recorded verdict never        *)
(* changes; the report that is printed is exactly what was recorded; and a *)
(* run that fails prints nothing, what it had recorded is dropped.         *)
(***************************************************************************)
EXTENDS Sequences

VARIABLES
  status,  \* "running", "published" or "failed"
  report   \* the verdicts recorded so far

reportVars == <<status, report>>

ReportInit == status = "running" /\ report = <<>>

Record ==
  /\ status = "running" /\ UNCHANGED status
  /\ \E v \in {"PASSED", "FAILED"} : report' = Append(report, v)

Publish == status = "running" /\ status' = "published" /\ UNCHANGED report

Fail == status = "running" /\ status' = "failed" /\ report' = <<>>

RunAgain == status # "running" /\ status' = "running" /\ report' = <<>>

ReportNext == Record \/ Publish \/ Fail \/ RunAgain

ReportSpec == ReportInit /\ [][ReportNext]_reportVars
=============================================================================
