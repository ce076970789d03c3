------------------------------- MODULE Rollup --------------------------------
(***************************************************************************)
(* The rollups of lib/report.py and lib/slack_report.py.  None of them      *)
(* looks at the order or the number of the steps, so each is a function of  *)
(* the set of statuses it rolls up; the first condition that holds decides. *)
(***************************************************************************)
(* DocumentTrace.compute_status: S holds the statuses of one document's     *)
(* steps.  It once let SKIPPED pass for PASS.                               *)
SkippedPasses(S) ==
  IF S = {} THEN "PENDING"
  ELSE IF "FAIL" \in S THEN "FAIL"
  ELSE IF S \cap {"PARTIAL", "PENDING"} # {} THEN "PARTIAL"
  ELSE "PASS"

ComputeStatus(S) ==
  IF S = {} THEN "PENDING"
  ELSE IF "FAIL" \in S THEN "FAIL"
  ELSE IF S \subseteq {"PASS"} THEN "PASS"
  ELSE "PARTIAL"

(* _test_case_status: D holds the statuses of a test case's documents.      *)
TestCaseStatus(D) ==
  IF D = {} THEN "PENDING"
  ELSE IF "FAIL" \in D THEN "FAIL"
  ELSE IF D \cap {"PARTIAL", "PENDING"} # {} THEN "PARTIAL"
  ELSE IF D = {"SKIPPED"} THEN "SKIPPED"
  ELSE "PASS"

(* _aggregate_status of a node of the flow graph: S holds the statuses of    *)
(* the steps it stands for.  Here SKIPPED next to PASS does pass.           *)
AggregateStatus(S) ==
  IF S = {} THEN "PENDING"
  ELSE IF "FAIL" \in S THEN "FAIL"
  ELSE IF S \cap {"PARTIAL", "PENDING"} # {} THEN "PARTIAL"
  ELSE IF S = {"SKIPPED"} THEN "SKIPPED"
  ELSE "PASS"

(* PipelineReport.overall_status: D holds the statuses of the documents.    *)
OverallStatus(D) ==
  IF D = {} THEN "PENDING"
  ELSE IF "FAIL" \in D THEN "FAIL"
  ELSE IF D \cap {"PARTIAL", "PENDING"} # {} THEN "PARTIAL"
  ELSE "PASS"

(* slack_report._scenario_status: S holds the statuses of all the steps of  *)
(* all the documents of a scenario.                                         *)
ScenarioStatus(S) ==
  IF S = {} THEN "unverified"
  ELSE IF "FAIL" \in S THEN "fail"
  ELSE IF S \subseteq {"PASS"} THEN "pass"
  ELSE "unverified"

(* slack_report._overall_status: B holds the buckets of the scenarios.      *)
SlackStatus(B, hasErrors) ==
  IF hasErrors \/ B = {} THEN "fail"
  ELSE IF "fail" \in B THEN "fail"
  ELSE IF "unverified" \in B THEN "unverified"
  ELSE "pass"
=============================================================================
