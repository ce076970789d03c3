----------------------------- MODULE Publication ------------------------------
(***************************************************************************)
(* What the readers of a session get: the flow graph of a document in the   *)
(* HTML page, the Slack message, its thread and the text of the push        *)
(* notification, as functions of the report that Session leaves behind.     *)
(* Each of them looks for the culprit in its own way.                       *)
(*                                                                         *)
(* A test case has one document, so a group of documents is a test.  A step *)
(* is named by its place in the document's trace; wording, colours and the  *)
(* truncation of texts are left out.                                        *)
(***************************************************************************)
EXTENDS Session, FiniteSets, SequencesExt

CONSTANT StageService  \* StageService[i]: the service of the i-th stage

ASSUME PublicationAssumption ==
  StageService \in [1 .. N -> {"File Ingestion Service", "OCR Service",
                               "Auto Extraction Service"}]

(* The trace of t: its upload rows, then its stage rows. *)
Steps(t) == uploads[t] \o rows[t]

Service(t, i) ==
  IF i > Len(uploads[t]) THEN StageService[i - Len(uploads[t])]
  ELSE IF t = "presigned" /\ i = 2 THEN "Azure Blob"
  ELSE "File Ingestion Service"
-----------------------------------------------------------------------------
(* The flow graph of the HTML page *)

(* _FLOW_STAGES: the nodes, each with the services it stands for. *)
FlowStagesRenamed ==
  <<{"File Ingestion Service", "UI / Drive"}, {"OCR Service"}, {"Extraction Service"}>>

FlowStages ==
  <<{"File Ingestion Service", "UI / Drive"},
    {"OCR Service"},
    {"Auto Extraction Service", "Extraction Service"}>>

(* _doc_flow_graph_html: the colour of each node. *)
FlowGraph(t) ==
  [k \in DOMAIN FlowStages |->
     AggregateStatus({Steps(t)[i] : i \in {j \in DOMAIN Steps(t) :
                                             Service(t, j) \in FlowStages[k]}})]

(* _doc_status_counts, _step_status_counts, _per_service_counts: the numbers *)
(* of the HTML header and of the stage bars.                                *)
DocCount(status) == Cardinality({t \in Documents : ComputeStatus(StatusesOf(t)) = status})

AllSteps == UNION {{<<t, i>> : i \in DOMAIN Steps(t)} : t \in Documents}

StepCount(status) == Cardinality({s \in AllSteps : Steps(s[1])[s[2]] = status})

Bar(service, status) ==
  Cardinality({s \in AllSteps : Steps(s[1])[s[2]] = status /\ Service(s[1], s[2]) = service})

(* _test_case_sections_html: the panel of a test case, opened. *)
Panel(t) ==
  [about |-> t, status |-> TestCaseStatus({ComputeStatus(StatusesOf(t))}), graph |-> FlowGraph(t)]

HtmlPage ==
  [overall |-> Html,
   counts |-> [status \in {"PASS", "PARTIAL", "FAIL"} |-> DocCount(status)],
   steps |-> Cardinality(AllSteps),
   passing |-> StepCount("PASS"),
   errors |-> errors,
   empty |-> documents = <<>> /\ errors = {},
   panels |-> [i \in DOMAIN documents |-> Panel(documents[i])]]
-----------------------------------------------------------------------------
(* slack_report.py *)

Light(t) == ScenarioStatus(StatusesOf(t))

Unverified == {"SKIPPED", "PENDING", "PARTIAL"}

(* _first_failing_stage, _first_unverified_stage; 0 is None. *)
FirstFailing(t) == SelectInSeq(Steps(t), LAMBDA st : st = "FAIL")

FirstUnverified(t) == SelectInSeq(Steps(t), LAMBDA st : st \in Unverified)

ScenarioCount(light) == Cardinality({t \in Documents : Light(t) = light})

Counts ==
  [passed |-> ScenarioCount("pass"), unverified |-> ScenarioCount("unverified"),
   failed |-> ScenarioCount("fail"), total |-> Cardinality(Documents)]

(* The scenarios of one light, in the order of the report: the k-th is the   *)
(* one at which, from the top, k of them have been met.                     *)
OfLight(light) == {i \in DOMAIN documents : Light(documents[i]) = light}

InLight(light) ==
  [k \in 1 .. Cardinality(OfLight(light)) |->
     documents[CHOOSE i \in OfLight(light) : Cardinality(OfLight(light) \cap 1 .. i) = k]]

OnlyIf(condition, block) == IF condition THEN <<block>> ELSE <<>>

Header == [kind |-> "header", light |-> Slack, counts |-> Counts]

FailingSection(t) == [kind |-> "fail", about |-> t, at |-> FirstFailing(t)]

UnverifiedSection(t) ==
  [kind |-> "unverified", about |-> t, at |-> FirstUnverified(t),
   ran |-> Cardinality({i \in DOMAIN Steps(t) : Steps(t)[i] = "PASS"})]

PassingSection == [kind |-> "pass", about |-> InLight("pass")]

ErrorsBlock == [kind |-> "errors", messages |-> errors]

FailingSections == [i \in DOMAIN InLight("fail") |-> FailingSection(InLight("fail")[i])]

UnverifiedSections ==
  [i \in DOMAIN InLight("unverified") |-> UnverifiedSection(InLight("unverified")[i])]

MainBlocksUnlessEmpty ==
  <<Header>>
    \o FailingSections \o UnverifiedSections
    \o OnlyIf(InLight("pass") # <<>>, PassingSection)
    \o OnlyIf(errors # {} /\ documents # <<>>, ErrorsBlock)

(* build_main_blocks, in the order it appends them. *)
MainBlocks ==
  <<Header>>
    \o FailingSections \o UnverifiedSections
    \o OnlyIf(InLight("pass") # <<>>, PassingSection)
    \o OnlyIf(errors # {}, ErrorsBlock)
    \o OnlyIf(documents = <<>> /\ errors = {}, [kind |-> "nothing recorded"])

(* _thread_scenario_section_text: the steps that get the marker.  A passing  *)
(* scenario is one line without steps.                                      *)
MarkerTarget(t) ==
  CASE Light(t) = "fail" -> {"FAIL"}
    [] Light(t) = "unverified" -> Unverified
    [] OTHER -> {}

MarkedEach(t) == {i \in DOMAIN Steps(t) : Steps(t)[i] \in MarkerTarget(t)}

Marked(t) ==
  {i \in DOMAIN Steps(t) :
     /\ Steps(t)[i] \in MarkerTarget(t)
     /\ \A j \in 1 .. i - 1 : Steps(t)[j] \notin MarkerTarget(t)}

ThreadSection(t) == [kind |-> Light(t), about |-> t, marked |-> Marked(t)]

(* build_thread_blocks: without a scenario it returns before the errors. *)
ThreadBlocks ==
  IF documents = <<>> THEN <<[kind |-> "nothing recorded"]>>
  ELSE [i \in DOMAIN documents |-> ThreadSection(documents[i])]
         \o OnlyIf(errors # {}, ErrorsBlock)

(* build_fallback_text: the first scenario of the worst light, if any. *)
FallbackText ==
  LET culprits == CASE Slack = "fail" -> FailingSections
                    [] Slack = "unverified" -> UnverifiedSections
                    [] OTHER -> <<>>
  IN [light |-> Slack, counts |-> Counts,
      about |-> IF culprits = <<>> THEN {} ELSE {<<culprits[1].about, culprits[1].at>>}]
-----------------------------------------------------------------------------
(* Properties *)

HasBlock(blocks, kind) == \E i \in DOMAIN blocks : blocks[i].kind = kind

Accuses(blocks, kind) == \E i \in DOMAIN blocks : blocks[i].kind = kind /\ blocks[i].at # 0

(* A light that is not green has its reason in the same message: a section   *)
(* that names a step, the recorded errors, or the notice that nothing was    *)
(* recorded.  So "3/3 passed" under a red light always comes with errors.    *)
(* The page gives its reasons too, counts as the message does, and shows a   *)
(* step pass rate of 100% exactly under a green header.                      *)
LightIsExplained ==
  saved => LET main == MainBlocks  page == HtmlPage IN
    /\ Slack = "fail" =>
         \/ Accuses(main, "fail")
         \/ HasBlock(main, "errors")
         \/ HasBlock(main, "nothing recorded")
    /\ Slack = "unverified" => Accuses(main, "unverified")
    /\ <<Counts.passed, Counts.unverified, Counts.failed>>
         = <<page.counts["PASS"], page.counts["PARTIAL"], page.counts["FAIL"]>>
    /\ Slack = "fail" =>
         page.errors # {} \/ page.empty \/ \E i \in DOMAIN page.panels : page.panels[i].status = "FAIL"
    /\ page.overall = "PASS" <=> page.steps > 0 /\ page.passing = page.steps

(* The message, the thread and the push text accuse the same step: a         *)
(* scenario that did not pass has one marker in the thread, at the step its  *)
(* section in the main message names; the push text names the first such     *)
(* section, and nobody only if errors alone made the light red.              *)
AccusationsAgree ==
  saved => LET main == MainBlocks  thread == ThreadBlocks  push == FallbackText IN
    /\ \A i \in DOMAIN main :
         main[i].kind \in {"fail", "unverified"} =>
           \E j \in DOMAIN thread :
             /\ thread[j].kind = main[i].kind
             /\ thread[j].about = main[i].about
             /\ thread[j].marked = {main[i].at}
    /\ \A j \in DOMAIN thread : thread[j].kind = "pass" => thread[j].marked = {}
    /\ push.about = {} => Slack = "pass" \/ ~HasBlock(main, "fail")
    /\ \A a \in push.about : main[2].about = a[1] /\ main[2].at = a[2]

(* How far the flow graph of a document can be trusted: it is green all      *)
(* over only if every row is PASS, and it lacks a red node for a FAIL row    *)
(* only if that row is the blob PUT, whose service no node stands for and    *)
(* only the stage bars show.                                                 *)
GraphIsExplained ==
  saved => \A i \in DOMAIN documents :
    LET panel == HtmlPage.panels[i] IN
    /\ (\A k \in DOMAIN panel.graph : panel.graph[k] = "PASS") => Light(panel.about) = "pass"
    /\ panel.status = "FAIL" =>
         \/ \E k \in DOMAIN panel.graph : panel.graph[k] = "FAIL"
         \/ /\ Service(panel.about, FirstFailing(panel.about)) = "Azure Blob"
            /\ Bar("Azure Blob", "FAIL") = 1
=============================================================================
