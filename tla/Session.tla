------------------------------- MODULE Session -------------------------------
(***************************************************************************)
(* One pytest session: the tests of tests/api with the pipeline walker, one *)
(* after the other, the fixtures of conftest.py they need, the report they  *)
(* share, and the rollups its teardown publishes.  The walker appears as    *)
(* what StageWalk promises of it.                                           *)
(*                                                                         *)
(* A test that pytest-timeout killed inside a coroutine leaves it behind:   *)
(* it goes on whenever a later test drives the event loop.                  *)
(***************************************************************************)
EXTENDS Rollup, Naturals, Sequences

CONSTANTS RunList,  \* the selected tests, in the order pytest runs them
          N         \* the number of pipeline stages

ASSUME SessionAssumption ==
  /\ RunList \in Seq({"bulk", "presigned", "ui"})
  /\ \A i, j \in DOMAIN RunList : RunList[i] = RunList[j] => i = j
  /\ N \in Nat \ {0}

Tests == {RunList[i] : i \in DOMAIN RunList}

VARIABLES
  listening,  \* is the event_listener fixture a listener, or None
  token,      \* the session's access_token fixture; the gateway may refuse it
  pc,         \* pc[t]: where the test's coroutine stands
  blob,       \* the bulk test's source blob in Azure Storage
  calls,      \* calls[t]: how many calls of its upload were answered
  server,     \* server[t]: what the ingestion service has of t's document
  documents,  \* report.documents, each named by its test
  uploads,    \* uploads[t]: the statuses of the upload rows of its trace
  rows,       \* rows[t]: the statuses of the stage rows, after those
  errors,     \* the tests during whose setup report.record_error was called
  verdict,    \* verdict[t]: what pytest says of the test
  saved       \* has the report's teardown finalized and written it

vars == <<listening, token, pc, blob, calls, server, documents, uploads, rows,
          errors, verdict, saved>>

progress == <<calls, server, documents, uploads>>

W == INSTANCE StageWalk WITH Walkers <- Tests

Init ==
  /\ W!Init
  /\ listening \in BOOLEAN
  /\ token = "unset"
  /\ pc = [t \in Tests |-> "waiting"]
  /\ blob = "none"
  /\ calls = [t \in Tests |-> 0]
  /\ server = [t \in Tests |-> "absent"]
  /\ documents = <<>>
  /\ uploads = [t \in Tests |-> <<>>]
  /\ errors = {}
  /\ saved = FALSE

(* pytest is running t: it has begun and has no verdict. *)
Current(t) == pc[t] # "waiting" /\ verdict[t] = "none"

(* The coroutine of t may take a step: its own test, a later one or the     *)
(* teardown of an async fixture drives the event loop.                      *)
Runs(t) == ~saved /\ (Current(t) \/ verdict[t] = "killed")

Goto(t, l) == pc' = [pc EXCEPT ![t] = l]

(* The test's coroutine ends with v: an exception, pytest.fail, pytest.skip *)
(* or a plain return.                                                       *)
End(t, v) == Goto(t, "over") /\ W!Decide(t, v)

RecordError(t) == errors' = errors \cup {t}
-----------------------------------------------------------------------------
(* Fixtures *)

(* pytest turns to the next test, once the one before is torn down. *)
UpNext(t) ==
  /\ ~saved
  /\ pc[t] = "waiting"
  /\ \A i, j \in DOMAIN RunList :
       i < j /\ RunList[j] = t => verdict[RunList[i]] # "none"
  /\ blob # "lent"

(* is_token_expired: only a JWT whose exp is (almost) past counts, so an     *)
(* opaque E2E_TOKEN is kept whatever the gateway thinks of it.              *)
IsTokenExpired(override) == override = "past"

(* _extract_token_from_http_response: a token in the JSON body or a header, *)
(* and else a one-line body as it stands, be it an error in compact JSON.   *)
ExtractToken(answer) == IF answer = "other line" THEN "refused" ELSE "ok"

AccessToken(override) ==
  CASE override = "unset" \/ IsTokenExpired(override) ->
         {ExtractToken(answer) : answer \in {"json", "header", "token line", "other line"}}
    [] override = "opaque" -> {"ok", "refused"}
    [] OTHER -> {"ok"}

(* The session's access_token, made for the first test and then cached.     *)
Begin(t) ==
  /\ UpNext(t)
  /\ token # "failed"
  /\ IF token = "unset"
     THEN \E override \in {"unset", "past", "future", "opaque"} :
            token' \in AccessToken(override)
     ELSE UNCHANGED token
  /\ Goto(t, "setup")
  /\ UNCHANGED <<listening, blob, progress, rows, errors, verdict, saved>>

(* Time passes (external): nobody asks again how long the token is good for. *)
(* It matters only while some test has calls to make with it.               *)
TokenExpires ==
  /\ \E t \in Tests \ {"ui"} : pc[t] = "uploading" /\ Runs(t)
  /\ token = "ok"
  /\ token' = "refused"
  /\ UNCHANGED <<listening, pc, blob, progress, rows, errors, verdict, saved>>

(* A failed fetch is recorded once; its pytest.fail is raised for each test. *)
BeginUnauthorised(t) ==
  /\ UpNext(t)
  /\ token \in {"unset", "failed"}
  /\ token' = "failed"
  /\ errors' = IF token = "unset" THEN errors \cup {t} ELSE errors
  /\ End(t, "failed")
  /\ UNCHANGED <<listening, blob, progress, rows, saved>>

(* The test body starts, unless its setup was killed meanwhile. *)
SetUp(t) == Goto(t, IF verdict[t] = "none" THEN "uploading" ELSE "over")

(* gateway_doc_client alone; or no storage secret, and a pre-staged URL. *)
PlainSetup(t) ==
  /\ pc[t] = "setup"
  /\ Runs(t)
  /\ t \in {"bulk", "presigned"}
  /\ SetUp(t)
  /\ UNCHANGED <<listening, token, blob, progress, rows, errors, verdict, saved>>

(* bulk_upload_source_url: upload_blob, then generate_blob_sas, then yield. *)
StoreSource(t) ==
  /\ pc[t] = "setup"
  /\ Runs(t)
  /\ t = "bulk"
  /\ blob' = "stored"
  /\ Goto(t, "minting")
  /\ UNCHANGED <<listening, token, progress, rows, errors, verdict, saved>>

MintSas(t) ==
  /\ pc[t] = "minting"
  /\ Runs(t)
  /\ blob' = "lent"
  /\ SetUp(t)
  /\ UNCHANGED <<listening, token, progress, rows, errors, verdict, saved>>

SilentSourceFails(t) ==
  /\ pc[t] \in {"setup", "minting"}
  /\ Runs(t)
  /\ t = "bulk"
  /\ blob' \in {blob, "stored"}
  /\ End(t, "failed")
  /\ UNCHANGED <<listening, token, progress, rows, errors, saved>>

(* Either step raises SourceUploadError: recorded, and raised again.  An    *)
(* upload whose answer was lost has stored the blob all the same.           *)
SourceFails(t) ==
  /\ pc[t] \in {"setup", "minting"}
  /\ Runs(t)
  /\ t = "bulk"
  /\ blob' \in {blob, "stored"}
  /\ RecordError(t)
  /\ End(t, "failed")
  /\ UNCHANGED <<listening, token, progress, rows, saved>>

(* contract_drive_client: the Analytics login. *)
LogIn(t) ==
  /\ pc[t] = "setup"
  /\ Runs(t)
  /\ t = "ui"
  /\ SetUp(t)
  /\ UNCHANGED <<listening, token, blob, progress, rows, errors, verdict, saved>>

LogInFails(t) ==
  /\ pc[t] = "setup"
  /\ Runs(t)
  /\ t = "ui"
  /\ RecordError(t)
  /\ End(t, "skipped")
  /\ UNCHANGED <<listening, token, blob, progress, rows, saved>>

(* The login's own exceptions are AuthErrors, but those of httpx are not:   *)
(* the fixture lets them through.                                           *)
LogInBreaks(t) ==
  /\ pc[t] = "setup"
  /\ Runs(t)
  /\ t = "ui"
  /\ End(t, "failed")
  /\ UNCHANGED <<listening, token, blob, progress, rows, errors, saved>>

(* The fixture's finally clause: delete_blob logs its own failure. *)
DeleteSource ==
  /\ blob = "lent"
  /\ verdict["bulk"] # "none"
  /\ blob' \in {"deleted", "missed"}
  /\ UNCHANGED <<listening, token, pc, progress, rows, errors, verdict, saved>>
-----------------------------------------------------------------------------
(* The test bodies *)

(* The calls of t's upload, each named by the state it leaves the ingestion  *)
(* service in: one bulk-upload; or initiate, PUT and confirm, by the gateway *)
(* or by the UI's contract-drive client.  The PUT goes to Azure Blob, and    *)
(* only the confirmation tells the service of it.                           *)
LegsSwapped(t) ==
  IF t = "bulk" THEN <<"triggered">> ELSE <<"reserved", "triggered", "triggered">>

Legs(t) == IF t = "bulk" THEN <<"triggered">> ELSE <<"reserved", "reserved", "triggered">>

Leg(t) == Legs(t)[calls[t] + 1]

Served(t) == server' = [server EXCEPT ![t] = Leg(t)]

(* The gateway's calls carry the token; the PUT does not, and the UI client  *)
(* has a cookie of its own.                                                 *)
Authorised(t) == t = "ui" \/ calls[t] = 1 \/ token = "ok"

Calling(t) == pc[t] = "uploading" /\ Runs(t)

Counted(t) == calls' = [calls EXCEPT ![t] = @ + 1]

(* The service did what it was asked, and its answer has all the test asks   *)
(* of it.                                                                   *)
Answered(t) == Calling(t) /\ Authorised(t) /\ Served(t) /\ Counted(t)

(* An answer below 400 that the service did not give, such as a redirect to  *)
(* a login page: the clients raise from 400 on, and httpx follows none.  The *)
(* first call escapes this, for the test needs the ufid in its body and, of  *)
(* a bulk upload, a 202; the later legs are asked for nothing else.          *)
Deflected(t) == Calling(t) /\ calls[t] > 0 /\ UNCHANGED server /\ Counted(t)

Accepted(t) == Answered(t) \/ Deflected(t)

(* An error status, or a connection that breaks: the service may have done   *)
(* its part all the same.                                                   *)
Rejected(t) == UNCHANGED server \/ (Authorised(t) /\ Served(t))

(* A good status, but no ufid or URL in the body (or, of a bulk upload, not  *)
(* a 202): an assertion, or a guard of the UI client.                        *)
Unusable(t) == calls[t] = 0 /\ Authorised(t) /\ Served(t)

Raised(t) == Calling(t) /\ (Rejected(t) \/ Unusable(t)) /\ UNCHANGED calls

Uploaded(t, st) == uploads' = [uploads EXCEPT ![t] = Append(@, st)]

(* All calls answered, the test goes on to run_pipeline_stages. *)
NextLeg(t) == Goto(t, IF calls'[t] = Len(Legs(t)) THEN "walking" ELSE "uploading")

Traced(t) == \E i \in DOMAIN documents : documents[i] = t

(* The gateway's first call brings the ufid: add_document, and the first row. *)
FirstLegDone(t) ==
  /\ Answered(t)
  /\ t # "ui"
  /\ ~Traced(t)
  /\ documents' = Append(documents, t)
  /\ Uploaded(t, "PASS")
  /\ NextLeg(t)
  /\ UNCHANGED <<listening, token, blob, rows, errors, verdict, saved>>

LegDone(t) ==
  /\ Accepted(t)
  /\ Traced(t)
  /\ Uploaded(t, "PASS")
  /\ NextLeg(t)
  /\ UNCHANGED <<listening, token, blob, documents, rows, errors, verdict, saved>>

(* The UI client makes its three calls in one method: the test adds the      *)
(* document, and a single row, when the last of them is answered.           *)
DriveLegDone(t) ==
  /\ Accepted(t)
  /\ t = "ui"
  /\ NextLeg(t)
  /\ IF calls'[t] = Len(Legs(t))
     THEN documents' = Append(documents, t) /\ Uploaded(t, "PASS")
     ELSE UNCHANGED <<documents, uploads>>
  /\ UNCHANGED <<listening, token, blob, rows, errors, verdict, saved>>

(* A call raises before add_document, outside any try block: no trace. *)
FirstLegFailsQuietly(t) ==
  /\ Raised(t)
  /\ ~Traced(t)
  /\ End(t, "skipped")
  /\ UNCHANGED <<listening, token, blob, documents, uploads, rows, errors, saved>>

FirstLegFails(t) ==
  /\ Raised(t)
  /\ ~Traced(t)
  /\ End(t, "failed")
  /\ UNCHANGED <<listening, token, blob, documents, uploads, rows, errors, saved>>

(* A later leg raises: a FAIL row, skip_all_stages, and raised again. *)
LegFailsUnrecorded(t) ==
  /\ Raised(t)
  /\ Traced(t)
  /\ End(t, "failed")
  /\ UNCHANGED <<listening, token, blob, documents, uploads, rows, errors, saved>>

LegFailsAndWalks(t) ==
  /\ Raised(t)
  /\ Traced(t)
  /\ Uploaded(t, "FAIL")
  /\ Goto(t, "walking")
  /\ UNCHANGED <<listening, token, blob, documents, rows, errors, verdict, saved>>

LegFails(t) ==
  /\ Raised(t)
  /\ Traced(t)
  /\ Uploaded(t, "FAIL")
  /\ W!Write(t, W!Times("SKIPPED", N))
  /\ End(t, "failed")
  /\ UNCHANGED <<listening, token, blob, documents, errors, saved>>

(* Stage events come of a pipeline that was started, and wait_for_action     *)
(* takes those of its own document only.                                    *)
AnybodysEvents(t) == \E u \in Tests : server[u] = "triggered"

StageEvents(t) == server[t] = "triggered"

(* run_pipeline_stages: a stage gets its row, or the walk ends. *)
WalkOn(t) ==
  /\ pc[t] = "walking"
  /\ Runs(t)
  /\ listening
  /\ StageEvents(t)
  /\ W!Pass(t) \/ W!Fail(t)
  /\ UNCHANGED <<listening, token, pc, blob, progress, errors, saved>>

WalkEnds(t) ==
  /\ pc[t] = "walking"
  /\ Runs(t)
  /\ \/ listening /\ (W!ForceKill(t) \/ W!Finish(t))
     \/ ~listening /\ W!SkipAll(t)
  /\ Goto(t, "over")
  /\ UNCHANGED <<listening, token, blob, progress, errors, saved>>

(* pytest-timeout (external).  The source fixture is plain blocking code    *)
(* and ends with it; a coroutine stays behind.  Without a listener the walk *)
(* has no await for it to interrupt.                                        *)
TimeoutKill(t) ==
  /\ Current(t)
  /\ pc[t] = "walking" => listening
  /\ W!Kill(t)
  /\ IF t = "bulk" /\ pc[t] \in {"setup", "minting"} THEN Goto(t, "over") ELSE UNCHANGED pc
  /\ UNCHANGED <<listening, token, blob, progress, errors, saved>>
-----------------------------------------------------------------------------
(* pipeline_report's teardown: finalize, then the HTML and Slack payloads.  *)
SaveUnlessFailed ==
  /\ ~saved
  /\ \A t \in Tests : verdict[t] \in {"passed", "skipped"}
  /\ blob # "lent"
  /\ saved' = TRUE
  /\ UNCHANGED <<listening, token, pc, blob, progress, rows, errors, verdict>>

Save ==
  /\ ~saved
  /\ \A t \in Tests : verdict[t] # "none"
  /\ blob # "lent"
  /\ saved' = TRUE
  /\ UNCHANGED <<listening, token, pc, blob, progress, rows, errors, verdict>>

Work(t) ==
  \/ Begin(t) \/ BeginUnauthorised(t)
  \/ PlainSetup(t) \/ StoreSource(t) \/ MintSas(t) \/ SourceFails(t)
  \/ LogIn(t) \/ LogInFails(t) \/ LogInBreaks(t)
  \/ FirstLegDone(t) \/ FirstLegFails(t) \/ LegDone(t) \/ LegFails(t)
  \/ DriveLegDone(t)
  \/ WalkOn(t) \/ WalkEnds(t)

Next == TokenExpires \/ DeleteSource \/ Save \/ \E t \in Tests : Work(t) \/ TimeoutKill(t)

Spec == Init /\ [][Next]_vars

(* Every await of a test ends by itself: HTTP calls and waits have timeouts  *)
(* (PipelineRunner!TestEnds is the walker's part).  pytest-timeout need not  *)
(* fire.                                                                     *)
FairSpec ==
  /\ Spec
  /\ WF_vars(DeleteSource) /\ WF_vars(Save)
  /\ \A t \in Tests : WF_vars(Work(t))
-----------------------------------------------------------------------------
(* Properties *)

(* Every variable stays within its type. *)
SessionTypeOK ==
  /\ listening \in BOOLEAN
  /\ token \in {"unset", "ok", "refused", "failed"}
  /\ pc \in [Tests -> {"waiting", "setup", "minting", "uploading", "walking", "over"}]
  /\ blob \in {"none", "stored", "lent", "deleted", "missed"}
  /\ calls \in [Tests -> 0 .. 3]
  /\ server \in [Tests -> {"absent", "reserved", "triggered"}]
  /\ documents \in Seq(Tests)
  /\ uploads \in [Tests -> Seq({"PASS", "FAIL"})]
  /\ rows \in [Tests -> Seq({"PASS", "FAIL", "SKIPPED"})]
  /\ \A t \in Tests : Len(uploads[t]) <= Len(Legs(t)) /\ Len(rows[t]) <= N
  /\ errors \subseteq Tests
  /\ verdict \in [Tests -> W!Verdicts]
  /\ saved \in BOOLEAN

(* What the teardown publishes: the statuses of a document's steps, the     *)
(* status in the HTML header and the one in the Slack message.              *)
StatusesOf(t) ==
  {uploads[t][i] : i \in DOMAIN uploads[t]} \cup {rows[t][i] : i \in DOMAIN rows[t]}

Documents == {documents[i] : i \in DOMAIN documents}

Html == OverallStatus({ComputeStatus(StatusesOf(t)) : t \in Documents})

Slack == SlackStatus({ScenarioStatus(StatusesOf(t)) : t \in Documents}, errors # {})

(* The published rollups agree: Slack is green exactly when the HTML header *)
(* is and no error was recorded, an HTML FAIL is never less in Slack, and   *)
(* each test case has the same light in both.  (The HTML header itself      *)
(* leaves report.errors out.)                                               *)
RollupsAgree ==
  saved =>
    /\ Slack = "pass" <=> Html = "PASS" /\ errors = {}
    /\ Html = "FAIL" => Slack = "fail"
    /\ \A t \in Documents :
         LET section == TestCaseStatus({ComputeStatus(StatusesOf(t))})
             scenario == ScenarioStatus(StatusesOf(t))
         IN /\ section = "PASS" <=> scenario = "pass"
            /\ section = "FAIL" <=> scenario = "fail"

(* A red row is never published over a green test: a test with a FAIL row   *)
(* has failed or was killed, whatever part of the trace the row came from.  *)
RedRowMeansRedTest ==
  saved => \A t \in Tests :
             "FAIL" \in StatusesOf(t) => verdict[t] \in {"failed", "killed"}

(* How far a green Slack message can be trusted: behind it, every test      *)
(* passed, except one that pytest-timeout killed, one that failed before it *)
(* had a document, or one whose FAILED event came with all its rows PASS.   *)
GreenIsExplained ==
  saved /\ Slack = "pass" =>
    \A t \in Tests :
      \/ verdict[t] \in {"passed", "killed"}
      \/ verdict[t] = "failed" /\ t \notin Documents
      \/ verdict[t] = "failed" /\ rows[t] = W!Times("PASS", N)

(* A source blob is never left behind in silence: if the session ends and   *)
(* nobody tried to delete it, its upload is on record as failed, or the     *)
(* test was killed in the middle of it.                                     *)
OrphanIsReported ==
  saved /\ blob = "stored" => "bulk" \in errors \/ verdict["bulk"] = "killed"

(* What comes of a pipeline that nobody started, although every call of the  *)
(* upload was accepted: no stage is ever PASS, however many other pipelines  *)
(* of the session are running; the walk ends with a verdict against its      *)
(* first stage, or without a listener with none; and it is not the bulk      *)
(* test, which pins its one answer to a 202.                                *)
UnstartedIsNeverGreen ==
  \A t \in Tests :
    calls[t] = Len(Legs(t)) /\ server[t] # "triggered" =>
      /\ t # "bulk"
      /\ pc[t] = "walking" => rows[t] = <<>>
      /\ pc[t] = "over" =>
           IF listening
           THEN /\ rows[t] = <<"FAIL">> \o W!Times("SKIPPED", N - 1)
                /\ verdict[t] \in {"failed", "killed"}
           ELSE /\ rows[t] = W!Times("SKIPPED", N)
                /\ verdict[t] \in {"skipped", "killed"}

(* A document blames one part: after a failed upload call every stage is     *)
(* SKIPPED, and a stage with a verdict has only PASS rows before it.         *)
OneCause ==
  \A t \in Tests :
    (\E i \in DOMAIN uploads[t] : uploads[t][i] = "FAIL") =>
      /\ rows[t] = W!Times("SKIPPED", N)
      /\ \A i \in DOMAIN uploads[t] : uploads[t][i] = "FAIL" => i = Len(uploads[t])

(* How a pipeline that runs can be published as SKIPPED: there was no        *)
(* listener, a stage before it failed, or the answer to the call that        *)
(* started it was lost (the report then says "pipeline never triggered").    *)
SkippedIsExplained ==
  \A t \in Tests :
    server[t] = "triggered" /\ W!Has(t, "SKIPPED") =>
      \/ ~listening
      \/ W!Has(t, "FAIL")
      \/ uploads[t] = W!Times("PASS", 2) \o <<"FAIL">>

(* No document is created in secret: what the service has and the report     *)
(* does not belongs to a test that visibly did not pass.                     *)
NothingInSecret ==
  saved => \A t \in Tests :
             server[t] # "absent" /\ ~Traced(t) => verdict[t] \in {"failed", "killed"}

(* The report is always saved, whichever fixtures and tests fail, and       *)
(* although nothing obliges pytest-timeout to help.                         *)
ReportIsSaved == <>saved

(* README.md on the presigned test: a failure at initiate, PUT or           *)
(* file-uploaded is surfaced by a report row of its own.  The initiate call *)
(* comes before add_document and is in no try block.                        *)
UploadFailureIsSurfaced ==
  saved /\ errors = {} /\ verdict["presigned"] = "failed"
        /\ uploads["presigned"] # W!Times("PASS", 3)
  => "FAIL" \in StatusesOf("presigned")

(* The UI test and its client: each step raises on a non-2xx, so that the    *)
(* walk is reached only when every leg was accepted, and ingestion begins    *)
(* (confirm_upload).  The clients raise from 400 on.                         *)
WalksStartedPipelines ==
  \A t \in Tests : pc[t] = "walking" => server[t] = "triggered"

(* README.md on the source blob: it is removed in the fixture's finally     *)
(* clause regardless of the test's outcome.  The clause only covers what    *)
(* comes after upload_contract_pdf has returned.                            *)
SourceBlobIsRemoved == saved => blob # "stored"
=============================================================================
