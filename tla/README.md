# A verification project for nebula-e2e-tests

The repository is a pytest suite that uploads documents to a document pipeline
(upload, OCR, extraction) and verifies, from the CloudEvents the pipeline
publishes on Azure Event Hub, that each stage ran. What is hard in it is not the
HTTP traffic but what happens around it: several receive tasks feed one buffer on
one asyncio loop, tests wait on that buffer with deadlines, a walker turns what
it sees into report rows and a pytest verdict, pytest-timeout may end a test at
any await, and a session teardown turns rows and errors into the lights that
people look at. The modules here model that part.

## Inventory

| Component | State | Operations | Modelled in |
|---|---|---|---|
| Event Hub listener (`lib/event_hub.py`) | receive tasks, watched ufids, captured events, one `asyncio.Event` | `start`, `watch`, `on_event`, three waits, `__aexit__`, `find_duplicates`, `has_event` | `EventHub`, promise: `EventFeed` |
| Pipeline walker (`lib/pipeline_runner.py`) | where it stands, `aborted` | `run_pipeline_stages`, `skip_all_stages`, `attach_events_to_last_step` | `PipelineRunner`, promise: `StageWalk` |
| Report (`lib/report.py`) | documents, steps, errors | `add_document`, `record_step`, `record_error`, `finalize`, rollups, HTML page | `Session`, `Rollup`, `Publication` |
| Slack report (`lib/slack_report.py`) | none | main message, thread, push text | `Rollup`, `Publication` |
| Fixtures (`conftest.py`), authentication (`lib/auth.py`) | token, listener or None, source blob | setup and teardown of each, token expiry | `Session` |
| Source blob (`lib/source_upload.py`) | one blob | upload, SAS mint, delete | `Session` |
| Active tests (`tests/api/test_{bulk,presigned,ui_file}_upload.py`) | upload calls | bodies | `Session` |
| Gateway and contract-drive clients (`lib/api_clients`) | none | the calls of an upload, each served, deflected, refused, lost or unusable | `Session` |
| File-ingestion service, as its clients use it | documents, newest first, and their processing states | create, confirm, list a page, delete, progress | `Ingestion` (external) |
| Disabled multi-file test, `lib/polling.py` | two task groups, `poll_until` loops | upload, poll, rows, artifacts | `MultiPresigned` |
| `cleanup.py` | page counter | list, delete | `Cleanup` |
| Doc-reader client | page counter, deadline | `wait_for_ufid_by_name` | `DocReader` |
| Disabled single-file test, smoke tests, config, fixtures loader, PDF generator, CI and k8s jobs | none that interacts | | no (see "Not modelled") |

How they interact. A test uploads a document over HTTP, registers it in the
report and calls the walker. The walker calls `watch` and then one wait per
stage; the receive tasks run whenever the test is at an `await`. Rows go to the
report; the verdict goes to pytest as a return, `pytest.fail` or `pytest.skip`.
All async tests and fixtures share one session-scoped loop (`pyproject.toml`).
The report is a session fixture, and its teardown computes the rollups and writes
the HTML page and the Slack payloads. The multi-file test, the cleanup job and the
doc-reader client meet only at the service: each reads a list of documents that
the others, the pipeline and other users change meanwhile.

What makes each part correct:

* listener: no lost wakeup, no lost or invented event, a deadline never beats an
  event that is already there, every wait ends;
* walker: one row per stage in every outcome, rows whose stated cause is real, no
  green over a FAILED event, a verdict that no abandoned coroutine changes;
* report and session: the published lights agree with each other and with
  pytest, every light that is not green names its reason, no two parts of the
  report blame different steps, what the rows say of the service is so or wrong in
  a stated way (a PASS row of an upload call may stand for an answer the service
  never gave, and SKIPPED rows for a pipeline that runs), every loan (the blob) is
  returned or its loss is on record, and the report is always written;
* clients of the service: a PASS row has an observation behind it or a stated
  reason why not, a deadline never beats an answer that would have been good, a
  page walk misses nothing for a reason the code does not know of, and all loops
  end whatever the others do.

## Modules

| Module | What it is |
|---|---|
| `EventFeed` | abstract: a feed that only grows and calls that are answered with the first match or given up while there is none |
| `EventHub` | the listener; `Feed` is the refinement mapping to `EventFeed` |
| `EventHubProofs`, `EventFeedProofs` | proofs about `EventHub`: waits and buffer, refinement of `EventFeed` |
| `StageWalk` | abstract: the rows and verdict the walker leaves for a document |
| `PipelineRunner` | extends `EventHub` with the walker and pytest; `Contract` is the mapping to `StageWalk` |
| `PipelineRunnerProofs`, `StageWalkProofs` | proofs about `PipelineRunner`: its properties, refinement of `StageWalk`, and that the walker leaves `EventFeed` intact |
| `Rollup` | the status rules, as functions of sets of statuses |
| `Session` | a pytest session: fixtures, token, test bodies, calls, report; instantiates `StageWalk` for the walker |
| `Publication` | extends `Session` with what the teardown publishes: HTML page, Slack message, thread, push text |
| `Ingestion` | the file-ingestion service as its clients use it |
| `Cleanup`, `DocReader`, `MultiPresigned` | one client each, on `Ingestion` |
| `Tenant` | the three clients, the pipeline and other users on one tenant |
| `SessionProofs`, `PublicationProofs`, `TenantProofs` | proofs about `Session`, `Publication` and `Tenant` |
| `Counting` | facts about sets of numbers that the proofs cite: the least of them, the k-th of them |
| `MCEventHub`, `MCPipelineRunner`, `MCSession`, `MCTenant` | constants for TLC |

Definitions like `BufferedOnce` or `FinishUnchecked` that no action uses are
mutants: a plausible bug in the definition that follows them. Each checked
property is broken by at least one of them (`PROJECT.json`, "mutants").

### EventHub

An action is what the code does between two awaits. `log[p]` is the stream of one
hub/partition pair from the listener's starting position on, `read[p]` how much
of it the SDK has delivered. A call is in `call[d]`: "warming" in the sleep of
`start`, "suspended" at `wait_for(self._new_event.wait(), min(remaining, 2.0))`
with the time left to its deadline, the time left to the poll, and whether the
Event resolved the wait. `LoopBody` is the body of `while True`: scan, then
deadline, then clear and suspend, without an await in between, so one action.
`Woken` is `Event.set`: it makes every coroutine that is inside `wait()` runnable,
and a later `clear` does not take that back. `OnWatchedEvent` and `OnOtherEvent`
are the two ways through `on_event`; an event is a document, a type and an
action, with `NoDoc` for one that names no document. `ReceiveError` ends a
partition's task for good, `Redeliver` is the SDK going back in its log after a
reconnect (there is no checkpoint store). `since[d]` is a history variable: where
the partitions stood when d was watched.

A cold `watch` is two actions (`WatchCold`, `WarmupOver`), since `start` sleeps
between; only one test runs at a time, so no second call of `start` falls into
the warm-up. A listener that is closed takes no calls (`Open`).

### PipelineRunner

`walk[d]` is the program counter of the test's coroutine, `outcome[d]` pytest's
verdict. Every row carries, besides its status, the branch that wrote it (`why`).
The walker holds the event loop between two awaits (`Holds`); other callbacks run
only when the loop is free and some test drives it (`LoopFree`). A test that
pytest-timeout kills (`TimeoutKill`) leaves its coroutine pending on the shared
loop: the exception is raised out of the loop, not into the coroutine, so the
next test that runs the loop lets it go on. (A signal that lands in the few
microseconds of Python between two awaits would end the coroutine instead; a
walk that stops for ever is one of the behaviours of the model anyway.) The
walker's `except Exception` can only catch the wait's `EventTimeoutError`, the
one exception the wait raises.

### Session

The three active tests in the order of collection, or one alone. For the walker,
`Session` uses `StageWalk`, which `PipelineRunner` is checked to implement. The
listener fixture is a listener or None for the whole session. Session-scoped
fixtures are set up before the function-scoped ones, so the token comes before
the Analytics login. `uploads[t]` and `rows[t]` together are the steps of a trace.
The token fetch has HTTP timeouts far below pytest's, so it is one action.

*Token.* `token` is what the gateway would say of it, not its text. `E2E_TOKEN` is
used unless it is a JWT that is over (or nearly: the leeway of a minute); any
other text is used as it is. A fetched token comes from JSON, a header, or a
one-line body: a compact JSON error is one line, so it becomes a token that
every call refuses (`ExtractToken`). `TokenExpires` happens at any call, since
nothing looks at the token again; a failed fetch is recorded once and its
`pytest.fail` is raised again for each test.

*Calls.* `calls[t]` is how far the test has come, `server[t]` how far the service
has: "absent", "reserved" (it has given out a ufid) or "triggered" (it was told
that the bytes are there, and its pipeline runs). The two differ: a call may be
refused, or served with its answer lost (`Rejected`), or answered without the ufid
(`Unusable`). Or it is accepted without being served: the clients raise from status
400 on and httpx follows no redirect, so any answer below 400 that is no 2xx counts
as a success (`Deflected`). The first call escapes this, as the test needs the ufid
in its body and the bulk test pins the status to 202; the PUT and the confirmation
do not, since nothing of their answers is read but for display. A deflected
confirmation leaves a PASS row and a walk that waits for a pipeline nobody started
(`Session_deflected`). Stage events come of a started pipeline only (`StageEvents`),
so such a walk can only be force-killed, killed or, without a listener, skipped:
`UnstartedIsNeverGreen`, which also says that the bulk test cannot get there.

The gateway tests record a
row for each call (`FirstLegDone`, `LegDone`, `LegFails`); the UI client makes its
three calls in one method and the test records one row or none (`DriveLegDone`).

### Publication

Functions of the report, evaluated once it is saved. The page: header status,
counts of documents and steps, bars by service, a panel and a flow graph for each
document. Slack: the blocks of `build_main_blocks` in the order they are appended,
the thread with the marker on one step of each scenario, the push text. Each
names the culprit by a search of its own; `AccusationsAgree` says they find the
same one. A section is a record of what it is about, its text is left out.

Two things a reader of the report should know, which the properties state. The
flow graph has no node for the service "Azure Blob", so a failed PUT is red in the
header and the bars only (`GraphIsExplained`). When nothing was registered, the
thread says so and returns before the errors; the main message has them
(`LightIsExplained` is therefore about the main message).

### Ingestion, its clients and Tenant

`list` is what a listing would return were it one page, newest first; `state[d]` a
document's `processingState`. A step of a client is one request with its answer,
or, where the code suspends between the service's answer and its use, two (`Look`
and `Judge` in `poll_until`). A client's locals are forgotten when its coroutine or
process ends.

* `MultiPresigned`: a task group raises when all its tasks are over, and a task
  that raises has its siblings cancelled (`Cancelled`), in either group. An upload is
  three requests (`Initiated`, `PutToSas`, `Confirmed`), of which the second does not
  reach the service; this client's `raise_for_status` raises for a redirect too, so
  none of its own calls can be deflected, and what a deflected PUT leaves in blob
  storage is not part of the model. All polls
  start together with the same timeout, so there is one clock (`late`); a sleep
  ends at any time but never after the deadline. `PollsEnd` is `except*`: timeouts
  are taken out, anything else is raised on and no row is written.
  `UnseenPassIsExplained` says when a PASS row stands for a document nobody saw at
  the target: one sibling's poll timed out, and the cancelled ones are recorded
  PASS. Since the code then looks at artifacts, not at the failed ones, such a
  test can even pass, over a report with a FAIL row; the second half of the
  property is what a pass is still worth.
* `Cleanup`: always asks for the first page; the deletions of a page are a set
  (`todo`), since nothing tells their order apart. A page of other names ends it, so it
  deletes everything it can reach only while the names it looks for come first.
  The prefix it looks for is `e2e-`; the active tests name theirs
  `nebulae2etest-<run id>-...`, so the job does not touch them (`E2e` is a parameter).
* `DocReader`: a document that comes in at the front while the list is read shifts
  the others back, and may make the walk see one twice but not miss one; a deletion
  shifts them forward and may. `MissIsExplained` says that nothing else does.

## Runs

| Run | Expect | What it shows |
|---|---|---|
| `EventHub_safety` | pass | two documents on one partition, three log entries, one redelivery, breaking link: the six safety invariants and the timeout property |
| `EventHub_liveness` | pass | two partitions, one document, all kinds of key, default and explicit timeouts, one event without document: waits end, events of live partitions are captured, `EventFeed` is implemented |
| `EventHub_lookback` | violation | the lookback does not replay to a document watched later |
| `PipelineRunner_walk` | pass | one document, three stages, two partitions, a FAILED event at any moment, a pytest budget of two ticks |
| `PipelineRunner_session` | pass | two documents, two stages, the first test possibly killed: abandoned coroutines, `StageWalk` implemented |
| `PipelineRunner_kill` | violation | pytest's timeout, as long as a stage's, leaves the FAIL and SKIPPED rows out |
| `PipelineRunner_red` | violation | a red test over a report of PASS rows |
| `Session_report` | pass | three tests, every fixture and call failing, lost, deflected or killed, a token that goes stale: rollups, what comes of a pipeline nobody started, trust in green, causes, page and Slack, blob, report |
| `Session_upload` | violation | a failed initiate call is in no row, document or error |
| `Session_orphan` | violation | a source blob that nothing deletes |
| `Session_deflected` | violation | a deflected confirmation passes for a success, and the UI test walks for a pipeline nobody started |
| `Tenant_clients` | pass | two of the three clients at once on five documents: what each misses or leaves behind has a stated reason, and all end |

The six violations are disagreements between the code and what its comments or
the repository's README say of it; "findings" in `PROJECT.json` quote both sides.
None of them contradicts a property that holds: for instance `GreenIsExplained`
lists exactly the ways in which a green Slack message can hide a test that did
not pass, and two of them are `PipelineRunner_red` and `Session_upload`.

Bounds. Log lengths (`LogBound`), redeliveries (`ReplayBound`) and the budgets (in
ticks) are the only counters, each guarded by a named constant. A tick is the
granularity of timers: a poll of one tick (`PollCap`) under a wait of one or two
covers a poll that ends before, with and after the deadline's last tick. Two
documents are enough for one waiter to clear the latch under another and for one
document's events to be filtered against the other's watch; two partitions for
reordering and for one partition to die while the other goes on; three log entries
for a redelivery between two others. Three stages give the walker a first, a middle
and a last one, and each stage event plus FAILED fits in the two partitions' logs;
`Session` needs only N = 2, as its properties look at whether rows are missing, not
at which, and two stage services (`TwoServices`) are all the flow graph tells apart.
`Tenant_clients` starts at most two clients in a behaviour (`MaxClients`), as every
property relates one client to what happens around it, and another client is only
one more source of the same three changes (a document comes, goes, moves on). Two
files are enough for one poll to end its sibling; two pages of two for cleanup and
four of one for the reader, with two to five documents, give full, partly full and
empty pages, a walk that turns pages and one that uses up its limit.
`MissIsExplained` excuses a miss on the last page the limit allows, so the reader
needs pages before it: with four, a walk whose document was behind turns from page 1
to page 2 after an upload at the front shifted the list, short of its limit; one of
the files has the name the cleanup job looks for, so that documents are deleted
under the test. The pipeline takes on only the test's documents, and the only other
upload is the one the reader waits for, since nothing observes others. Deadlock
checking is off because everything here may come to rest: producers stop, tests end,
and sessions are over.

Fairness. `EventHub!Fairness`: the loop runs what is ready (`Resume`,
`WarmupOver`), timers fire (`Tick`), and the SDK delivers what a live partition
holds (`Deliver`). No fairness for producers, callers, redeliveries or broken
links. `FairRunner`: each walker's own steps once it has begun to watch, and time;
not its upload, not delivery, not the next test and not pytest-timeout, so the
walk ends by its own deadlines. `Session!FairSpec`: each test's own steps (every
await has a timeout of its own), the blob's deletion and the teardown; not
pytest-timeout. `Tenant!Fairness`: each client's steps once it is started, and the
two deadlines; not who starts one, the pipeline or the other uploads, so that
polls end by their own deadlines.

## Proofs

`tlapm` checks every leaf. The assumptions are the named ones on the constants
(`EventHubAssumption`, `RunnerAssumption`, `SessionAssumption`,
`PublicationAssumption`, `IngestionAssumption`, `CleanupAssumption`,
`DocReaderAssumption`, `MultiAssumption`, `TenantAssumption`): types, sets that are
not empty, lists without repetitions. TLC evaluates each on the runs of the
matching MC module.

Every invariant and every action property that a passing run checks is proved for
all values of the constants, and so is that the two detailed specifications
implement the abstract ones. `PROJECT.json` lists theorems
and properties; the arguments are these.

* **Listener, waits** (`EventHubProofs`). The inductive invariant is `ListenerInv`.
  `NoLostWakeup` is not inductive alone: it needs that a suspended call's document
  is watched (else an event for it could be dropped, or matter without waking it),
  which is `WaitersAreWatched`. `ReturnsEarliestMatch` needs that appending to the
  buffer never makes an earlier match (`EarliestStays`, `MatchesOfAppend`), and
  `TimeoutsAreSilent` needs `DeliveredIsCaptured`: the scan looks at the buffer,
  the property at what was delivered. The only steps that settle a call as timed
  out are `Wait` and `Resume` through `GiveUp`, whose scan found nothing.
* **Listener, buffer** (`EventHubProofs`). `BufferInv` says that an entry is
  what its log holds at its number, and that, while nothing was replayed, entries
  of a partition are numbered upwards and not beyond `read`. `RedeliveryIsReported`
  needs no invariant: of the entries with one key there is a first, and
  `find_duplicates` reports the others against it.
* **Listener, promise** (`EventFeedProofs`). `RefinesFeed`: each outcome of the
  loop body maps to an answer, a refusal, an opening or (a call that suspends
  again) a stutter; a captured event maps to `Arrive`; everything else stutters.
* **Walker** (`PipelineRunnerProofs`). `RunnerInv` is `ListenerInv` with the place
  of each coroutine (`AtStart`, `Underway`, `Ended`), what its rows look like
  (`RowsInv`) and why (`CausesInv`). A wait that timed out leaves a fact about the
  buffer (no match) that must still hold when the walker writes the row; it does,
  since the walker holds the loop from the one to the other. `FailedNeverPasses` is
  about what was delivered, and the walker's last look is at the buffer:
  `DeliveredIsCaptured` of the listener joins the two, as it does in
  `ForceKillsAreSilent`: a force-kill row stands for a stage whose event was not
  delivered since the document was watched, and no FAILED event was either.
* **Walker with listener** (`PipelineRunnerProofs`, `StageWalkProofs`). A property of
  `EventHub!Spec` says nothing of `SpecRunner`, whose calls are made and given up by
  the walker. `ListenerServesWalker` states the listener's invariants again, of
  `SpecRunner`, and `WalkerHasFeed` that it implements the safety part of
  `EventFeed` too. `WalksAreNotStuck` is the safety half of `TestEnds`: a walk under
  way has a step of its own, or of the clock, whose guards hold. `TurnInv` is what it
  needs: the coroutine that awaits has a call of its own, and a call's poll is
  never longer than what is left of its budget.
* **Walker, promise** (`StageWalkProofs`). `RunnerImplementsWalk`: a row that the
  walker writes is `Pass`, `Fail`, `ForceKill` or `SkipAll` of `StageWalk`, its
  verdict is `Finish`, pytest-timeout is `Kill`, all else stutters.
* **Session** (`SessionProofs`). `SessionInv` says for each place of a test what is
  true of its rows, calls and document (`Idle`, `Halfway`, `Started`, `Fits`), what
  its rows look like when its pipeline never started (`Blamed`), and who answers for
  the blob (`SourceInv`). The properties of the report are stated of a saved one
  only, `Fits` for every test that is over, killed or not; that an abandoned
  coroutine may still write rows is why it says so much.
* **Session, progress** (`SessionProofs`). `SessionsDwindle`: every step, those of an
  abandoned coroutine included, lowers `StepsLeft`, a natural number made of the
  calls, stages and places that each test has ahead, so no session goes on for ever.
  `SomebodyMayAlwaysGoOn`: until the report is saved, the guards of a step that
  `FairSpec` is fair to hold (`ReadyInv`: a walk without a listener has no rows when
  it begins, and only the bulk test that started holds the blob). Of `ReportIsSaved`
  this leaves the fairness itself to TLC, and that the guards listed in `MayGoOn`
  are all that ENABLED asks for.
* **Publication** (`PublicationProofs`). `GraphIsExplained` needs one fact more,
  that a SKIPPED row beside a PASS row has a FAIL row too (`StoryInv`), since
  `_aggregate_status` lets SKIPPED next to PASS count as PASS. `LightIsExplained` and
  `AccusationsAgree` need that a document in the report has an upload row
  (`TraceInv`), as a status made of no rows would be a light without a reason. The
  two are about lists picked from the list of documents: `InLight` gives the k-th
  scenario of a light by its rank, and the facts about ranks in `Counting` (each is
  reached, by one place only) take the place of an induction over the list.
* **Tenant** (`TenantProofs`). `TenantInv`: the list has each document once and
  agrees with the states; a walk that has not met its document, nor seen a deletion,
  has it ahead of its page (`Ahead`); a cancelled poll has the sibling that
  cancelled it; a document that was in time stays at the target or beyond, as
  states only go forward.
* **Tenant, progress** (`TenantProofs`). Of `AllEnd`, that no client goes on for ever,
  whatever is uploaded, deleted or fails meanwhile. `JobsDwindle`: each step of the
  cleanup job lowers `JobLeft`, made of `max_pages` and the page size; it needs that
  a page never gives more to delete than its size (`TodoFits`, `PageIsBounded`).
  `SearchesDwindle`: once the deadline has passed (it is only looked at between two
  walks), `SearchLeft`, the rest of one walk, falls. `TestsDwindle`: the phases and
  artifacts of the test are used up, and within a phase the steps of each task,
  but for the naps of a poll before its deadline, which stays passed until the last
  poll is over.

Only model-checked: liveness (`WaitEnds`, `EventuallyCaptured`, the fairness of
`ImplementsFeed`, `TestEnds`, `ReportIsSaved`, `AllEnd`), which with fairness and
ENABLED is out of the prover's reach but for the safety halves above. What
`StageWalk` promises is not restated as invariants of its own: `Session` uses its
actions, and `SessionInv` carries what follows from them.

## Not modelled

* Log lines and counters that only feed them; `record_log` and its cap of 2000
  lines (nothing but the log panel reads them); the text of rows and messages,
  durations, and layout; `slack_summary` in `lib/report.py`, which nothing calls.
* The values of tokens, blobs and documents; headers and payloads of requests.
* The AMQP start-up itself (a partition that connects late is one that delivers
  late).
* The growth of the poll interval: a sleep may end at any time before the deadline.
* The UI test's doc-reader branch, which cannot be reached: `upload_file` raises
  when the response has no ufid. `DocReader` models the client nevertheless, as a
  caller would use it.
* The single-file presigned test: one document through the client and `poll_until`
  that `MultiPresigned` models, with no concurrency of its own. It waits for OCR_QUEUED, a
  state a document soon leaves, so a poll may miss it between two looks;
  `LastLookCounts` does not cover that, since a document that has moved on is no
  miss there. Its assertion that `find_duplicates` reports nothing can fail over two
  different events: without `data.action` they share the key (document, "").
* pytest-timeout in `Tenant`. Its 600 s (`pyproject.toml:33`) equal the polls'
  `full_pipeline_timeout` (`lib/config.py:77`) and also cover setup and uploads, and the
  multi-file test has no timeout mark: with the defaults pytest ends the test before
  `PollTimeout` does, inside a poll and without its row. The model shows what the test
  does under a shorter poll timeout or a longer one for pytest (the CI workflows pass
  --timeout=3600). A kill would stop the test there, and the safety properties hold of
  a behaviour that stops; `AllEnd` shows that the test needs no help from it. For the
  walker, where the race decides what the report says, it is modelled
  (`PipelineRunner_kill`).
* Smoke and dry-run tests, configuration, run context, fixture loading and the PDF
  generator: sequential, without state that anything else changes. CI and
  Kubernetes jobs: shell glue around one pytest run.

## Plan

Done: the listener with its promise, the walker with its promise, the rollups, the
session with its token and calls, the publication, the clients of the ingestion
service, and the proofs above.

Left, and of less weight: the single-file presigned test as a user of
`MultiPresigned`'s poll; the log panel of the page and its cap; the laws of `Rollup`
and the promises of `StageWalk` as theorems of their own.
