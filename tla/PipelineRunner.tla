---------------------------- MODULE PipelineRunner ---------------------------
(***************************************************************************)
(* lib/pipeline_runner.py on top of the listener: run_pipeline_stages walks *)
(* the stages of one document, one wait per stage, and leaves one report    *)
(* row per stage and a pytest outcome.  The tests of a session run one      *)
(* after the other on one event loop and share the listener.                *)
(*                                                                         *)
(* pytest-timeout (external) kills a test whose whole budget is spent: it   *)
(* raises out of the event loop, so the test's coroutine is abandoned where *)
(* it waits, and goes on if a later test runs the loop again.               *)
(***************************************************************************)
EXTENDS EventHub

CONSTANTS
  Stages,       \* PIPELINE_STAGES: the CloudEvents type of each stage, in order
  StageBudget,  \* STAGE_TIMEOUT_S, in ticks
  TestBudget    \* pytest's --timeout, in ticks

N == Len(Stages)

StageKey(n) == [by |-> "type", of |-> {Stages[n]}]

FailedKey == [by |-> "action", of |-> {"FAILED"}]

ASSUME RunnerAssumption ==
  /\ Stages \in Seq(Types)
  /\ N > 0
  /\ "FAILED" \in Actions
  /\ FailedKey \in Keys /\ \A n \in 1 .. N : StageKey(n) \in Keys
  /\ StageBudget \in Nat \ {0}
  /\ TestBudget \in Nat

VARIABLES
  configured,  \* is the event_listener fixture a listener, or None
  walk,        \* walk[d]: where the coroutine of d's test stands
  rows,        \* rows[d]: the stage rows of d's trace in the report
  attached,    \* attached[d]: trace.steps[-1].events, as indices into events
  outcome,     \* outcome[d]: what pytest says of the test
  patience     \* patience[d]: what is left of the test's own budget

runner == <<configured, walk, rows, attached, outcome, patience>>
allVars == <<log, read, task, watched, events, newEvent, call, replays, since,
             configured, walk, rows, attached, outcome, patience>>

(* "new": not started; "uploading": before run_pipeline_stages; "watching": *)
(* inside watch(); "stage": at the head of the loop; "await": inside        *)
(* wait_for_event_type; "done": the coroutine has ended.                    *)
Walks == [pc : {"new", "uploading", "watching", "stage", "await", "done"},
          stage : 1 .. N + 1, aborted : BOOLEAN]

Rows == [stage : 1 .. N, status : {"PASS", "FAIL", "SKIPPED"},
         why : {"event", "aborted", "failed", "timeout", "killed", "unset"}]

InProgress(d) == walk[d].pc # "new" /\ outcome[d] = "none"

(* The coroutine of d holds the event loop: it is between two awaits. *)
Holds(d) ==
  \/ walk[d].pc = "stage"
  \/ walk[d].pc = "await" /\ ~Suspended(d)

(* The loop can run another callback: a test drives it, and nobody holds it. *)
LoopFree == (\E d \in Docs : InProgress(d)) /\ \A d \in Docs : ~Holds(d)

InitRunner ==
  /\ Init
  /\ configured \in BOOLEAN
  /\ walk = [d \in Docs |-> [pc |-> "new", stage |-> 1, aborted |-> FALSE]]
  /\ rows = [d \in Docs |-> <<>>]
  /\ attached = [d \in Docs |-> {}]
  /\ outcome = [d \in Docs |-> "none"]
  /\ patience = [d \in Docs |-> TestBudget]
-----------------------------------------------------------------------------
(* The rest of the system, as far as the walker sees it (external) *)

(* pytest starts the next test: its upload creates the document. *)
StartTest(d) ==
  /\ walk[d].pc = "new"
  /\ \A c \in Docs : ~InProgress(c)
  /\ walk' = [walk EXCEPT ![d].pc = "uploading"]
  /\ UNCHANGED <<log, read, task, watched, events, newEvent, call, replays, since,
                 configured, rows, attached, outcome, patience>>

(* A service emits an event about an uploaded document, each event once. *)
Produce(p, e) ==
  /\ e.doc \in Docs => walk[e.doc].pc # "new"
  /\ \A q \in Partitions : \A i \in DOMAIN log[q] : log[q][i] # e
  /\ Emit(p, e)
  /\ UNCHANGED runner

(* A receive task runs, or the SDK under it. *)
Receive(p) ==
  /\ LoopFree
  /\ Deliver(p) \/ ReceiveError(p) \/ Redeliver(p)
  /\ UNCHANGED runner

(* Time passes, for the waits and for the test in progress. *)
Elapsed ==
  /\ LoopFree
  /\ \E d \in Docs : \/ Suspended(d) /\ call[d].left > 0
                     \/ InProgress(d) /\ patience[d] > 0
  /\ call' = Later
  /\ patience' = [d \in Docs |->
       IF InProgress(d) THEN Elapse(patience[d]) ELSE patience[d]]
  /\ UNCHANGED <<log, read, task, watched, events, newEvent, replays, since,
                 configured, walk, rows, attached, outcome>>

(* pytest-timeout fires: the test fails, its coroutine stays behind. *)
TimeoutKill(d) ==
  /\ LoopFree
  /\ InProgress(d)
  /\ patience[d] = 0
  /\ outcome' = [outcome EXCEPT ![d] = "killed"]
  /\ UNCHANGED <<log, read, task, watched, events, newEvent, call, replays, since,
                 configured, walk, rows, attached, patience>>
-----------------------------------------------------------------------------
(* The report rows and the verdict *)

Row(n, st, why) == [stage |-> n, status |-> st, why |-> why]

(* rows[d] with one more row, or with one row for each of stages m .. N. *)
OneMore(d, row) == Append(rows[d], row)

OneForEachFromHere(s, m, st, why) ==
  s \o [i \in 1 .. N - m + 2 |-> Row(m + i - 2, st, why)]

OneForEach(s, m, st, why) ==
  s \o [i \in 1 .. N - m + 1 |-> Row(m + i - 1, st, why)]

(* pytest.fail, pytest.skip or a plain return: it decides the outcome only  *)
(* of a test pytest is still waiting for.                                   *)
DecideAnyway(d, verdict) == outcome' = [outcome EXCEPT ![d] = verdict]

Decide(d, verdict) ==
  outcome' = [outcome EXCEPT ![d] = IF @ = "none" THEN verdict ELSE @]

(* attach_events_to_last_step: events_for(ufid) onto the last row. *)
EventsFor(d) == {i \in DOMAIN events : events[i].doc = d}

Attach(d) == attached' = [attached EXCEPT ![d] = EventsFor(d)]

(* has_event(ufid, FAILURE_ACTION) *)
FailedByType(d) == MatchesAt(d, [by |-> "type", of |-> {"FAILED"}]) # {}

HasFailed(d) == MatchesAt(d, FailedKey) # {}

NextStage(d, aborted) ==
  walk' = [walk EXCEPT ![d] =
    [pc |-> "stage", stage |-> walk[d].stage + 1, aborted |-> aborted]]
-----------------------------------------------------------------------------
(* run_pipeline_stages *)

(* event_listener is None: skip_all_stages, then pytest.skip. *)
NoListener(d) ==
  /\ walk[d].pc = "uploading"
  /\ ~configured
  /\ LoopFree
  /\ rows' = [rows EXCEPT ![d] = OneForEach(@, 1, "SKIPPED", "unset")]
  /\ Decide(d, "skipped")
  /\ walk' = [walk EXCEPT ![d].pc = "done"]
  /\ UNCHANGED <<log, read, task, watched, events, newEvent, call, replays, since,
                 configured, attached, patience>>

(* await event_listener.watch(ufid), the first of the session or a later one *)
EnterCold(d) ==
  /\ walk[d].pc = "uploading"
  /\ configured
  /\ LoopFree
  /\ WatchCold(d)
  /\ walk' = [walk EXCEPT ![d].pc = "watching"]
  /\ UNCHANGED <<configured, rows, attached, outcome, patience>>

EnterWarm(d) ==
  /\ walk[d].pc = "uploading"
  /\ configured
  /\ LoopFree
  /\ WatchWarm(d)
  /\ walk' = [walk EXCEPT ![d].pc = "stage"]
  /\ UNCHANGED <<configured, rows, attached, outcome, patience>>

Watched(d) ==
  /\ walk[d].pc = "watching"
  /\ LoopFree
  /\ WarmupOver(d)
  /\ walk' = [walk EXCEPT ![d].pc = "stage"]
  /\ UNCHANGED <<configured, rows, attached, outcome, patience>>

AtStage(d) == walk[d].pc = "stage" /\ walk[d].stage <= N

(* A prior stage saw the failure action, or it arrived since. *)
StageAborted(d) ==
  /\ AtStage(d)
  /\ walk[d].aborted \/ HasFailed(d)
  /\ rows' = [rows EXCEPT ![d] = OneMore(d, Row(walk[d].stage, "FAIL", "aborted"))]
  /\ NextStage(d, TRUE)
  /\ UNCHANGED <<log, read, task, watched, events, newEvent, call, replays, since,
                 configured, attached, outcome, patience>>

(* The call of wait_for_event_type, up to its first await. *)
StageWait(d) ==
  /\ AtStage(d)
  /\ ~walk[d].aborted
  /\ ~HasFailed(d)
  /\ Wait(d, StageKey(walk[d].stage), StageBudget)
  /\ walk' = [walk EXCEPT ![d].pc = "await"]
  /\ UNCHANGED <<configured, rows, attached, outcome, patience>>

StageResume(d) ==
  /\ walk[d].pc = "await"
  /\ LoopFree
  /\ Resume(d)
  /\ UNCHANGED runner

StagePassed(d) ==
  /\ walk[d].pc = "await"
  /\ call[d].pc = "returned"
  /\ rows' = [rows EXCEPT ![d] = OneMore(d, Row(walk[d].stage, "PASS", "event"))]
  /\ NextStage(d, FALSE)
  /\ UNCHANGED <<log, read, task, watched, events, newEvent, call, replays, since,
                 configured, attached, outcome, patience>>

(* The wait timed out, and the failure action arrived during it. *)
StageFailed(d) ==
  /\ walk[d].pc = "await"
  /\ call[d].pc = "timedout"
  /\ HasFailed(d)
  /\ rows' = [rows EXCEPT ![d] = OneMore(d, Row(walk[d].stage, "FAIL", "failed"))]
  /\ NextStage(d, TRUE)
  /\ UNCHANGED <<log, read, task, watched, events, newEvent, call, replays, since,
                 configured, attached, outcome, patience>>

(* The wait timed out for no known reason: force-kill. *)
ForceKillNoSkips(d) ==
  /\ walk[d].pc = "await"
  /\ call[d].pc = "timedout"
  /\ ~HasFailed(d)
  /\ rows' = [rows EXCEPT ![d] = OneMore(d, Row(walk[d].stage, "FAIL", "timeout"))]
  /\ Attach(d)
  /\ Decide(d, "failed")
  /\ walk' = [walk EXCEPT ![d].pc = "done"]
  /\ UNCHANGED <<log, read, task, watched, events, newEvent, call, replays, since,
                 configured, patience>>

ForceKill(d) ==
  /\ walk[d].pc = "await"
  /\ call[d].pc = "timedout"
  /\ ~HasFailed(d)
  /\ rows' = [rows EXCEPT ![d] =
       OneForEach(OneMore(d, Row(walk[d].stage, "FAIL", "timeout")),
                  walk[d].stage + 1, "SKIPPED", "killed")]
  /\ Attach(d)
  /\ Decide(d, "failed")
  /\ walk' = [walk EXCEPT ![d].pc = "done"]
  /\ UNCHANGED <<log, read, task, watched, events, newEvent, call, replays, since,
                 configured, patience>>

(* After the loop: one last look at the captured stream. *)
FinishUnchecked(d) ==
  /\ walk[d].pc = "stage"
  /\ walk[d].stage = N + 1
  /\ Attach(d)
  /\ Decide(d, IF walk[d].aborted THEN "failed" ELSE "passed")
  /\ walk' = [walk EXCEPT ![d].pc = "done"]
  /\ UNCHANGED <<log, read, task, watched, events, newEvent, call, replays, since,
                 configured, rows, patience>>

Finish(d) ==
  /\ walk[d].pc = "stage"
  /\ walk[d].stage = N + 1
  /\ Attach(d)
  /\ Decide(d, IF HasFailed(d) THEN "failed" ELSE "passed")
  /\ walk' = [walk EXCEPT ![d].pc = "done"]
  /\ UNCHANGED <<log, read, task, watched, events, newEvent, call, replays, since,
                 configured, rows, patience>>
-----------------------------------------------------------------------------
Walker(d) ==
  \/ NoListener(d) \/ EnterCold(d) \/ EnterWarm(d) \/ Watched(d)
  \/ StageAborted(d) \/ StageWait(d) \/ StageResume(d)
  \/ StagePassed(d) \/ StageFailed(d) \/ ForceKill(d) \/ Finish(d)

NextRunner ==
  \/ \E d \in Docs : StartTest(d) \/ Walker(d) \/ TimeoutKill(d)
  \/ \E p \in Partitions : Receive(p) \/ (\E e \in Emittable : Produce(p, e))
  \/ Elapsed

SpecRunner == InitRunner /\ [][NextRunner]_allVars

(* The loop runs what is ready and timers fire.  No fairness for uploads,   *)
(* for producers, for the next test, nor for pytest-timeout: the walker     *)
(* must end by itself.                                                      *)
FairRunner ==
  /\ SpecRunner
  /\ WF_allVars(Elapsed)
  /\ \A d \in Docs : WF_allVars(Walker(d) /\ walk[d].pc # "uploading")
-----------------------------------------------------------------------------
(* Properties *)

(* Every variable of the walker stays within its type. *)
RunnerTypeOK ==
  /\ configured \in BOOLEAN
  /\ walk \in [Docs -> Walks]
  /\ rows \in [Docs -> Seq(Rows)]
  /\ attached \in [Docs -> SUBSET Nat]
  /\ outcome \in [Docs -> {"none", "passed", "failed", "skipped", "killed"}]
  /\ patience \in [Docs -> Nat]

Statuses(d, st) == {i \in DOMAIN rows[d] : rows[d][i].status = st}

(* The report tells one story per document: its rows are the stages in      *)
(* order, a prefix of PASS rows, then either FAIL rows to the end (aborted  *)
(* by a FAILED event) or one FAIL row and SKIPPED rows to the end           *)
(* (force-killed), or nothing but SKIPPED rows (no listener).               *)
RowsTellOneStory ==
  \A d \in Docs :
    /\ \A i \in DOMAIN rows[d] : rows[d][i].stage = i
    /\ Len(rows[d]) <= N
    /\ \A i, j \in DOMAIN rows[d] :
         i < j => CASE rows[d][i].status = "PASS" -> TRUE
                    [] rows[d][i].why \in {"aborted", "failed"} -> rows[d][j].why = "aborted"
                    [] rows[d][i].why = "timeout" -> rows[d][j].why = "killed"
                    [] rows[d][i].why = "unset" -> rows[d][j].why = "unset"
                    [] OTHER -> rows[d][j].why = "killed"

(* No verdict without a full report: once the walker itself has passed,     *)
(* failed or skipped a test, there is exactly one row per stage; a timeout  *)
(* row brings the SKIPPED rows of all later stages.                         *)
VerdictHasAllRows ==
  \A d \in Docs : outcome[d] \in {"passed", "failed", "skipped"} => Len(rows[d]) = N

(* A green test is earned: every stage row is PASS, and the events attached *)
(* to the report include one of each stage's type and no FAILED.            *)
PassIsEarned ==
  \A d \in Docs : outcome[d] = "passed" =>
    /\ Statuses(d, "PASS") = 1 .. N
    /\ \A n \in 1 .. N : attached[d] \cap MatchesAt(d, StageKey(n)) # {}
    /\ attached[d] \cap MatchesAt(d, FailedKey) = {}

(* A test never turns green once the listener was handed a FAILED event of  *)
(* its document: whatever was delivered since the watch counts, up to the   *)
(* very turn of the loop in which the walker returns.                       *)
FailedNeverPasses ==
  [][\A d \in Docs : outcome[d] = "none" /\ outcome'[d] = "passed" =>
       \A p \in Partitions : \A i \in since[d][p] + 1 .. read[p] :
         ~Matches(log[p][i], d, FailedKey)]_allVars

(* The cause a row names is real: a PASS row has a captured event of its    *)
(* stage, a row that blames FAILED has a captured FAILED, and a timeout row *)
(* stands for a stage whose event is not among the attached ones.           *)
RowsNameTheCause ==
  \A d \in Docs : \A i \in DOMAIN rows[d] :
    CASE rows[d][i].why = "event" -> MatchesAt(d, StageKey(i)) # {}
      [] rows[d][i].why \in {"aborted", "failed"} -> MatchesAt(d, FailedKey) # {}
      [] rows[d][i].why = "timeout" ->
           attached[d] \cap (MatchesAt(d, StageKey(i)) \cup MatchesAt(d, FailedKey)) = {}
      [] OTHER -> TRUE

(* A verdict is final, and so are the rows it came with, whatever coroutine *)
(* an earlier timeout left behind on the loop.                              *)
VerdictIsFinal ==
  [][\A d \in Docs :
       /\ outcome[d] # "none" => outcome'[d] = outcome[d]
       /\ outcome[d] \in {"passed", "failed", "skipped"} =>
            rows'[d] = rows[d] /\ attached'[d] = attached[d]]_allVars

(* The run never hangs past the stage budgets: once the walker has watched  *)
(* the document, its test ends, without any help from pytest-timeout.       *)
TestEnds ==
  \A d \in Docs :
    InProgress(d) /\ walk[d].pc \in {"watching", "stage", "await"} ~> ~InProgress(d)

(* The walker implements the walk of StageWalk: the waits, the event loop   *)
(* and the coroutines that pytest-timeout abandoned only decide which of    *)
(* its steps come when.                                                     *)
StatusRows == [d \in Docs |-> [i \in DOMAIN rows[d] |-> rows[d][i].status]]

Contract == INSTANCE StageWalk WITH Walkers <- Docs, rows <- StatusRows, verdict <- outcome

ImplementsWalk == Contract!Spec

(* What the comment on the walker's last check says: a failure action turns *)
(* pytest red "in addition to the HTML report row", so a test the walker    *)
(* failed has a FAIL row.  It has none when FAILED is captured while the    *)
(* last stage is waited for and that stage's event still arrives.           *)
FailedTestHasFailRow ==
  \A d \in Docs : outcome[d] = "failed" => Statuses(d, "FAIL") # {}

(* What README.md says of a stage whose event does not arrive: the stage is *)
(* recorded FAIL and all later stages SKIPPED, so a test that failed in a   *)
(* stage has a row for every stage.  pytest's own timeout, as long as that  *)
(* of a single stage, leaves the rows out.                                  *)
StageFailureHasAllRows ==
  \A d \in Docs :
    outcome[d] \in {"failed", "killed"} /\ walk[d].pc \in {"await", "done"} =>
      Len(rows[d]) = N
=============================================================================
