------------------------------ MODULE StageWalk -------------------------------
(***************************************************************************)
(* What run_pipeline_stages promises the rest of the suite, with the       *)
(* listener, the clock and the event loop hidden: the stage rows it leaves  *)
(* in a document's trace, and the verdict on the test.  PipelineRunner      *)
(* implements it; Session builds the test session on it.                    *)
(*                                                                         *)
(* A test that pytest-timeout has killed keeps the verdict "killed", but    *)
(* its coroutine may still add rows.                                        *)
(***************************************************************************)
EXTENDS Naturals, Sequences

CONSTANTS Walkers,  \* the documents (one per test) that are walked
          N         \* the number of pipeline stages

VARIABLES rows,     \* rows[d]: the status of each stage row, in order
          verdict   \* verdict[d]: what pytest says of the test

vars == <<rows, verdict>>

Verdicts == {"none", "passed", "failed", "skipped", "killed"}

Has(d, st) == \E i \in DOMAIN rows[d] : rows[d][i] = st

AllPass(d) == \A i \in DOMAIN rows[d] : rows[d][i] = "PASS"

Times(st, n) == [i \in 1 .. n |-> st]

Init ==
  /\ rows = [d \in Walkers |-> <<>>]
  /\ verdict = [d \in Walkers |-> "none"]

(* The walk of d has not ended by itself. *)
Walking(d) == verdict[d] \in {"none", "killed"} /\ ~Has(d, "SKIPPED")

Decide(d, v) == verdict' = [verdict EXCEPT ![d] = IF @ = "none" THEN v ELSE @]

Write(d, s) == rows' = [rows EXCEPT ![d] = @ \o s]

(* The stage's event arrived. *)
Pass(d) ==
  /\ Walking(d)
  /\ Len(rows[d]) < N
  /\ AllPass(d)
  /\ Write(d, <<"PASS">>)
  /\ UNCHANGED verdict

(* A FAILED event is the cause, of this stage and of the ones after it. *)
Fail(d) ==
  /\ Walking(d)
  /\ Len(rows[d]) < N
  /\ Write(d, <<"FAIL">>)
  /\ UNCHANGED verdict

(* The stage timed out for no known reason: the walk ends here. *)
ForceKillOneMore(d) ==
  /\ Walking(d)
  /\ Len(rows[d]) < N
  /\ AllPass(d)
  /\ Write(d, <<"FAIL">> \o Times("SKIPPED", N - Len(rows[d])))
  /\ Decide(d, "failed")

ForceKill(d) ==
  /\ Walking(d)
  /\ Len(rows[d]) < N
  /\ AllPass(d)
  /\ Write(d, <<"FAIL">> \o Times("SKIPPED", N - Len(rows[d]) - 1))
  /\ Decide(d, "failed")

(* There is no listener. *)
SkipAll(d) ==
  /\ Walking(d)
  /\ rows[d] = <<>>
  /\ Write(d, Times("SKIPPED", N))
  /\ Decide(d, "skipped")

(* All stages have their row; a FAILED event may have come after the last. *)
FinishUnchecked(d) ==
  /\ Walking(d)
  /\ Len(rows[d]) = N
  /\ Decide(d, "passed")
  /\ UNCHANGED rows

Finish(d) ==
  /\ Walking(d)
  /\ Len(rows[d]) = N
  /\ \/ AllPass(d) /\ Decide(d, "passed")
     \/ Decide(d, "failed")
  /\ UNCHANGED rows

(* pytest's own timeout (external). *)
Kill(d) ==
  /\ verdict[d] = "none"
  /\ verdict' = [verdict EXCEPT ![d] = "killed"]
  /\ UNCHANGED rows

Walk(d) == Pass(d) \/ Fail(d) \/ ForceKill(d) \/ SkipAll(d) \/ Finish(d)

Next == \E d \in Walkers : Walk(d) \/ Kill(d)

Spec == Init /\ [][Next]_vars
=============================================================================
