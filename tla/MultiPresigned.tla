---------------------------- MODULE MultiPresigned ----------------------------
(***************************************************************************)
(* The multi-file presigned test: two task groups, one that uploads the     *)
(* files and one that runs poll_until for each, then the rows, then the     *)
(* artifacts one after the other.  A task that raises has its siblings      *)
(* cancelled.  The tenant's pipeline and its other users go on meanwhile.   *)
(***************************************************************************)
EXTENDS Ingestion

CONSTANT Files   \* the documents of the test, in the order of ufids

ASSUME MultiAssumption == Files \in Seq(Docs) /\ Files # <<>>

VARIABLES multi,   \* "idle", "uploading", "polling", "checking", "passed" or "failed"
          task,    \* task[d]: where the upload, then the poll, of d stands
          answer,  \* answer[d]: the processingState poll_until read last
          late,    \* has the timeout of the polls, started together, passed
          inTime,  \* history: the documents that were at the target just then,
                   \* with their poll's next look still to be served
          rows,    \* rows[d]: the row "Full Pipeline" of d, if any
          at       \* the document whose artifacts are fetched next

multiVars == <<multi, task, answer, late, inTime, rows, at>>

Batch == {Files[i] : i \in DOMAIN Files}

Target == "EXTRACTION_QUEUED"

Running == {"initiating", "putting", "confirming", "looking", "answered", "napping"}

Raising == {"timeout", "broken"}

MultiInit ==
  /\ multi = "idle"
  /\ task = [d \in Batch |-> "none"]
  /\ answer = [d \in Batch |-> "none"]
  /\ late = FALSE /\ inTime = {}
  /\ rows = [d \in Batch |-> "none"]
  /\ at = 1

Becomes(d, s) == task' = [task EXCEPT ![d] = s]

StartMulti ==
  /\ multi = "idle"
  /\ multi' = "uploading"
  /\ task' = [d \in Batch |-> "initiating"]
  /\ UNCHANGED <<serviceVars, answer, late, inTime, rows, at>>

Initiated(d) ==
  /\ task[d] = "initiating"
  /\ Create(d, "INITIATED")
  /\ Becomes(d, "putting")
  /\ UNCHANGED <<multi, answer, late, inTime, rows, at>>

(* The PUT goes to blob storage; the service learns of it by the confirmation. *)
PutToSas(d) ==
  /\ task[d] = "putting"
  /\ Becomes(d, "confirming")
  /\ UNCHANGED <<serviceVars, multi, answer, late, inTime, rows, at>>

Confirmed(d) ==
  /\ task[d] = "confirming"
  /\ Confirm(d)
  /\ Becomes(d, "uploaded")
  /\ UNCHANGED <<multi, answer, late, inTime, rows, at>>

(* A request whose answer does not arrive may have been served. *)
MayBeServed(d) ==
  \/ UNCHANGED serviceVars
  \/ task[d] = "initiating" /\ Create(d, "INITIATED")
  \/ task[d] = "confirming" /\ Confirm(d)

(* A coroutine ends, and its locals with it. *)
Ends(d, s) ==
  /\ Becomes(d, s)
  /\ answer' = [answer EXCEPT ![d] = "none"]
  /\ inTime' = inTime \ {d}
  /\ late' = (late /\ \E e \in Batch \ {d} : task[e] \in Running)

(* raise_for_status, a network error, or get_document of a deleted document. *)
RequestBreaks(d) ==
  /\ task[d] \in {"initiating", "putting", "confirming", "looking"}
  /\ MayBeServed(d)
  /\ Ends(d, "broken")
  /\ UNCHANGED <<multi, rows, at>>

(* TaskGroup: once one task has raised, the others are cancelled. *)
Cancelled(d) ==
  /\ task[d] \in Running
  /\ \E e \in Batch : task[e] \in Raising
  /\ MayBeServed(d)
  /\ Ends(d, "cancelled")
  /\ UNCHANGED <<multi, rows, at>>

Over == \A d \in Batch : task[d] \notin Running

AnyBroken == \E d \in Batch : task[d] = "broken"

UploadsEnd ==
  /\ multi = "uploading" /\ Over
  /\ IF AnyBroken THEN multi' = "failed" /\ task' = [d \in Batch |-> "none"]
     ELSE multi' = "polling" /\ task' = [d \in Batch |-> "looking"]
  /\ UNCHANGED <<serviceVars, answer, late, inTime, rows, at>>
-----------------------------------------------------------------------------
(* poll_until *)

(* The service answers a look; the answer has yet to be read. *)
Look(d) ==
  /\ task[d] = "looking"
  /\ state[d] # "deleted"
  /\ answer' = [answer EXCEPT ![d] = state[d]]
  /\ Becomes(d, "answered")
  /\ UNCHANGED <<serviceVars, multi, late, inTime, rows, at>>

Judge(d) ==
  /\ task[d] = "answered"
  /\ \/ answer[d] = Target /\ Ends(d, "seen")
     \/ answer[d] # Target /\ late /\ Ends(d, "timeout")
     \/ /\ answer[d] # Target /\ ~late
        /\ Becomes(d, "napping")
        /\ answer' = [answer EXCEPT ![d] = "none"]
        /\ UNCHANGED <<late, inTime>>
  /\ UNCHANGED <<serviceVars, multi, rows, at>>

(* The sleep, which never lasts beyond the deadline, is followed by a look. *)
WakeUnlessLate(d) ==
  /\ task[d] = "napping"
  /\ IF late THEN Ends(d, "timeout")
     ELSE Becomes(d, "looking") /\ UNCHANGED <<answer, late, inTime>>
  /\ UNCHANGED <<serviceVars, multi, rows, at>>

Wake(d) ==
  /\ task[d] = "napping"
  /\ Becomes(d, "looking")
  /\ UNCHANGED <<serviceVars, multi, answer, late, inTime, rows, at>>

PollTimeout ==
  /\ multi = "polling" /\ ~late /\ ~Over
  /\ late' = TRUE
  /\ inTime' = {d \in Batch : task[d] \in {"looking", "napping"} /\ state[d] = Target}
  /\ UNCHANGED <<serviceVars, multi, task, answer, rows, at>>

TaskStep(d) ==
  Initiated(d) \/ PutToSas(d) \/ Confirmed(d) \/ RequestBreaks(d) \/ Cancelled(d)
    \/ Look(d) \/ Judge(d) \/ Wake(d)
-----------------------------------------------------------------------------
(* failed_ufids, and one row for each document. *)
FailedUfids == {d \in Batch : task[d] = "timeout"}

RowsRecorded ==
  /\ multi' = "checking"
  /\ rows' = [d \in Batch |-> IF d \in FailedUfids THEN "FAIL" ELSE "PASS"]

(* except* takes the timeouts out of the group; anything else is raised on. *)
PollsEndSwallowing ==
  /\ multi = "polling" /\ Over
  /\ RowsRecorded
  /\ task' = [d \in Batch |-> "none"]
  /\ UNCHANGED <<serviceVars, answer, late, inTime, at>>

PollsEnd ==
  /\ multi = "polling" /\ Over
  /\ IF AnyBroken THEN multi' = "failed" /\ UNCHANGED rows ELSE RowsRecorded
  /\ task' = [d \in Batch |-> "none"]
  /\ UNCHANGED <<serviceVars, answer, late, inTime, at>>

HasOcr(d) == state[d] \in {"OCR_COMPLETED", "EXTRACTION_QUEUED", "EXTRACTION_COMPLETED"}

(* get_artifacts of the next document: the request may fail, and after the   *)
(* last there may be duplicate events.                                      *)
CheckArtifacts ==
  /\ multi = "checking"
  /\ \/ multi' = "failed" /\ UNCHANGED at
     \/ /\ HasOcr(Files[at])
        /\ at' = at + 1
        /\ multi' = IF at = Len(Files) THEN "passed" ELSE "checking"
  /\ UNCHANGED <<serviceVars, task, answer, late, inTime, rows>>

MultiStep == StartMulti \/ UploadsEnd \/ PollsEnd \/ CheckArtifacts
-----------------------------------------------------------------------------
(* A PASS row of a document nobody saw at the target has one cause: the poll *)
(* of a sibling timed out, and its FAIL row stands beside it.  A test that   *)
(* passes has processed every document that was not deleted under it.       *)
UnseenPassIsExplained ==
  [][/\ \A d \in Batch :
          rows'[d] = "PASS" /\ rows[d] # "PASS" =>
            task[d] = "seen" \/ \E e \in Batch : task[e] = "timeout" /\ rows'[e] = "FAIL"
     /\ multi' = "passed" /\ multi # "passed" =>
          \A d \in Batch : state[d] = "deleted" \/ HasOcr(d)]_<<serviceVars, multiVars>>

(* poll_until looks once more when its time is up: a document that was at    *)
(* the target by then, no look having been answered already, is reported as *)
(* timed out only if it has left the target before that look.               *)
LastLookCounts ==
  [][\A d \in inTime : task[d] # "timeout" /\ task'[d] = "timeout" => state[d] # Target
    ]_<<serviceVars, multiVars>>
=============================================================================
